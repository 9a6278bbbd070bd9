-------------------------- MODULE TcpServerProofs --------------------------
(***************************************************************************)
(* Safety of the TCP server, for any finite number of clients and slots.   *)
(*                                                                         *)
(* The invariant follows a connection through the kernel's queue, the hand *)
(* of the thread that accepted it, and the table.  The counter is the      *)
(* number of open connections that are in nobody's hand: a store adds one, *)
(* a drop takes one away, and a store over another connection keeps both   *)
(* open, hence counted.                                                    *)
(***************************************************************************)
EXTENDS TcpServer, FiniteSetTheorems, TLAPS

\* Every waiting connection is in the kernel's queue once.
QueueSound ==
  /\ \A i \in 1 .. Len(backlog) : sock[backlog[i]] = "queued"
  /\ \A i, j \in 1 .. Len(backlog) : backlog[i] = backlog[j] => i = j

\* A thread holds a connection exactly while it is about to store it.
HandSound ==
  /\ \A t \in Threads : conn[t] # NoFd <=> pc[t] = "store"
  /\ \A t \in Threads : conn[t] # NoFd => sock[conn[t]] = "open"
  /\ conn["demod"] = conn["output"] => conn["demod"] = NoFd

\* The table holds open connections, each once and none of them in a hand.
SlotsSound ==
  /\ \A s \in Slots : client_fd[s] # NoFd =>
       /\ sock[client_fd[s]] = "open"
       /\ \A t \in Threads : conn[t] # client_fd[s]
  /\ \A r, s \in Slots :
       client_fd[r] = client_fd[s] /\ client_fd[r] # NoFd => r = s

Stored == Open \ InHand

IInv ==
  /\ TypeOK
  /\ QueueSound
  /\ HandSound
  /\ SlotsSound
  /\ listening => client_count = Cardinality(Stored)

LEMMA Finite ==
  /\ IsFiniteSet(Open) /\ IsFiniteSet(InHand) /\ IsFiniteSet(Stored)
  /\ IsFiniteSet(Table) /\ IsFiniteSet(Orphans)
<1>1. IsFiniteSet(Clients)
  BY TcpAssumption DEF TcpParameters
<1>2. /\ Open \in SUBSET Clients /\ InHand \in SUBSET Clients
      /\ Stored \in SUBSET Clients
      /\ Table \in SUBSET Clients /\ Orphans \in SUBSET Clients
  BY DEF Open, InHand, Stored, Table, Orphans
<1> QED
  BY <1>1, <1>2, FS_Subset

LEMMA SoundTable == HandSound /\ SlotsSound => TableSound
<1> SUFFICES ASSUME HandSound, SlotsSound PROVE TableSound
  OBVIOUS
<1>0. NoFd \notin Clients
  BY TcpAssumption DEF TcpParameters
<1>1. Table \cup InHand \subseteq Open
  BY <1>0 DEF Table, InHand, Open, HandSound, SlotsSound
<1>2. Table \cap InHand = {}
  BY <1>0 DEF Table, InHand, SlotsSound
<1> QED
  BY <1>1, <1>2 DEF TableSound, SlotsSound

\* The counter of the invariant is the counter of the property.
LEMMA CountOfStored ==
  HandSound /\ SlotsSound =>
    Cardinality(Stored) = Cardinality(Table) + Cardinality(Orphans)
<1> SUFFICES ASSUME HandSound, SlotsSound
             PROVE  Cardinality(Stored) = Cardinality(Table) + Cardinality(Orphans)
  OBVIOUS
<1>1. TableSound
  BY SoundTable
<1>2. Stored = Table \cup Orphans /\ Table \cap Orphans = {}
  BY <1>1 DEF Stored, Orphans, TableSound
<1>3. Cardinality({}) = 0
  BY FS_EmptySet
<1>4. /\ IsFiniteSet(Table) /\ IsFiniteSet(Orphans)
      /\ Cardinality(Table) \in Nat /\ Cardinality(Orphans) \in Nat
  BY Finite, FS_CardinalityType
<1>5. Cardinality(Table \cup Orphans) =
        Cardinality(Table) + Cardinality(Orphans) - Cardinality(Table \cap Orphans)
  BY <1>4, FS_Union
<1>6. Cardinality(Stored) = Cardinality(Table \cup Orphans)
  BY <1>2
<1>7. Cardinality(Table \cap Orphans) = 0
  BY <1>2, <1>3
<1> QED
  BY <1>4, <1>5, <1>6, <1>7

THEOREM InitIInv == Init => IInv
<1> SUFFICES ASSUME Init PROVE IInv
  OBVIOUS
<1>0. NoFd \notin Clients /\ MaxClients \in Nat \ {0}
  BY TcpAssumption DEF TcpParameters
<1>1. TypeOK
  <2>1. pc \in [Threads -> States]
    BY DEF Init, States
  <2>2. /\ client_fd \in [Slots -> Clients \cup {NoFd}]
        /\ slot \in [Threads -> Slots]
        /\ conn \in [Threads -> Clients \cup {NoFd}]
        /\ next \in 1 .. MaxClients + 1
    BY <1>0 DEF Init, Slots
  <2>3. backlog \in Seq(Clients)
    BY DEF Init
  <2>4. /\ sock \in [Clients -> {"new", "queued", "open", "closed"}]
        /\ peer \in [Clients -> {"reading", "stalled", "gone"}]
    BY DEF Init
  <2>5. client_count \in Int
    BY DEF Init
  <2>6. listening \in BOOLEAN /\ do_exit \in BOOLEAN
    BY Zenon DEF Init
  <2>7. flag \in Flags
    BY DEF Init, Flags
  <2> QED
    BY <2>1, <2>2, <2>3, <2>4, <2>5, <2>6, <2>7 DEF TypeOK
<1>2. QueueSound /\ HandSound /\ SlotsSound
  BY <1>0 DEF Init, QueueSound, HandSound, SlotsSound, Threads
<1>3. Stored = {}
  BY DEF Stored, Open, Init
<1>4. client_count = Cardinality(Stored)
  BY <1>3, FS_EmptySet DEF Init
<1> QED
  BY <1>1, <1>2, <1>4 DEF IInv

-----------------------------------------------------------------------------
(* The type of the variables.                                              *)

LEMMA GotoType ==
  ASSUME TypeOK, NEW t \in Threads, NEW l \in States, Goto(t, l)
  PROVE  pc' \in [Threads -> States]
BY DEF TypeOK, Goto

LEMMA AdvanceType ==
  ASSUME TypeOK, Sending, Advance
  PROVE  pc' \in [Threads -> States] /\ next' \in 1 .. MaxClients + 1
<1>0. MaxClients \in Nat \ {0}
  BY TcpAssumption DEF TcpParameters
<1>1. (IF next = MaxClients THEN "idle" ELSE Held) \in States
  BY DEF States
<1>2. "output" \in Threads
  BY DEF Threads
<1>3. pc' \in [Threads -> States]
  BY <1>1, <1>2, GotoType DEF Advance
<1>4. next' \in 1 .. MaxClients + 1
  BY <1>0 DEF Advance, Sending, Slots
<1> QED
  BY <1>3, <1>4

LEMMA DropType ==
  ASSUME TypeOK, Sending, client_fd[next] # NoFd, Drop
  PROVE  /\ sock' \in [Clients -> {"new", "queued", "open", "closed"}]
         /\ client_fd' \in [Slots -> Clients \cup {NoFd}]
         /\ client_count' \in Int
BY DEF TypeOK, Sending, Drop

\* Only the pc, the locals and the block flag move.
LEMMA LocalType ==
  ASSUME TypeOK, UNCHANGED <<table, conn, network>>,
         pc' \in [Threads -> States], slot' \in [Threads -> Slots],
         next' \in 1 .. MaxClients + 1, flag' \in Flags,
         do_exit' \in BOOLEAN
  PROVE  TypeOK'
BY DEF TypeOK, table, network

THEOREM TypeStep == TypeOK /\ [Next]_vars => TypeOK'
<1> SUFFICES ASSUME TypeOK, [Next]_vars PROVE TypeOK'
  OBVIOUS
<1>0. MaxClients \in Nat \ {0} /\ NoFd \notin Clients
  BY TcpAssumption DEF TcpParameters
<1>a. "demod" \in Threads /\ "output" \in Threads
  BY DEF Threads
<1>b. {"idle", "scan", "select", "accept", "store", "count", "handoff",
       "test", "lock", Held, "done"} \subseteq States
  BY DEF States
<1>c. \A t \in Threads : AfterAccept(t) \in States
  BY <1>b DEF AfterAccept
<1>d. /\ slot \in [Threads -> Slots] /\ next \in 1 .. MaxClients + 1
      /\ flag \in Flags /\ do_exit \in BOOLEAN
      /\ pc \in [Threads -> States]
  BY DEF TypeOK
<1>1. ASSUME NEW t \in Threads, AcceptClients(t) PROVE TypeOK'
  <2>1. CASE Scan(t)
    <3>1. pc' \in [Threads -> States]
      BY <1>1, <2>1, <1>b, <1>c, GotoType DEF Scan
    <3>2. slot' \in [Threads -> Slots]
      BY <1>1, <1>d, <2>1 DEF Scan
    <3> QED
      BY <1>d, <2>1, <3>1, <3>2, LocalType DEF Scan
  <2>2. CASE Select(t)
    <3>1. (IF backlog = <<>> THEN AfterAccept(t) ELSE "accept") \in States
      BY <1>1, <1>b, <1>c
    <3>2. pc' \in [Threads -> States]
      BY <1>1, <2>2, <3>1, GotoType DEF Select
    <3> QED
      BY <1>d, <2>2, <3>2, LocalType DEF Select, locals
  <2>3. CASE Accept(t)
    <3>1. pc' \in [Threads -> States]
      BY <1>1, <2>3, <1>b, GotoType DEF Accept
    <3>2. Head(backlog) \in Clients /\ backlog' \in Seq(Clients)
      BY <2>3 DEF Accept, TypeOK
    <3>3. /\ conn' \in [Threads -> Clients \cup {NoFd}]
          /\ sock' \in [Clients -> {"new", "queued", "open", "closed"}]
      BY <1>1, <2>3, <3>2 DEF Accept, TypeOK
    <3> QED
      BY <2>3, <3>1, <3>2, <3>3 DEF Accept, TypeOK, table
  <2>4. CASE Store(t)
    <3>1. pc' \in [Threads -> States]
      BY <1>1, <2>4, <1>b, GotoType DEF Store
    <3>2. /\ conn' \in [Threads -> Clients \cup {NoFd}]
          /\ client_fd' \in [Slots -> Clients \cup {NoFd}]
          /\ client_count' \in Int
      BY <1>1, <2>4 DEF Store, TypeOK
    <3> QED
      BY <2>4, <3>1, <3>2 DEF Store, TypeOK, network
  <2> QED
    BY <1>1, <2>1, <2>2, <2>3, <2>4 DEF AcceptClients
<1>2. CASE Chunk \/ CountClients \/ HandOver \/ DemodEnds
  <2>1. \E l \in States : Goto("demod", l)
    BY <1>2, <1>b DEF Chunk, CountClients, HandOver, DemodEnds
  <2>2. pc' \in [Threads -> States]
    BY <1>a, <2>1, GotoType
  <2>3. UNCHANGED <<table, locals, do_exit, network>>
    BY <1>2 DEF Chunk, CountClients, HandOver, DemodEnds
  <2>4. flag' \in Flags
    BY <1>2, <1>d DEF Chunk, CountClients, HandOver, DemodEnds, Flags
  <2> QED
    BY <1>d, <2>2, <2>3, <2>4, LocalType DEF locals
<1>3. CASE Broadcast \/ TestCount \/ Lock \/ OutputEnds
  <2>1. \E l \in States : Goto("output", l)
    BY <1>3, <1>b DEF Broadcast, TestCount, Lock, OutputEnds
  <2>2. pc' \in [Threads -> States]
    BY <1>a, <2>1, GotoType
  <2>3. UNCHANGED <<table, slot, conn, do_exit, network>>
    BY <1>3 DEF Broadcast, TestCount, Lock, OutputEnds, locals
  <2>4. flag' \in Flags
    BY <1>3, <1>d DEF Broadcast, TestCount, Lock, OutputEnds, Flags
  <2>5. next' = next \/ next' = 1
    BY <1>3 DEF Broadcast, TestCount, Lock, OutputEnds, locals
  <2>6. next' \in 1 .. MaxClients + 1
    BY <1>0, <1>d, <2>5
  <2> QED
    BY <1>d, <2>2, <2>3, <2>4, <2>6, LocalType
<1>4. CASE SkipEmpty \/ SendAll
  <2>1. pc' \in [Threads -> States] /\ next' \in 1 .. MaxClients + 1
    BY <1>4, AdvanceType DEF SkipEmpty, SendAll
  <2> QED
    BY <1>4, <1>d, <2>1, LocalType DEF SkipEmpty, SendAll
<1>5. CASE SendFails
  <2>1. pc' \in [Threads -> States] /\ next' \in 1 .. MaxClients + 1
    BY <1>5, AdvanceType DEF SendFails
  <2>2. /\ sock' \in [Clients -> {"new", "queued", "open", "closed"}]
        /\ client_fd' \in [Slots -> Clients \cup {NoFd}]
        /\ client_count' \in Int
    BY <1>5, DropType DEF SendFails
  <2> QED
    BY <1>5, <2>1, <2>2 DEF SendFails, TypeOK
<1>6. CASE Signal
  <2>1. CASE UNCHANGED <<table, pc, next, sock>>
    BY <1>6, <1>d, <2>1, LocalType DEF Signal, network
  <2>2. CASE \E t \in Threads :
               /\ pc[t] = "accept"
               /\ backlog = <<>>
               /\ Goto(t, AfterAccept(t))
               /\ UNCHANGED <<table, next, sock>>
    <3>1. pc' \in [Threads -> States]
      BY <1>c, <2>2, GotoType
    <3> QED
      BY <1>6, <1>d, <2>2, <3>1, LocalType DEF Signal, network
  <2>3. CASE /\ Sending
             /\ client_fd[next] # NoFd
             /\ peer[client_fd[next]] = "stalled"
             /\ Advance
             /\ Drop \/ UNCHANGED <<table, sock>>
    <3>1. pc' \in [Threads -> States] /\ next' \in 1 .. MaxClients + 1
      BY <2>3, AdvanceType
    <3>2. /\ sock' \in [Clients -> {"new", "queued", "open", "closed"}]
          /\ client_fd' \in [Slots -> Clients \cup {NoFd}]
          /\ client_count' \in Int
      BY <2>3, DropType DEF TypeOK, table
    <3> QED
      BY <1>6, <3>1, <3>2 DEF Signal, TypeOK
  <2> QED
    BY <1>6, <2>1, <2>2, <2>3 DEF Signal
<1>7. CASE Close
  <2>1. /\ client_fd' \in [Slots -> Clients \cup {NoFd}]
        /\ sock' \in [Clients -> {"new", "queued", "open", "closed"}]
        /\ backlog' \in Seq(Clients)
    BY <1>7 DEF Close, TypeOK
  <2>2. client_count' \in Int
    BY <1>7 DEF Close
  <2>3. listening' \in BOOLEAN
    BY <1>7, Zenon DEF Close
  <2>4. UNCHANGED <<pc, slot, conn, next, flag, do_exit, peer>>
    BY <1>7 DEF Close, locals
  <2> QED
    BY <2>1, <2>2, <2>3, <2>4 DEF TypeOK
<1>8. ASSUME NEW c \in Clients, Connect(c) \/ Stall(c) \/ Resume(c) \/ Leave(c)
      PROVE  TypeOK'
  <2>1. /\ backlog' \in Seq(Clients)
        /\ sock' \in [Clients -> {"new", "queued", "open", "closed"}]
        /\ peer' \in [Clients -> {"reading", "stalled", "gone"}]
    <3>1. CASE Connect(c)
      BY <3>1 DEF Connect, TypeOK
    <3>2. CASE Stall(c) \/ Resume(c) \/ Leave(c)
      BY <3>2 DEF Stall, Resume, Leave, TypeOK
    <3> QED
      BY <1>8, <3>1, <3>2
  <2>2. UNCHANGED <<table, pc, locals, flag, do_exit, listening>>
    BY <1>8 DEF Connect, Stall, Resume, Leave
  <2> QED
    BY <2>1, <2>2 DEF TypeOK, table, locals
<1>9. CASE UNCHANGED vars
  BY <1>d, <1>9, LocalType DEF vars, locals
<1> QED
  BY <1>1, <1>2, <1>3, <1>4, <1>5, <1>6, <1>7, <1>8, <1>9, <1>a
     DEF Next, DemodStep, OutputStep

-----------------------------------------------------------------------------
(* The invariant.                                                          *)

\* Steps that leave connections, table and hands alone.
LEMMA Quiet ==
  ASSUME IInv, TypeOK',
         UNCHANGED <<listening, client_fd, client_count, conn, backlog, sock>>,
         \A t \in Threads : pc'[t] = "store" <=> pc[t] = "store"
  PROVE  IInv'
<1>1. QueueSound' /\ SlotsSound'
  BY DEF IInv, QueueSound, SlotsSound
<1>2. HandSound'
  BY DEF IInv, HandSound
<1>3. Stored' = Stored
  BY DEF Stored, Open, InHand
<1> QED
  BY <1>1, <1>2, <1>3 DEF IInv

\* A thread that goes from one state to another, neither of them "store".
LEMMA QuietGoto ==
  ASSUME TypeOK, NEW t \in Threads, NEW l \in States \ {"store"}, Goto(t, l),
         pc[t] # "store"
  PROVE  \A u \in Threads : pc'[u] = "store" <=> pc[u] = "store"
BY DEF TypeOK, Goto

LEMMA AcceptStep ==
  ASSUME IInv, TypeOK', NEW t \in Threads, Accept(t)
  PROVE  IInv'
<1> DEFINE c == Head(backlog)
<1>0. NoFd \notin Clients
  BY TcpAssumption DEF TcpParameters
<1>1. /\ backlog \in Seq(Clients) /\ Len(backlog) > 0
      /\ c = backlog[1] /\ c \in Clients /\ sock[c] = "queued"
      /\ Len(backlog') = Len(backlog) - 1
      /\ \A i \in 1 .. Len(backlog') : backlog'[i] = backlog[i + 1]
  BY DEF Accept, IInv, TypeOK, QueueSound
<1>2. /\ sock' = [sock EXCEPT ![c] = "open"]
      /\ conn' = [conn EXCEPT ![t] = c]
      /\ pc' = [pc EXCEPT ![t] = "store"]
      /\ pc[t] = "accept"
      /\ UNCHANGED <<listening, client_fd, client_count>>
  BY DEF Accept, Goto, table
<1>3. /\ sock \in [Clients -> {"new", "queued", "open", "closed"}]
      /\ conn \in [Threads -> Clients \cup {NoFd}]
      /\ pc \in [Threads -> States]
      /\ client_fd \in [Slots -> Clients \cup {NoFd}]
  BY DEF IInv, TypeOK
<1>4. /\ \A u \in Threads : conn[u] # c
      /\ \A s \in Slots : client_fd[s] # c
  BY <1>0, <1>1 DEF IInv, HandSound, SlotsSound
<1>5. QueueSound'
  <2>1. \A i \in 1 .. Len(backlog') :
          i + 1 \in 1 .. Len(backlog) /\ backlog[i + 1] # c /\ backlog[i + 1] \in Clients
    BY <1>1 DEF IInv, QueueSound
  <2>2. \A i \in 1 .. Len(backlog') : sock'[backlog'[i]] = "queued"
    BY <1>1, <1>2, <1>3, <2>1 DEF IInv, QueueSound
  <2>3. \A i, j \in 1 .. Len(backlog') : backlog'[i] = backlog'[j] => i = j
    BY <1>1, <2>1 DEF IInv, QueueSound
  <2> QED
    BY <2>2, <2>3 DEF QueueSound
<1>6. HandSound'
  <2>1. \A u \in Threads : conn'[u] # NoFd <=> pc'[u] = "store"
    BY <1>0, <1>1, <1>2, <1>3 DEF IInv, HandSound
  <2>2. \A u \in Threads : conn'[u] # NoFd => sock'[conn'[u]] = "open"
    BY <1>1, <1>2, <1>3 DEF IInv, HandSound
  <2>3. conn'["demod"] = conn'["output"] => conn'["demod"] = NoFd
    BY <1>2, <1>3, <1>4 DEF IInv, HandSound, Threads
  <2> QED
    BY <2>1, <2>2, <2>3 DEF HandSound
<1>7. SlotsSound'
  <2>1. ASSUME NEW s \in Slots, client_fd'[s] # NoFd
        PROVE  /\ sock'[client_fd'[s]] = "open"
               /\ \A u \in Threads : conn'[u] # client_fd'[s]
    BY <1>2, <1>3, <1>4, <2>1 DEF IInv, SlotsSound
  <2> QED
    BY <1>2, <2>1 DEF IInv, SlotsSound
<1>8. Stored' = Stored
  <2>1. Open' = Open \cup {c}
    BY <1>1, <1>2, <1>3 DEF Open
  <2>2. conn[t] = NoFd
    BY <1>2 DEF IInv, HandSound
  <2>3. InHand' = InHand \cup {c}
    BY <1>0, <1>1, <1>2, <1>3, <2>2 DEF InHand
  <2>4. c \notin Open
    BY <1>1 DEF Open
  <2> QED
    BY <2>1, <2>3, <2>4 DEF Stored
<1> QED
  BY <1>2, <1>5, <1>6, <1>7, <1>8 DEF IInv

LEMMA StoreStep ==
  ASSUME IInv, TypeOK', NEW t \in Threads, Store(t)
  PROVE  IInv'
<1> DEFINE c == conn[t]
<1>0. NoFd \notin Clients
  BY TcpAssumption DEF TcpParameters
<1>1. /\ pc[t] = "store"
      /\ client_fd' = [client_fd EXCEPT ![slot[t]] = c]
      /\ client_count' = client_count + 1
      /\ conn' = [conn EXCEPT ![t] = NoFd]
      /\ pc' = [pc EXCEPT ![t] = "scan"]
      /\ UNCHANGED <<listening, backlog, sock>>
  BY DEF Store, Goto, network
<1>2. /\ conn \in [Threads -> Clients \cup {NoFd}]
      /\ pc \in [Threads -> States]
      /\ client_fd \in [Slots -> Clients \cup {NoFd}]
      /\ slot \in [Threads -> Slots]
      /\ client_count \in Int
  BY DEF IInv, TypeOK
<1>3. c \in Clients /\ c # NoFd /\ sock[c] = "open"
  BY <1>0, <1>1, <1>2 DEF IInv, HandSound
<1>4. \A u \in Threads \ {t} : conn[u] # c
  BY <1>3 DEF IInv, HandSound, Threads
<1>5. QueueSound'
  BY <1>1 DEF IInv, QueueSound
<1>6. HandSound'
  <2>1. \A u \in Threads : conn'[u] # NoFd <=> pc'[u] = "store"
    BY <1>1, <1>2 DEF IInv, HandSound
  <2>2. \A u \in Threads : conn'[u] # NoFd => sock'[conn'[u]] = "open"
    BY <1>1, <1>2 DEF IInv, HandSound
  <2>3. conn'["demod"] = conn'["output"] => conn'["demod"] = NoFd
    BY <1>1, <1>2 DEF IInv, HandSound, Threads
  <2> QED
    BY <2>1, <2>2, <2>3 DEF HandSound
<1>7. SlotsSound'
  <2>1. ASSUME NEW s \in Slots, client_fd'[s] # NoFd
        PROVE  /\ sock'[client_fd'[s]] = "open"
               /\ \A u \in Threads : conn'[u] # client_fd'[s]
    <3>1. CASE s = slot[t]
      BY <1>1, <1>2, <1>3, <1>4, <3>1
    <3>2. CASE s # slot[t]
      BY <1>1, <1>2, <2>1, <3>2 DEF IInv, SlotsSound
    <3> QED
      BY <3>1, <3>2
  <2>2. \A r \in Slots : client_fd[r] # c
    BY <1>3 DEF IInv, SlotsSound
  <2>3. ASSUME NEW r \in Slots, NEW s \in Slots,
               client_fd'[r] = client_fd'[s], client_fd'[r] # NoFd
        PROVE  r = s
    BY <1>1, <1>2, <2>2, <2>3 DEF IInv, SlotsSound
  <2> QED
    BY <2>1, <2>3 DEF SlotsSound
<1>8. Stored' = Stored \cup {c} /\ c \notin Stored
  <2>1. Open' = Open
    BY <1>1 DEF Open
  <2>2. InHand' = InHand \ {c} /\ c \in InHand
    BY <1>0, <1>1, <1>2, <1>3, <1>4 DEF InHand
  <2>3. c \in Open
    BY <1>3 DEF Open
  <2> QED
    BY <2>1, <2>2, <2>3 DEF Stored
<1>9. Cardinality(Stored') = Cardinality(Stored) + 1
  BY <1>8, Finite, FS_AddElement
<1> QED
  BY <1>1, <1>5, <1>6, <1>7, <1>9 DEF IInv

LEMMA DropStep ==
  ASSUME IInv, TypeOK', Sending, client_fd[next] # NoFd, Drop, Advance,
         UNCHANGED <<listening, conn, backlog>>
  PROVE  IInv'
<1> DEFINE c == client_fd[next]
<1>1. /\ sock' = [sock EXCEPT ![c] = "closed"]
      /\ client_fd' = [client_fd EXCEPT ![next] = NoFd]
      /\ client_count' = client_count - 1
      /\ next \in Slots
  BY DEF Drop, Sending
<1>2. /\ sock \in [Clients -> {"new", "queued", "open", "closed"}]
      /\ conn \in [Threads -> Clients \cup {NoFd}]
      /\ client_fd \in [Slots -> Clients \cup {NoFd}]
      /\ client_count \in Int
  BY DEF IInv, TypeOK
<1>3. /\ c \in Clients /\ sock[c] = "open"
      /\ \A u \in Threads : conn[u] # c
      /\ \A s \in Slots \ {next} : client_fd[s] # c
  BY <1>1, <1>2 DEF IInv, SlotsSound
<1>4. \A u \in Threads : pc'[u] = "store" <=> pc[u] = "store"
  <2>1. (IF next = MaxClients THEN "idle" ELSE Held) \in States \ {"store"}
    BY DEF States, Held
  <2>2. pc["output"] # "store" /\ "output" \in Threads
    BY DEF Sending, Held, Threads
  <2> QED
    BY <2>1, <2>2, QuietGoto DEF Advance, IInv
<1>5. QueueSound'
  BY <1>1, <1>2, <1>3 DEF IInv, QueueSound
<1>6. HandSound'
  <2>1. \A u \in Threads : conn[u] # NoFd => sock'[conn[u]] = "open"
    BY <1>1, <1>2, <1>3 DEF IInv, HandSound
  <2> QED
    BY <1>4, <2>1 DEF IInv, HandSound
<1>7. SlotsSound'
  <2>1. ASSUME NEW s \in Slots, client_fd'[s] # NoFd
        PROVE  /\ sock'[client_fd'[s]] = "open"
               /\ \A u \in Threads : conn'[u] # client_fd'[s]
    BY <1>1, <1>2, <1>3, <2>1 DEF IInv, SlotsSound
  <2>2. ASSUME NEW r \in Slots, NEW s \in Slots,
               client_fd'[r] = client_fd'[s], client_fd'[r] # NoFd
        PROVE  r = s
    BY <1>1, <1>2, <2>2 DEF IInv, SlotsSound
  <2> QED
    BY <2>1, <2>2 DEF SlotsSound
<1>8. Stored' = Stored \ {c} /\ c \in Stored
  <2>1. Open' = Open \ {c} /\ c \in Open
    BY <1>1, <1>2, <1>3 DEF Open
  <2>2. InHand' = InHand /\ c \notin InHand
    BY <1>3 DEF InHand
  <2> QED
    BY <2>1, <2>2 DEF Stored
<1>9. Cardinality(Stored') = Cardinality(Stored) - 1
  BY <1>8, Finite, FS_RemoveElement
<1> QED
  BY <1>1, <1>2, <1>5, <1>6, <1>7, <1>9 DEF IInv

LEMMA CloseStep ==
  ASSUME IInv, TypeOK', Close
  PROVE  IInv'
<1>1. /\ \A t \in Threads : pc[t] = "done"
      /\ ~listening'
      /\ \A s \in Slots : client_fd'[s] = NoFd
      /\ backlog' = <<>>
      /\ UNCHANGED <<pc, conn>>
  BY DEF Close, locals
<1>2. \A t \in Threads : conn[t] = NoFd
  BY <1>1 DEF IInv, HandSound
<1>3. QueueSound'
  BY <1>1 DEF QueueSound
<1>4. HandSound'
  BY <1>1, <1>2 DEF HandSound, Threads
<1>5. SlotsSound'
  BY <1>1 DEF SlotsSound
<1> QED
  BY <1>1, <1>3, <1>4, <1>5 DEF IInv

LEMMA ConnectStep ==
  ASSUME IInv, TypeOK', NEW c \in Clients, Connect(c)
  PROVE  IInv'
<1>1. /\ sock[c] = "new" /\ sock' = [sock EXCEPT ![c] = "queued"]
      /\ backlog' = Append(backlog, c)
      /\ UNCHANGED <<listening, client_fd, client_count, pc, conn>>
  BY DEF Connect, table, locals
<1>2. /\ sock \in [Clients -> {"new", "queued", "open", "closed"}]
      /\ conn \in [Threads -> Clients \cup {NoFd}]
      /\ client_fd \in [Slots -> Clients \cup {NoFd}]
      /\ backlog \in Seq(Clients)
  BY DEF IInv, TypeOK
<1>3. /\ Len(backlog') = Len(backlog) + 1
      /\ backlog'[Len(backlog) + 1] = c
      /\ \A i \in 1 .. Len(backlog) :
           backlog'[i] = backlog[i] /\ backlog[i] # c /\ backlog[i] \in Clients
  BY <1>1, <1>2 DEF IInv, QueueSound
<1>4. QueueSound'
  <2>1. \A i \in 1 .. Len(backlog') : sock'[backlog'[i]] = "queued"
    BY <1>1, <1>2, <1>3 DEF IInv, QueueSound
  <2>2. \A i, j \in 1 .. Len(backlog') : backlog'[i] = backlog'[j] => i = j
    BY <1>2, <1>3 DEF IInv, QueueSound
  <2> QED
    BY <2>1, <2>2 DEF QueueSound
<1>5. HandSound'
  <2>1. \A u \in Threads : conn[u] # NoFd => sock'[conn[u]] = "open"
    BY <1>1, <1>2 DEF IInv, HandSound
  <2> QED
    BY <1>1, <2>1 DEF IInv, HandSound
<1>6. SlotsSound'
  <2>1. \A s \in Slots : client_fd[s] # NoFd => sock'[client_fd[s]] = "open"
    BY <1>1, <1>2 DEF IInv, SlotsSound
  <2> QED
    BY <1>1, <2>1 DEF IInv, SlotsSound
<1>7. Stored' = Stored
  <2>1. Open' = Open /\ InHand' = InHand
    BY <1>1, <1>2 DEF Open, InHand
  <2> QED
    BY <2>1 DEF Stored
<1> QED
  BY <1>1, <1>4, <1>5, <1>6, <1>7 DEF IInv
-----------------------------------------------------------------------------
\* No step but those of the lemmas above moves a connection.
THEOREM IInvStep == IInv /\ [Next]_vars => IInv'
<1> SUFFICES ASSUME IInv, [Next]_vars PROVE IInv'
  OBVIOUS
<1>0. TypeOK /\ TypeOK'
  BY TypeStep DEF IInv
<1>a. "demod" \in Threads /\ "output" \in Threads
  BY DEF Threads
<1>b. {"idle", "scan", "select", "accept", "count", "handoff", "test", "lock",
       Held, "done"} \subseteq States \ {"store"}
  BY DEF States, Held
<1>c. \A t \in Threads : AfterAccept(t) \in States \ {"store"}
  BY <1>b DEF AfterAccept
<1>1. ASSUME NEW t \in Threads, AcceptClients(t) PROVE IInv'
  <2>1. CASE Scan(t)
    <3>1. PICK l \in States \ {"store"} : Goto(t, l)
      BY <1>1, <1>b, <1>c, <2>1 DEF Scan
    <3>2. pc[t] # "store"
      BY <2>1 DEF Scan
    <3>3. \A u \in Threads : pc'[u] = "store" <=> pc[u] = "store"
      BY <1>0, <1>1, <3>1, <3>2, QuietGoto
    <3> QED
      BY <1>0, <2>1, <3>3, Quiet DEF Scan, table, network
  <2>2. CASE Select(t)
    <3>1. PICK l \in States \ {"store"} : Goto(t, l)
      BY <1>1, <1>b, <1>c, <2>2 DEF Select
    <3>2. pc[t] # "store"
      BY <2>2 DEF Select
    <3>3. \A u \in Threads : pc'[u] = "store" <=> pc[u] = "store"
      BY <1>0, <1>1, <3>1, <3>2, QuietGoto
    <3> QED
      BY <1>0, <2>2, <3>3, Quiet DEF Select, table, locals, network
  <2> QED
    BY <1>0, <1>1, <2>1, <2>2, AcceptStep, StoreStep DEF AcceptClients
<1>2. CASE Chunk \/ CountClients \/ HandOver \/ DemodEnds
  <2>1. PICK l \in States \ {"store"} : Goto("demod", l)
    BY <1>2, <1>b DEF Chunk, CountClients, HandOver, DemodEnds
  <2>2. pc["demod"] # "store"
    BY <1>2 DEF Chunk, CountClients, HandOver, DemodEnds
  <2>3. \A u \in Threads : pc'[u] = "store" <=> pc[u] = "store"
    BY <1>0, <1>a, <2>1, <2>2, QuietGoto
  <2>4. UNCHANGED <<table, locals, network>>
    BY <1>2 DEF Chunk, CountClients, HandOver, DemodEnds
  <2> QED
    BY <1>0, <2>3, <2>4, Quiet DEF table, locals, network
<1>3. CASE Broadcast \/ TestCount \/ Lock \/ OutputEnds
  <2>1. PICK l \in States \ {"store"} : Goto("output", l)
    BY <1>3, <1>b DEF Broadcast, TestCount, Lock, OutputEnds
  <2>2. pc["output"] # "store"
    BY <1>3 DEF Broadcast, TestCount, Lock, OutputEnds
  <2>3. \A u \in Threads : pc'[u] = "store" <=> pc[u] = "store"
    BY <1>0, <1>a, <2>1, <2>2, QuietGoto
  <2>4. UNCHANGED <<table, conn, network>>
    BY <1>3 DEF Broadcast, TestCount, Lock, OutputEnds, locals
  <2> QED
    BY <1>0, <2>3, <2>4, Quiet DEF table, network
<1>4. ASSUME Sending, Advance, UNCHANGED <<table, conn, network>> PROVE IInv'
  <2>1. (IF next = MaxClients THEN "idle" ELSE Held) \in States \ {"store"}
    BY <1>b
  <2>2. pc["output"] # "store"
    BY <1>4 DEF Sending, Held
  <2>3. \A u \in Threads : pc'[u] = "store" <=> pc[u] = "store"
    BY <1>0, <1>4, <1>a, <2>1, <2>2, QuietGoto DEF Advance
  <2> QED
    BY <1>0, <1>4, <2>3, Quiet DEF table, network
<1>5. CASE SkipEmpty \/ SendAll
  BY <1>4, <1>5 DEF SkipEmpty, SendAll
<1>6. CASE SendFails
  BY <1>0, <1>6, DropStep DEF SendFails
<1>7. CASE Signal
  <2>0. UNCHANGED <<slot, conn, flag, listening, backlog, peer>>
    BY <1>7 DEF Signal
  <2>1. CASE UNCHANGED <<table, pc, next, sock>>
    BY <1>0, <2>0, <2>1, Quiet DEF table
  <2>2. CASE \E t \in Threads :
               /\ pc[t] = "accept"
               /\ backlog = <<>>
               /\ Goto(t, AfterAccept(t))
               /\ UNCHANGED <<table, next, sock>>
    <3>1. \A u \in Threads : pc'[u] = "store" <=> pc[u] = "store"
      BY <1>0, <1>c, <2>2, QuietGoto
    <3> QED
      BY <1>0, <2>0, <2>2, <3>1, Quiet DEF table
  <2>3. CASE /\ Sending
             /\ client_fd[next] # NoFd
             /\ peer[client_fd[next]] = "stalled"
             /\ Advance
             /\ Drop \/ UNCHANGED <<table, sock>>
    BY <1>0, <1>4, <2>0, <2>3, DropStep DEF network
  <2> QED
    BY <1>7, <2>1, <2>2, <2>3 DEF Signal
<1>8. CASE Close
  BY <1>0, <1>8, CloseStep
<1>9. ASSUME NEW c \in Clients, Connect(c) \/ Stall(c) \/ Resume(c) \/ Leave(c)
      PROVE  IInv'
  <2>1. CASE Connect(c)
    BY <1>0, <2>1, ConnectStep
  <2>2. CASE Stall(c) \/ Resume(c) \/ Leave(c)
    <3>1. UNCHANGED <<table, pc, locals, listening, backlog, sock>>
      BY <2>2 DEF Stall, Resume, Leave
    <3> QED
      BY <1>0, <3>1, Quiet DEF table, locals
  <2> QED
    BY <1>9, <2>1, <2>2
<1>10. CASE UNCHANGED vars
  BY <1>0, <1>10, Quiet DEF vars, table, locals, network
<1> QED
  BY <1>1, <1>2, <1>3, <1>5, <1>6, <1>7, <1>8, <1>9, <1>10, <1>a
     DEF Next, DemodStep, OutputStep

\* Every reachable state has an accounted table.
THEOREM Invariance == Spec => []IInv
<1> QED
  BY InitIInv, IInvStep, PTL DEF Spec

\* The variables keep their types: an accepted connection always goes to a
\* slot of the table, a broadcast never runs past its end
\* (output_tcp.c:84-95, 175-210).
THEOREM TypeCorrect == Spec => []TypeOK
<1>1. IInv => TypeOK
  BY DEF IInv
<1> QED
  BY <1>1, Invariance, PTL

\* For any number of clients and slots no descriptor of the table is closed,
\* shared by two slots or still in a thread's hand (output_tcp.c:110-128,
\* 176-209).
THEOREM TableIsSound == Spec => []TableSound
<1>1. IInv => TableSound
  BY SoundTable DEF IInv
<1> QED
  BY <1>1, Invariance, PTL

\* The counter is the number of connections in the table and of those that a
\* racing accept has stored over: it never falls below the table
\* (output_tcp.c:124-128, 187-192; thread_demod.c:79-83).
THEOREM CountIsAccounted == Spec => []CountAccounts
<1>1. IInv => CountAccounts
  BY CountOfStored DEF IInv, CountAccounts
<1> QED
  BY <1>1, Invariance, PTL

\* Whatever thread runs, a table held for a broadcast changes only in the slot
\* the broadcast has come to (output_tcp.c:173-212).
THEOREM BroadcastIsExclusive == Spec => BroadcastExclusive
<1>1. ASSUME TypeOK, [Next]_vars, Sending, Sending'
      PROVE  \A s \in Slots \ {next} : client_fd'[s] = client_fd[s]
  <2>1. \A t \in Threads : ~Store(t)
    BY <1>1 DEF Store, LockFree, Sending
  <2>2. CASE SendFails \/ Signal
    <3>1. UNCHANGED client_fd \/ client_fd' = [client_fd EXCEPT ![next] = NoFd]
      BY <2>2 DEF SendFails, Signal, Drop, table
    <3> QED
      BY <1>1, <3>1 DEF TypeOK
  <2>3. ~Close
    BY <1>1 DEF Close, Sending, Held, Threads
  <2>4. CASE ~(SendFails \/ Signal)
    <3>1. UNCHANGED client_fd
      <4>1. CASE \E t \in Threads : AcceptClients(t)
        BY <2>1, <4>1 DEF AcceptClients, Scan, Select, Accept, table
      <4>2. CASE Chunk \/ CountClients \/ HandOver \/ DemodEnds
        BY <4>2 DEF Chunk, CountClients, HandOver, DemodEnds, table
      <4>3. CASE Broadcast \/ TestCount \/ Lock \/ OutputEnds
        BY <4>3 DEF Broadcast, TestCount, Lock, OutputEnds, table
      <4>4. CASE SkipEmpty \/ SendAll
        BY <4>4 DEF SkipEmpty, SendAll, table
      <4>5. CASE \E c \in Clients : Connect(c) \/ Stall(c) \/ Resume(c) \/ Leave(c)
        BY <4>5 DEF Connect, Stall, Resume, Leave, table
      <4>6. CASE UNCHANGED vars
        BY <4>6 DEF vars, table
      <4> QED
        BY <1>1, <2>3, <2>4, <4>1, <4>2, <4>3, <4>4, <4>5, <4>6
           DEF Next, DemodStep, OutputStep, Threads
    <3> QED
      BY <3>1
  <2> QED
    BY <2>2, <2>4
<1>2. ASSUME TypeOK, [Next]_vars
      PROVE  [Sending /\ Sending' =>
               \A s \in Slots \ {next} : client_fd'[s] = client_fd[s]]_vars
  BY <1>1, <1>2
<1> QED
  BY <1>2, TypeCorrect, PTL DEF Spec, BroadcastExclusive

\* A lost connection, told by what the threads and the table hold.
Lost(c) == /\ sock[c] = "open"
           /\ \A s \in Slots : client_fd[s] # c
           /\ \A t \in Threads : conn[t] # c

LEMMA OrphansAreLost == Orphans = {c \in Clients : Lost(c)}
  BY DEF Orphans, Open, Table, InHand, Lost

\* Who may be lost in a step, and that nobody is found again.
StaysLost(c) ==
  /\ Lost(c) => Lost(c)'
  /\ ~Lost(c) /\ Lost(c)' =>
       \E t \in Threads : pc[t] = "store" /\ client_fd[slot[t]] = c

LEMMA LossStep ==
  ASSUME IInv, [Next]_vars, NEW c \in Clients
  PROVE  StaysLost(c)
<1>0. TypeOK /\ QueueSound /\ HandSound /\ SlotsSound /\ NoFd # c
  BY TcpAssumption DEF IInv, TcpParameters
<1>a. ASSUME UNCHANGED <<client_fd, conn, sock>> PROVE StaysLost(c)
  BY <1>a DEF StaysLost, Lost
<1>b. ASSUME Drop, UNCHANGED conn, Sending, client_fd[next] # NoFd PROVE StaysLost(c)
  <2>1. next \in Slots /\ client_fd[next] \in Clients
    BY <1>0, <1>b DEF Sending, TypeOK
  <2>2. /\ sock'[client_fd[next]] = "closed"
        /\ c # client_fd[next] => sock'[c] = sock[c]
    BY <1>0, <1>b, <2>1 DEF Drop, TypeOK
  <2>3. /\ client_fd'[next] = NoFd
        /\ \A s \in Slots : s # next => client_fd'[s] = client_fd[s]
    BY <1>0, <1>b, <2>1 DEF Drop, TypeOK
  <2>4. CASE c = client_fd[next]
    BY <2>1, <2>2, <2>4 DEF StaysLost, Lost
  <2>5. CASE c # client_fd[next]
    BY <1>0, <1>b, <2>1, <2>2, <2>3, <2>5 DEF StaysLost, Lost
  <2> QED
    BY <2>4, <2>5
<1>1. ASSUME NEW t \in Threads, Scan(t) \/ Select(t) PROVE StaysLost(c)
  BY <1>a, <1>1 DEF Scan, Select, table, locals, network
<1>2. ASSUME NEW t \in Threads, Accept(t) PROVE StaysLost(c)
  <2>1. /\ Head(backlog) \in Clients /\ sock[Head(backlog)] = "queued"
        /\ conn[t] = NoFd
    <3>1. backlog \in Seq(Clients) /\ backlog # <<>>
      BY <1>0, <1>2 DEF Accept, TypeOK
    <3>2. 1 \in 1 .. Len(backlog) /\ Head(backlog) = backlog[1] /\ backlog[1] \in Clients
      BY <3>1
    <3> QED
      BY <1>0, <1>2, <3>2 DEF Accept, QueueSound, HandSound
  <2>2. /\ conn'[t] = Head(backlog)
        /\ \A u \in Threads : u # t => conn'[u] = conn[u]
        /\ sock'[Head(backlog)] = "open"
        /\ c # Head(backlog) => sock'[c] = sock[c]
        /\ UNCHANGED client_fd
    BY <1>0, <1>2, <2>1 DEF Accept, TypeOK, table
  <2> QED
    BY <1>0, <2>1, <2>2 DEF StaysLost, Lost
<1>3. ASSUME NEW t \in Threads, Store(t) PROVE StaysLost(c)
  <2>1. /\ slot[t] \in Slots /\ pc[t] = "store"
        /\ client_fd'[slot[t]] = conn[t]
        /\ \A s \in Slots : s # slot[t] => client_fd'[s] = client_fd[s]
        /\ conn'[t] = NoFd
        /\ \A u \in Threads : u # t => conn'[u] = conn[u]
        /\ UNCHANGED sock
    BY <1>0, <1>3 DEF Store, TypeOK, network
  <2> QED
    BY <1>0, <2>1 DEF StaysLost, Lost
<1>4. CASE Chunk \/ CountClients \/ HandOver \/ DemodEnds
  BY <1>4, <1>a DEF Chunk, CountClients, HandOver, DemodEnds, table, locals, network
<1>5. CASE Broadcast \/ TestCount \/ Lock \/ OutputEnds
  BY <1>5, <1>a DEF Broadcast, TestCount, Lock, OutputEnds, table, locals, network
<1>6. CASE SkipEmpty \/ SendAll
  BY <1>6, <1>a DEF SkipEmpty, SendAll, table, network
<1>7. CASE SendFails
  BY <1>7, <1>b DEF SendFails
<1>8. CASE Signal
  BY <1>8, <1>a, <1>b DEF Signal, table
<1>9. CASE Close
  <2>1. sock'[c] = IF (\E s \in Slots : client_fd[s] = c) \/ sock[c] = "queued"
                   THEN "closed" ELSE sock[c]
    BY <1>9 DEF Close
  <2>2. UNCHANGED conn /\ client_fd' = [s \in Slots |-> NoFd]
    BY <1>9 DEF Close, locals
  <2>3. \A t \in Threads : conn[t] # c
    BY <1>0, <1>9 DEF Close, HandSound
  <2> QED
    BY <1>0, <2>1, <2>2, <2>3 DEF StaysLost, Lost
<1>10. ASSUME NEW d \in Clients, Connect(d) PROVE StaysLost(c)
  <2>1. /\ sock[d] = "new" /\ sock'[d] = "queued"
        /\ c # d => sock'[c] = sock[c]
        /\ UNCHANGED <<client_fd, conn>>
    BY <1>0, <1>10 DEF Connect, TypeOK, table, locals
  <2> QED
    BY <2>1 DEF StaysLost, Lost
<1>11. ASSUME NEW d \in Clients, Stall(d) \/ Resume(d) \/ Leave(d) PROVE StaysLost(c)
  BY <1>11, <1>a DEF Stall, Resume, Leave, table, locals
<1>12. CASE UNCHANGED vars
  BY <1>12, <1>a DEF vars, table, locals, network
<1>13. CASE DemodStep
  BY <1>1, <1>2, <1>3, <1>4, <1>13 DEF DemodStep, AcceptClients, Threads
<1>14. CASE OutputStep
  BY <1>1, <1>2, <1>3, <1>5, <1>6, <1>7, <1>14 DEF OutputStep, AcceptClients, Threads
<1> QED
  BY <1>8, <1>9, <1>10, <1>11, <1>12, <1>13, <1>14 DEF Next

\* A lost connection keeps the counter from ever being zero again.
LEMMA LostIsCounted ==
  ASSUME IInv, Orphans # {}, pc["demod"] = "count", listening PROVE client_count # 0
<1>1. client_count = Cardinality(Table) + Cardinality(Orphans)
  BY CountOfStored DEF IInv
<1>2. Cardinality(Table) \in Nat /\ Cardinality(Orphans) \in Nat
  BY Finite, FS_CardinalityType
<1>3. Cardinality(Orphans) # 0
  BY Finite, FS_EmptySet
<1> QED
  BY <1>1, <1>2, <1>3

\* The socket is closed after the threads, and a thread goes to accept because
\* a connection is there for it.
Attended ==
  /\ ~listening => \A t \in Threads : pc[t] = "done"
  /\ OneAcceptWaits

LEMMA AttendedStep ==
  ASSUME IInv, Attended, [Next]_vars
  PROVE  Attended'
<1>0. /\ pc \in [Threads -> States] /\ backlog \in Seq(Clients)
      /\ "demod" \in Threads /\ "output" \in Threads
      /\ \A t \in Threads : t = "demod" \/ t = "output"
  BY DEF IInv, TypeOK, Threads
<1> USE <1>0 DEF Attended, OneAcceptWaits
<1>a. ASSUME NEW t \in Threads, NEW l \in States, Goto(t, l), pc[t] # "done",
             l # "accept" \/ backlog # <<>>, UNCHANGED <<listening, backlog>>
      PROVE  Attended'
  BY <1>a DEF Goto
<1>b. /\ {"idle", "scan", "select", "accept", "store", "count", "handoff", "test",
            "lock", Held, "done"} \subseteq States
      /\ \A t \in Threads : AfterAccept(t) \in States \ {"accept"}
  BY DEF States, Held, AfterAccept
<1>1. ASSUME NEW t \in Threads, Scan(t) \/ Select(t) \/ Store(t) PROVE Attended'
  <2>1. PICK l \in States : Goto(t, l) /\ (l # "accept" \/ backlog # <<>>)
    BY <1>1, <1>b DEF Scan, Select, Store
  <2> QED
    BY <1>1, <1>a, <2>1 DEF Scan, Select, Store, network
<1>2. ASSUME NEW t \in Threads, Accept(t) PROVE Attended'
  BY <1>2 DEF Accept, Goto
<1>3. CASE Chunk \/ CountClients \/ HandOver
  <2>1. PICK l \in States \ {"accept"} : Goto("demod", l)
    BY <1>3, <1>b DEF Chunk, CountClients, HandOver
  <2> QED
    BY <1>3, <1>a, <2>1 DEF Chunk, CountClients, HandOver, network
<1>4. CASE Broadcast \/ TestCount \/ Lock
  <2>1. PICK l \in States \ {"accept"} : Goto("output", l)
    BY <1>4, <1>b DEF Broadcast, TestCount, Lock, Held
  <2> QED
    BY <1>4, <1>a, <2>1 DEF Broadcast, TestCount, Lock, network
<1>5. CASE DemodEnds \/ OutputEnds
  <2>1. PICK t \in Threads : Goto(t, "done")
    BY <1>5 DEF DemodEnds, OutputEnds
  <2> QED
    BY <1>5, <2>1 DEF DemodEnds, OutputEnds, network, Goto
<1>6. ASSUME Sending, Advance, UNCHANGED <<listening, backlog>> PROVE Attended'
  <2>1. (IF next = MaxClients THEN "idle" ELSE Held) \in States \ {"accept"}
    BY <1>b DEF Held
  <2>2. Goto("output", IF next = MaxClients THEN "idle" ELSE Held)
    BY <1>6 DEF Advance
  <2>3. pc["output"] # "done"
    BY <1>6 DEF Sending, Held
  <2> QED
    BY <1>0, <1>6, <1>a, <2>1, <2>2, <2>3
<1>7. CASE SkipEmpty \/ SendAll \/ SendFails
  BY <1>6, <1>7 DEF SkipEmpty, SendAll, SendFails, network
<1>8. CASE Signal
  <2>1. UNCHANGED <<listening, backlog>>
    BY <1>8 DEF Signal
  <2>2. CASE \E t \in Threads : pc[t] = "accept" /\ Goto(t, AfterAccept(t))
    BY <1>a, <1>b, <2>1, <2>2
  <2>3. CASE UNCHANGED pc
    BY <2>1, <2>3
  <2>4. CASE Sending /\ Advance
    BY <1>6, <2>1, <2>4
  <2> QED
    BY <1>8, <2>2, <2>3, <2>4 DEF Signal
<1>9. CASE Close
  BY <1>9 DEF Close
<1>10. ASSUME NEW d \in Clients, Connect(d) PROVE Attended'
  BY <1>10 DEF Connect
<1>11. ASSUME NEW d \in Clients, Stall(d) \/ Resume(d) \/ Leave(d) PROVE Attended'
  BY <1>11 DEF Stall, Resume, Leave
<1>12. CASE UNCHANGED vars
  BY <1>12 DEF vars, network
<1> QED
  BY <1>1, <1>2, <1>3, <1>4, <1>5, <1>7, <1>8, <1>9, <1>10, <1>11, <1>12
     DEF Next, DemodStep, OutputStep, AcceptClients

LEMMA InitAttended == Init => Attended
<1> SUFFICES ASSUME Init PROVE Attended
  OBVIOUS
<1> QED
  BY DEF Init, Attended, OneAcceptWaits, Threads

\* At most one thread waits in an accept that select had promised
\* (output_tcp.c:103-111): the second finding of this server is no deadlock of
\* the two in it.
THEOREM OneWaitsInAccept == Spec => []OneAcceptWaits
<1>1. Attended => OneAcceptWaits
  BY DEF Attended
<1>2. IInv /\ Attended /\ [Next]_vars => Attended'
  BY AttendedStep
<1> QED
  BY Invariance, InitAttended, <1>1, <1>2, PTL DEF Spec

\* A demod that has come to look at the counter goes on as it says.
LEMMA OnlyCounts ==
  ASSUME TypeOK, [Next]_vars, pc["demod"] = "count", pc'["demod"] # "count"
  PROVE  CountClients
<1>0. pc \in [Threads -> States] /\ "demod" \in Threads /\ "output" \in Threads
  BY DEF TypeOK, Threads
<1>1. ASSUME NEW l, Goto("output", l) PROVE FALSE
  BY <1>0, <1>1 DEF Goto
<1>2. ~AcceptClients("demod") /\ ~Chunk /\ ~HandOver /\ ~DemodEnds /\ ~Close
  BY <1>0 DEF AcceptClients, Scan, Select, Accept, Store, Chunk, HandOver, DemodEnds, Close
<1>3. ~AcceptClients("output")
  BY <1>1 DEF AcceptClients, Scan, Select, Accept, Store
<1>4. ~Broadcast /\ ~TestCount /\ ~Lock /\ ~OutputEnds
  BY <1>1 DEF Broadcast, TestCount, Lock, OutputEnds
<1>5. ~SkipEmpty /\ ~SendAll /\ ~SendFails
  BY <1>1 DEF SkipEmpty, SendAll, SendFails, Advance
<1>6. ~Signal
  <2>1. ASSUME NEW t \in Threads, pc[t] = "accept", Goto(t, AfterAccept(t)) PROVE FALSE
    BY <1>1, <2>1 DEF Threads
  <2> QED
    BY <1>1, <2>1 DEF Signal, Advance
<1>7. \A c \in Clients : ~(Connect(c) \/ Stall(c) \/ Resume(c) \/ Leave(c))
  BY DEF Connect, Stall, Resume, Leave
<1>8. ~UNCHANGED vars
  BY DEF vars
<1> QED
  BY <1>2, <1>3, <1>4, <1>5, <1>6, <1>7, <1>8 DEF Next, DemodStep, OutputStep

\* A connection that one racing store has put in the place of another's stays
\* open and counted to the end of the process (output_tcp.c:124-128, 214-228).
THEOREM LossPersists == Spec => LossIsPermanent
<1> DEFINE Costs == /\ Orphans \subseteq Orphans'
                    /\ \A c \in Orphans' \ Orphans :
                         \E t \in Threads : pc[t] = "store" /\ client_fd[slot[t]] = c
                    /\ Orphans # {} /\ pc["demod"] = "count" =>
                         pc'["demod"] \in {"count", "handoff"}
<1>1. ASSUME IInv, Attended, [Next]_vars PROVE Costs
  <2>1. \A c \in Clients : StaysLost(c)
    BY <1>1, LossStep
  <2>2. Orphans = {c \in Clients : Lost(c)} /\ Orphans' = {c \in Clients : Lost(c)'}
    BY OrphansAreLost DEF Orphans, Open, Table, InHand, Lost
  <2>3. /\ Orphans \subseteq Orphans'
        /\ \A c \in Orphans' \ Orphans :
             \E t \in Threads : pc[t] = "store" /\ client_fd[slot[t]] = c
    BY <2>1, <2>2 DEF StaysLost
  <2>4. ASSUME Orphans # {}, pc["demod"] = "count", pc'["demod"] # "count"
        PROVE  pc'["demod"] = "handoff"
    <3>1. listening
      BY <1>1, <2>4 DEF Attended, Threads
    <3>2. CountClients
      BY <1>1, <2>4, OnlyCounts DEF IInv
    <3>3. client_count # 0
      BY <1>1, <2>4, <3>1, LostIsCounted
    <3> QED
      BY <1>1, <3>2, <3>3 DEF CountClients, Goto, IInv, TypeOK, Threads
  <2> QED
    BY <2>3, <2>4
<1>2. IInv /\ Attended /\ [Next]_vars => Attended' /\ IInv'
  BY AttendedStep, IInvStep
<1>3. IInv /\ Attended /\ [Next]_vars => [Costs]_vars
  BY <1>1
<1> HIDE DEF Costs
<1>4. Spec => [][Costs]_vars
  BY Invariance, InitAttended, <1>2, <1>3, PTL DEF Spec
<1> QED
  BY <1>4 DEF Costs, LossIsPermanent
=============================================================================
