---------------------------- MODULE RdmaEchoProofs ----------------------------
(***************************************************************************)
(* The RDMA echo.  First the handshake: whatever the two programs do, and  *)
(* whichever of them fails, neither sends a message to a queue pair that   *)
(* is not up.  sock_read does not look at what it reads, so the argument   *)
(* is about which of the two writes of the peer a read can meet.  Then the *)
(* messages and the buffers they are in, for queues of any length and any  *)
(* number of messages echoed.  Last, why the echo comes to its end: whose  *)
(* turn it is, that somebody can always go on, and that every step uses up *)
(* some of the work there is.                                              *)
(***************************************************************************)
EXTENDS RdmaEcho, SequenceTheorems, FunctionTheorems, FiniteSetTheorems, TLAPS

HandshakeSteps ==
  {"bind", "accept", "connect", "get", "set", "modify", "readSync", "writeSync",
   "done", "failed"} \cup Workload

\* The steps of p before it has written its information ...
Silent(p) == IF p = "server" THEN {"bind", "accept", "get", "set"} ELSE {"connect", "set"}
\* ... since it has read that of the other ...
Informed(p) ==
  (IF p = "server" THEN {"set"} ELSE {}) \cup
  {"modify", "readSync", "writeSync", "done"} \cup Workload
\* ... since its queue pair is up ...
Up == {"readSync", "writeSync", "done"} \cup Workload
\* ... and since it has read the synchronisation of the other.
Synced(p) == (IF p = "server" THEN {"writeSync"} ELSE {}) \cup {"done"} \cup Workload

HandshakeType ==
  /\ peer \in [Peers -> HandshakeSteps]
  /\ qp \in [Peers -> {"INIT", "RTS"}]
  /\ sock \in [Peers -> Seq({"info", "sync"})]

OnlySyncs(s) == \A i \in DOMAIN s : s[i] = "sync"

\* Information is written first and read first; a synchronisation is written
\* by a program whose queue pair is up.
HandshakeOf(p) ==
  /\ peer[p] \in Up => qp[p] = "RTS"
  /\ peer[p] \in Silent(p) => sock[p] = << >>
  /\ \A i \in DOMAIN sock[p] : sock[p][i] = "sync" => qp[p] = "RTS"
  /\ \A i \in DOMAIN sock[p] : i > 1 => sock[p][i] = "sync"
  /\ peer[p] \in Informed(p) =>
       peer[Other(p)] \notin Silent(Other(p)) /\ OnlySyncs(sock[Other(p)])
  /\ peer[p] \in Synced(p) => qp[Other(p)] = "RTS"

HandshakeInv == HandshakeType /\ \A p \in Peers : HandshakeOf(p)

-----------------------------------------------------------------------------

LEMMA OtherPeer ==
  /\ \A p \in Peers : Other(p) \in Peers /\ Other(p) # p /\ Other(Other(p)) = p
  /\ \A p, q \in Peers : q = p \/ q = Other(p)
  BY DEF Peers, Other

LEMMA HandshakeInit == EchoInit => HandshakeInv
  <1> SUFFICES ASSUME EchoInit PROVE HandshakeInv
    OBVIOUS
  <1>1. HandshakeType
    BY DEF EchoInit, HandshakeType, HandshakeSteps, Peers
  <1>2. ASSUME NEW p \in Peers PROVE HandshakeOf(p)
    BY <1>2 DEF EchoInit, HandshakeOf, Peers, Up, Silent, Informed, Synced, Workload, OnlySyncs
  <1>3. QED
    BY <1>1, <1>2 DEF HandshakeInv

\* A program that only moves on, within its workload or to its end.
LEMMA MovesOn ==
  ASSUME HandshakeInv, NEW p \in Peers, NEW step,
         \/ step = "failed"
         \/ peer[p] \in Workload /\ step \in Workload \cup {"done"}
         \/ p = "server" /\ peer[p] = "bind" /\ step = "accept"
         \/ p = "server" /\ peer[p] = "accept" /\ step = "get"
         \/ p = "client" /\ peer[p] = "connect" /\ step = "set",
         Goto(p, step), UNCHANGED <<qp, sock>>
  PROVE  HandshakeInv'
  <1>1. HandshakeType'
    BY DEF HandshakeInv, HandshakeType, HandshakeSteps, Goto, Workload
  <1>2. peer'[p] = step /\ \A q \in Peers : q # p => peer'[q] = peer[q]
    BY DEF HandshakeInv, HandshakeType, Goto
  <1>3. HandshakeOf(p)'
    BY <1>2, OtherPeer
       DEF HandshakeInv, HandshakeOf, Up, Silent, Informed, Synced, Workload, OnlySyncs
  <1>4. HandshakeOf(Other(p))'
    BY <1>2, OtherPeer
       DEF HandshakeInv, HandshakeOf, Up, Silent, Informed, Synced, Workload, OnlySyncs
  <1>5. QED
    BY <1>1, <1>3, <1>4, OtherPeer DEF HandshakeInv

LEMMA NothingMoves == HandshakeInv /\ UNCHANGED <<peer, qp, sock>> => HandshakeInv'
  BY DEF HandshakeInv, HandshakeType, HandshakeOf, OnlySyncs

\* Reading either the information or the synchronisation of the other.
LEMMA ReadStep ==
  ASSUME HandshakeInv, NEW p \in Peers, NEW step, NEW next,
         \/ p = "server" /\ step = "get" /\ next = "set"
         \/ p = "client" /\ step = "get" /\ next = "modify"
         \/ p = "server" /\ step = "readSync" /\ next = "writeSync"
         \/ p = "client" /\ step = "readSync" /\ next = "start",
         SockRead(p, step, next)
  PROVE  HandshakeInv'
  <1> DEFINE o == Other(p)
  <1>1. peer[p] = step /\ UNCHANGED qp
    BY DEF SockRead
  <1>2. CASE sock[o] = << >> /\ UNCHANGED sock /\ Goto(p, "failed")
    BY <1>1, <1>2, MovesOn
  <1>3. CASE /\ sock[o] # << >>
             /\ sock' = [sock EXCEPT ![o] = Tail(@)]
             /\ Goto(p, next)
    <2>1. sock[o] \in Seq({"info", "sync"}) /\ o \in Peers /\ o # p
      BY OtherPeer DEF HandshakeInv, HandshakeType
    <2>2. /\ Tail(sock[o]) \in Seq({"info", "sync"})
          /\ DOMAIN Tail(sock[o]) = 1 .. Len(sock[o]) - 1
          /\ \A i \in DOMAIN Tail(sock[o]) :
               i + 1 \in DOMAIN sock[o] /\ i + 1 > 1 /\ Tail(sock[o])[i] = sock[o][i + 1]
          /\ 1 \in DOMAIN sock[o]
      BY <1>3, <2>1, HeadTailProperties, LenProperties
    <2>3. /\ sock'[o] = Tail(sock[o]) /\ sock'[p] = sock[p]
          /\ peer'[p] = next /\ peer'[o] = peer[o]
      BY <1>3, <2>1 DEF HandshakeInv, HandshakeType, Goto
    <2>4. OnlySyncs(sock'[o])
      BY <2>1, <2>2, <2>3 DEF HandshakeInv, HandshakeOf, OnlySyncs
    <2>5. HandshakeType'
      BY <1>1, <1>3, <2>1, <2>2
         DEF HandshakeInv, HandshakeType, HandshakeSteps, Goto, Workload
    <2>6. peer[o] \notin Silent(o)
      BY <1>3, <2>1 DEF HandshakeInv, HandshakeOf
    <2>7. step = "readSync" => qp[o] = "RTS"
      <3> SUFFICES ASSUME step = "readSync" PROVE qp[o] = "RTS"
        OBVIOUS
      <3>1. OnlySyncs(sock[o])
        BY <1>1 DEF HandshakeInv, HandshakeOf, Informed
      <3>2. sock[o][1] = "sync"
        BY <2>2, <3>1 DEF OnlySyncs
      <3>3. QED
        BY <2>1, <2>2, <3>2 DEF HandshakeInv, HandshakeOf
    <2>8. HandshakeOf(p)'
      <3>1. HandshakeOf(p)
        BY DEF HandshakeInv
      <3>2. step = "readSync" => qp[p] = "RTS"
        BY <1>1, <3>1 DEF HandshakeOf, Up
      <3>3. QED
        BY <1>1, <2>3, <2>4, <2>6, <2>7, <3>1, <3>2
           DEF HandshakeOf, Up, Silent, Informed, Synced, Workload
    <2>9. HandshakeOf(o)'
      <3>1. HandshakeOf(o) /\ Other(o) = p
        BY <2>1, OtherPeer DEF HandshakeInv
      <3>2. \A i \in DOMAIN sock'[o] : sock'[o][i] = "sync" => qp[o] = "RTS"
        BY <2>2, <2>3, <3>1 DEF HandshakeOf
      <3>3. peer'[p] \in Silent(p) => peer[p] \in Silent(p)
        BY <1>1, <2>3 DEF Silent, Workload
      <3>4. QED
        BY <1>1, <2>3, <2>4, <2>6, <3>1, <3>2, <3>3
           DEF HandshakeOf, Up, Synced, OnlySyncs
    <2>10. QED
      BY <2>5, <2>8, <2>9, OtherPeer DEF HandshakeInv
  <1>4. QED
    BY <1>2, <1>3 DEF SockRead

\* Writing the information, or the synchronisation.
LEMMA WriteStep ==
  ASSUME HandshakeInv, NEW p \in Peers, NEW step, NEW message, NEW next,
         \/ p = "server" /\ step = "set" /\ message = "info" /\ next = "modify"
         \/ p = "client" /\ step = "set" /\ message = "info" /\ next = "get"
         \/ p = "server" /\ step = "writeSync" /\ message = "sync" /\ next = "start"
         \/ p = "client" /\ step = "writeSync" /\ message = "sync" /\ next = "readSync",
         SockWrite(p, step, message, next)
  PROVE  HandshakeInv'
  <1> DEFINE o == Other(p)
  <1>1. peer[p] = step /\ UNCHANGED qp
    BY DEF SockWrite
  <1>2. CASE UNCHANGED sock /\ Goto(p, "failed")
    BY <1>1, <1>2, MovesOn
  <1>3. CASE sock' = [sock EXCEPT ![p] = Append(@, message)] /\ Goto(p, next)
    <2>1. /\ sock[p] \in Seq({"info", "sync"}) /\ o \in Peers /\ o # p
          /\ message \in {"info", "sync"}
          /\ HandshakeOf(p) /\ HandshakeOf(o) /\ Other(o) = p
      BY OtherPeer DEF HandshakeInv, HandshakeType
    <2>2. /\ Append(sock[p], message) \in Seq({"info", "sync"})
          /\ DOMAIN Append(sock[p], message) = 1 .. Len(sock[p]) + 1
          /\ \A i \in DOMAIN sock[p] : Append(sock[p], message)[i] = sock[p][i]
          /\ Append(sock[p], message)[Len(sock[p]) + 1] = message
          /\ DOMAIN sock[p] = 1 .. Len(sock[p]) /\ Len(sock[p]) \in Nat
      BY <2>1, AppendProperties, LenProperties
    <2>3. /\ sock'[p] = Append(sock[p], message) /\ sock'[o] = sock[o]
          /\ peer'[p] = next /\ peer'[o] = peer[o]
      BY <1>3, <2>1 DEF HandshakeInv, HandshakeType, Goto
    <2>4. HandshakeType'
      BY <1>1, <1>3, <2>1, <2>2
         DEF HandshakeInv, HandshakeType, HandshakeSteps, Goto, Workload
    <2>5. message = "info" => Len(sock[p]) = 0
      BY <1>1, <2>1 DEF HandshakeOf, Silent
    <2>6. message = "sync" => qp[p] = "RTS"
      BY <1>1, <2>1 DEF HandshakeOf, Up
    <2>7. \A i \in DOMAIN sock'[p] : sock'[p][i] = "sync" => qp[p] = "RTS"
      BY <2>1, <2>2, <2>3, <2>6 DEF HandshakeOf
    <2>8. \A i \in DOMAIN sock'[p] : i > 1 => sock'[p][i] = "sync"
      BY <2>1, <2>2, <2>3, <2>5 DEF HandshakeOf
    <2>9. peer[o] \in Informed(o) => OnlySyncs(sock'[p]) /\ message = "sync"
      <3> SUFFICES ASSUME peer[o] \in Informed(o)
                   PROVE  OnlySyncs(sock'[p]) /\ message = "sync"
        OBVIOUS
      <3>1. peer[p] \notin Silent(p) /\ OnlySyncs(sock[p])
        BY <2>1 DEF HandshakeOf
      <3>2. message = "sync"
        BY <1>1, <3>1 DEF Silent
      <3>3. QED
        BY <2>2, <2>3, <3>1, <3>2 DEF OnlySyncs
    <2>10. HandshakeOf(p)'
      <3>1. step = "writeSync" /\ p = "server" => qp[o] = "RTS"
        BY <1>1, <2>1 DEF HandshakeOf, Synced
      <3>2. peer'[p] \in Informed(p) => peer[p] \in Informed(p)
        BY <1>1, <2>3 DEF Informed, Workload
      <3>3. peer'[p] \in Up => qp[p] = "RTS"
        BY <2>3, <2>6 DEF Up, Workload
      <3>4. peer'[p] \notin Silent(p)
        BY <2>3 DEF Silent
      <3>5. peer'[p] \in Synced(p) => qp[o] = "RTS"
        BY <2>3, <3>1 DEF Synced, Workload
      <3>6. QED
        BY <1>1, <2>1, <2>3, <2>7, <2>8, <3>2, <3>3, <3>4, <3>5 DEF HandshakeOf
    <2>11. HandshakeOf(o)'
      <3>1. peer'[p] \notin Silent(p)
        BY <2>3 DEF Silent
      <3>2. QED
        BY <1>1, <2>1, <2>3, <2>9, <3>1 DEF HandshakeOf
    <2>12. QED
      BY <2>4, <2>10, <2>11, OtherPeer DEF HandshakeInv
  <1>4. QED
    BY <1>2, <1>3 DEF SockWrite

LEMMA ModifyStep ==
  ASSUME HandshakeInv, NEW p \in Peers, NEW next,
         \/ p = "server" /\ next = "readSync"
         \/ p = "client" /\ next = "writeSync",
         modify_qp_to_rts(p, next)
  PROVE  HandshakeInv'
  <1> DEFINE o == Other(p)
  <1>1. peer[p] = "modify" /\ UNCHANGED sock
    BY DEF modify_qp_to_rts
  <1>2. CASE UNCHANGED qp /\ Goto(p, "failed")
    BY <1>1, <1>2, MovesOn
  <1>3. CASE qp' = [qp EXCEPT ![p] = "RTS"] /\ Goto(p, next)
    <2>1. HandshakeOf(p) /\ HandshakeOf(o) /\ Other(o) = p /\ o \in Peers /\ o # p
      BY OtherPeer DEF HandshakeInv
    <2>2. qp'[p] = "RTS" /\ qp'[o] = qp[o] /\ peer'[p] = next /\ peer'[o] = peer[o]
      BY <1>3, <2>1 DEF HandshakeInv, HandshakeType, Goto
    <2>3. HandshakeType'
      BY <1>1, <1>3 DEF HandshakeInv, HandshakeType, HandshakeSteps, Goto
    <2>4. HandshakeOf(p)'
      BY <1>1, <2>1, <2>2
         DEF HandshakeOf, Up, Silent, Informed, Synced, Workload, OnlySyncs
    <2>5. HandshakeOf(o)'
      BY <1>1, <2>1, <2>2 DEF HandshakeOf, Silent, OnlySyncs
    <2>6. QED
      BY <2>3, <2>4, <2>5, OtherPeer DEF HandshakeInv
  <1>4. QED
    BY <1>2, <1>3 DEF modify_qp_to_rts

-----------------------------------------------------------------------------

LEMMA ServerHandshake == HandshakeInv /\ connect_qp_server => HandshakeInv'
  <1> SUFFICES ASSUME HandshakeInv, connect_qp_server PROVE HandshakeInv'
    OBVIOUS
  <1> USE DEF Peers
  <1>1. CASE Bind
    BY <1>1, MovesOn DEF Bind
  <1>2. CASE Accept
    BY <1>2, MovesOn DEF Accept
  <1>3. CASE SockRead("server", "get", "set")
    BY <1>3, ReadStep
  <1>4. CASE SockWrite("server", "set", "info", "modify")
    BY <1>4, WriteStep
  <1>5. CASE modify_qp_to_rts("server", "readSync")
    BY <1>5, ModifyStep
  <1>6. CASE SockRead("server", "readSync", "writeSync")
    BY <1>6, ReadStep
  <1>7. CASE SockWrite("server", "writeSync", "sync", "start")
    BY <1>7, WriteStep
  <1>8. QED
    BY <1>1, <1>2, <1>3, <1>4, <1>5, <1>6, <1>7 DEF connect_qp_server

LEMMA ClientHandshake == HandshakeInv /\ connect_qp_client => HandshakeInv'
  <1> SUFFICES ASSUME HandshakeInv, connect_qp_client PROVE HandshakeInv'
    OBVIOUS
  <1> USE DEF Peers
  <1>1. CASE Connect
    BY <1>1, MovesOn DEF Connect
  <1>2. CASE SockWrite("client", "set", "info", "get")
    BY <1>2, WriteStep
  <1>3. CASE SockRead("client", "get", "modify")
    BY <1>3, ReadStep
  <1>4. CASE modify_qp_to_rts("client", "writeSync")
    BY <1>4, ModifyStep
  <1>5. CASE SockWrite("client", "writeSync", "sync", "readSync")
    BY <1>5, WriteStep
  <1>6. CASE SockRead("client", "readSync", "start")
    BY <1>6, ReadStep
  <1>7. QED
    BY <1>1, <1>2, <1>3, <1>4, <1>5, <1>6 DEF connect_qp_client

\* What either workload does to the programs: nothing, or a move within it.
LEMMA WorkloadSteps ==
  HandshakeInv /\ (server_thread \/ client_thread_func) => HandshakeInv'
  <1> SUFFICES ASSUME HandshakeInv, server_thread \/ client_thread_func PROVE HandshakeInv'
    OBVIOUS
  <1>1. ASSUME NEW p \in Peers, PollCq(p) PROVE HandshakeInv'
    BY <1>1, NothingMoves DEF PollCq
  <1>2. ASSUME NEW p \in Peers, ThreadFails(p) PROVE HandshakeInv'
    BY <1>2, MovesOn DEF ThreadFails
  <1>3. ASSUME NEW p \in Peers, SendCompleted(p) PROVE HandshakeInv'
    <2>1. CASE UNCHANGED peer
      BY <1>3, <2>1, NothingMoves DEF SendCompleted
    <2>2. CASE peer[p] = "stop" /\ Goto(p, "done")
      BY <1>3, <2>2, MovesOn DEF SendCompleted, Workload
    <2>3. QED
      BY <1>3, <2>1, <2>2 DEF SendCompleted, LeaveLoop
  <1>4. ASSUME NEW p \in Peers, SendFailed(p) PROVE HandshakeInv'
    BY <1>4, MovesOn DEF SendFailed, LeaveLoop
  <1>5. CASE StartServer
    BY <1>5, MovesOn DEF StartServer, Workload, Peers
  <1>6. CASE StartClient
    BY <1>6, MovesOn DEF StartClient, Workload, Peers
  <1>7. CASE StartSignalled
    <2>1. CASE UNCHANGED peer
      BY <1>7, <2>1, NothingMoves DEF StartSignalled
    <2>2. CASE Goto("client", "send")
      BY <1>7, <2>2, MovesOn DEF StartSignalled, NextWc, Workload, Peers
    <2>3. QED
      BY <1>7, <2>1, <2>2 DEF StartSignalled, LeaveLoop
  <1>8. CASE SendFirst
    BY <1>8, MovesOn DEF SendFirst, Workload, Peers
  <1>9. CASE EchoServer
    <2>1. CASE UNCHANGED peer
      BY <1>9, <2>1, NothingMoves DEF EchoServer
    <2>2. CASE Goto("server", "stop") \/ Goto("server", "failed")
      BY <1>9, <2>2, MovesOn DEF EchoServer, NextWc, Workload, Peers
    <2>3. QED
      BY <1>9, <2>1, <2>2 DEF EchoServer, LeaveLoop
  <1>10. CASE EchoClient
    <2>1. CASE UNCHANGED peer
      BY <1>10, <2>1, NothingMoves DEF EchoClient
    <2>2. CASE Goto("client", "done")
      BY <1>10, <2>2, MovesOn DEF EchoClient, NextWc, Workload, Peers
    <2>3. QED
      BY <1>10, <2>1, <2>2 DEF EchoClient, LeaveLoop
  <1>11. QED
    BY <1>1, <1>2, <1>3, <1>4, <1>5, <1>6, <1>7, <1>8, <1>9, <1>10
       DEF server_thread, client_thread_func, Peers

LEMMA HandshakeStep == HandshakeInv /\ [EchoNext]_echoVars => HandshakeInv'
  <1> SUFFICES ASSUME HandshakeInv, [EchoNext]_echoVars PROVE HandshakeInv'
    OBVIOUS
  <1>1. CASE connect_qp_server \/ connect_qp_client
    BY <1>1, ServerHandshake, ClientHandshake
  <1>2. CASE server_thread \/ client_thread_func
    BY <1>2, WorkloadSteps
  <1>3. CASE Adapters
    BY <1>3, NothingMoves DEF Adapters, Deliver, Acknowledge, GiveUp
  <1>4. CASE UNCHANGED echoVars
    BY <1>4, NothingMoves DEF echoVars
  <1>5. QED
    BY <1>1, <1>2, <1>3, <1>4 DEF EchoNext

LEMMA HandshakeAgrees == HandshakeInv => PeersAgree
  <1> SUFFICES ASSUME HandshakeInv, NEW p \in Peers, peer[p] \in Workload \cup {"done"},
                      NEW q \in Peers
               PROVE  qp[q] = "RTS"
    BY DEF PeersAgree
  <1>1. qp[p] = "RTS" /\ qp[Other(p)] = "RTS"
    BY DEF HandshakeInv, HandshakeOf, Up, Synced
  <1>2. QED
    BY <1>1, OtherPeer

\* Neither peer starts its workload before both queue pairs are up, however
\* the handshake goes (setup_ib.c, sock.c).
THEOREM HandshakeKept == EchoSpec => []PeersAgree
  <1>1. EchoInit /\ [][EchoNext]_echoVars => []HandshakeInv
    BY HandshakeInit, HandshakeStep, PTL
  <1>2. QED
    BY <1>1, HandshakeAgrees, PTL DEF EchoSpec

-----------------------------------------------------------------------------
(***************************************************************************)
(* Counting.  A queue holds so many messages, or completions, of a kind,   *)
(* and what a step adds to it at the end, or takes from its head, counts   *)
(* for one.                                                                *)
(***************************************************************************)

Count(s, S) == Cardinality({i \in DOMAIN s : s[i] \in S})
Bit(b) == IF b THEN 1 ELSE 0

LEMMA CountIsNat ==
  ASSUME NEW T, NEW s \in Seq(T), NEW S
  PROVE  /\ IsFiniteSet({i \in DOMAIN s : s[i] \in S})
         /\ Count(s, S) \in Nat
         /\ Count(s, S) <= Len(s)
         /\ Count(s, S) = 0 <=> \A i \in DOMAIN s : s[i] \notin S
  <1> DEFINE In == {i \in DOMAIN s : s[i] \in S}
  <1>1. DOMAIN s = 1 .. Len(s) /\ Len(s) \in Nat
    BY LenProperties
  <1>2. IsFiniteSet(1 .. Len(s)) /\ Cardinality(1 .. Len(s)) = Len(s)
    BY <1>1, FS_Interval
  <1>3. In \in SUBSET (1 .. Len(s))
    BY <1>1
  <1>4. IsFiniteSet(In) /\ Cardinality(In) <= Len(s)
    BY <1>2, <1>3, FS_Subset
  <1>5. Cardinality(In) \in Nat /\ (Cardinality(In) = 0 <=> In = {})
    BY <1>4, FS_CardinalityType, FS_EmptySet
  <1> QED BY <1>4, <1>5 DEF Count

LEMMA CountNone == \A S : Count(<< >>, S) = 0
  <1> SUFFICES ASSUME NEW S PROVE Count(<< >>, S) = 0
    OBVIOUS
  <1>1. << >> \in Seq({}) /\ DOMAIN << >> = {}
    OBVIOUS
  <1> QED BY <1>1, CountIsNat

LEMMA CountAppend ==
  ASSUME NEW T, NEW s \in Seq(T), NEW e \in T
  PROVE  /\ Append(s, e) \in Seq(T) /\ Len(Append(s, e)) = Len(s) + 1
         /\ \A S : Count(Append(s, e), S) = Count(s, S) + Bit(e \in S)
  <1>1. /\ Append(s, e) \in Seq(T) /\ Len(Append(s, e)) = Len(s) + 1
        /\ DOMAIN s = 1 .. Len(s) /\ Len(s) \in Nat
        /\ DOMAIN Append(s, e) = 1 .. Len(s) + 1
        /\ \A i \in DOMAIN s : Append(s, e)[i] = s[i]
        /\ Append(s, e)[Len(s) + 1] = e
    BY AppendProperties, LenProperties
  <1>2. ASSUME NEW S PROVE Count(Append(s, e), S) = Count(s, S) + Bit(e \in S)
    <2> DEFINE In == {i \in DOMAIN s : s[i] \in S}
               Now == {i \in DOMAIN Append(s, e) : Append(s, e)[i] \in S}
    <2>1. IsFiniteSet(In) /\ Len(s) + 1 \notin In /\ Cardinality(In) \in Nat
      BY <1>1, CountIsNat DEF Count
    <2>2. Now = IF e \in S THEN In \cup {Len(s) + 1} ELSE In
      BY <1>1
    <2>3. Cardinality(In \cup {Len(s) + 1}) = Cardinality(In) + 1
      BY <2>1, FS_AddElement
    <2>4. Count(Append(s, e), S) = Cardinality(Now) /\ Count(s, S) = Cardinality(In)
      BY DEF Count
    <2> HIDE DEF In, Now
    <2>5. CASE e \in S
      BY <2>1, <2>2, <2>3, <2>4, <2>5 DEF Bit
    <2>6. CASE e \notin S
      BY <2>1, <2>2, <2>4, <2>6 DEF Bit
    <2> QED BY <2>5, <2>6
  <1> QED BY <1>1, <1>2

LEMMA CountTail ==
  ASSUME NEW T, NEW s \in Seq(T), s # << >>
  PROVE  /\ Head(s) \in T /\ Tail(s) \in Seq(T) /\ Len(Tail(s)) = Len(s) - 1
         /\ \A S : Count(s, S) = Count(Tail(s), S) + Bit(Head(s) \in S)
  <1>1. /\ Head(s) \in T /\ Tail(s) \in Seq(T) /\ Len(Tail(s)) = Len(s) - 1
        /\ Len(s) \in Nat \ {0} /\ DOMAIN s = 1 .. Len(s)
        /\ DOMAIN Tail(s) = 1 .. Len(s) - 1
        /\ \A i \in 1 .. Len(s) - 1 : Tail(s)[i] = s[i + 1]
        /\ Head(s) = s[1]
    BY HeadTailProperties, LenProperties
  <1>2. ASSUME NEW S PROVE Count(s, S) = Count(Tail(s), S) + Bit(Head(s) \in S)
    <2> DEFINE In == {i \in DOMAIN Tail(s) : Tail(s)[i] \in S}
               Later == {i \in DOMAIN s : s[i] \in S /\ i > 1}
               All == {i \in DOMAIN s : s[i] \in S}
               up == [i \in In |-> i + 1]
    <2>1. IsFiniteSet(In) /\ Cardinality(In) \in Nat
      BY <1>1, CountIsNat DEF Count
    <2>2. up \in Bijection(In, Later)
      <3>1. up \in [In -> Later]
        BY <1>1
      <3>2. \A i, j \in In : up[i] = up[j] => i = j
        BY <1>1
      <3>3. \A k \in Later : \E i \in In : up[i] = k
        <4> SUFFICES ASSUME NEW k \in Later PROVE \E i \in In : up[i] = k
          OBVIOUS
        <4>1. k - 1 \in In /\ up[k - 1] = k
          BY <1>1
        <4> QED BY <4>1
      <3> QED BY <3>1, <3>2, <3>3, Fun_IsBij
    <2>3. IsFiniteSet(Later) /\ Cardinality(Later) = Cardinality(In)
      BY <2>1, <2>2, FS_Bijection DEF ExistsBijection
    <2>4. All = IF Head(s) \in S THEN Later \cup {1} ELSE Later
      BY <1>1
    <2>5. Cardinality(Later \cup {1}) = Cardinality(Later) + 1
      <3>1. 1 \notin Later
        OBVIOUS
      <3> QED BY <2>3, <3>1, FS_AddElement
    <2>6. Count(s, S) = Cardinality(All) /\ Count(Tail(s), S) = Cardinality(In)
      BY DEF Count
    <2> HIDE DEF In, Later, All, up
    <2>7. CASE Head(s) \in S
      BY <2>1, <2>3, <2>4, <2>5, <2>6, <2>7 DEF Bit
    <2>8. CASE Head(s) \notin S
      BY <2>1, <2>3, <2>4, <2>6, <2>8 DEF Bit
    <2> QED BY <2>7, <2>8
  <1> QED BY <1>1, <1>2

\* What is counted by kind is counted in all.
LEMMA CountSplits ==
  ASSUME NEW T, NEW s \in Seq(T), NEW A, NEW B, A \cap B = {}
  PROVE  Count(s, A \cup B) = Count(s, A) + Count(s, B)
  <1> DEFINE InA == {i \in DOMAIN s : s[i] \in A}
             InB == {i \in DOMAIN s : s[i] \in B}
             Both == {i \in DOMAIN s : s[i] \in A \cup B}
  <1>1. IsFiniteSet(InA) /\ IsFiniteSet(InB)
    BY CountIsNat
  <1>2. Both = InA \cup InB /\ InA \cap InB = {}
    OBVIOUS
  <1>3. Count(s, A) = Cardinality(InA) /\ Count(s, B) = Cardinality(InB)
        /\ Count(s, A \cup B) = Cardinality(Both)
    BY DEF Count
  <1> HIDE DEF InA, InB, Both
  <1>4. /\ Cardinality(InA) \in Nat /\ Cardinality(InB) \in Nat
        /\ Cardinality(InA \cup InB)
             = Cardinality(InA) + Cardinality(InB) - Cardinality(InA \cap InB)
    BY <1>1, FS_Union, FS_CardinalityType
  <1>5. Cardinality(InA \cap InB) = 0
    BY <1>2, FS_EmptySet
  <1> QED BY <1>2, <1>3, <1>4, <1>5

LEMMA CountEverything ==
  ASSUME NEW T, NEW s \in Seq(T) PROVE Count(s, T) = Len(s)
  <1> DEFINE In == {i \in DOMAIN s : s[i] \in T}
  <1>1. DOMAIN s = 1 .. Len(s) /\ Len(s) \in Nat /\ \A i \in DOMAIN s : s[i] \in T
    BY LenProperties, ElementOfSeq
  <1>2. In = 1 .. Len(s)
    BY <1>1
  <1>3. Cardinality(1 .. Len(s)) = Len(s)
    BY <1>1, FS_Interval
  <1>4. Count(s, T) = Cardinality(In)
    BY DEF Count
  <1> HIDE DEF In
  <1> QED BY <1>2, <1>3, <1>4

-----------------------------------------------------------------------------
(***************************************************************************)
(* With one message at a time (CONCURRENT = 1).  A message is under way    *)
(* from its post until what it brings about: on the wire, among the        *)
(* completions of the other, or polled and not handled.  There is never    *)
(* more than one, in both directions, and none once a send was refused,    *)
(* however late the acknowledgements are: a message is posted only when    *)
(* one is handled, or first of all.                                        *)
(***************************************************************************)

Mails == [kind : Kinds, buf : {0}]
Mail(k) == [kind : {k}, buf : {0}]
Comps == [op : {"send", "recv", "error"}, kind : Kinds, buf : {0}]
Got(k) == [op : {"recv"}, kind : {k}, buf : {0}]
Errors == [op : {"error"}, kind : Kinds, buf : {0}]
\* What ends the last loop of the server.
Ends == Errors \cup [op : {"send"}, kind : {"stop"}, buf : {0}]

Wired(p, k) == Count(wire[p], Mail(k))
Received(p, k) == Count(cq[p], Got(k)) + Count(wc[p], Got(k))
Under(p, k) == Wired(p, k) + Received(Other(p), k)

Held(p) == Received(p, "start") + Received(p, "regular") + Received(p, "stop")
UnderFrom(p) == Under(p, "start") + Under(p, "regular") + Under(p, "stop")
AllUnder == UnderFrom("server") + UnderFrom("client")

LEMMA MailMembers ==
  /\ \A m \in Mails : /\ m.kind \in Kinds /\ m.buf = 0 /\ m = Message(m.kind, 0)
                      /\ \A k : m \in Mail(k) <=> m.kind = k
  /\ \A k \in Kinds : Message(k, 0) \in Mails /\ Message(k, 0).kind = k
  <1>1. ASSUME NEW m \in Mails
        PROVE  /\ m.kind \in Kinds /\ m.buf = 0 /\ m = Message(m.kind, 0)
               /\ \A k : m \in Mail(k) <=> m.kind = k
    BY DEF Mails, Mail, Message
  <1>2. \A k \in Kinds : Message(k, 0) \in Mails /\ Message(k, 0).kind = k
    BY DEF Mails, Message
  <1> QED BY <1>1, <1>2

LEMMA CompMembers ==
  \A c \in Comps : /\ c.op \in {"send", "recv", "error"} /\ c.kind \in Kinds /\ c.buf = 0
                   /\ \A k : c \in Got(k) <=> c.op = "recv" /\ c.kind = k
                   /\ c \in Errors <=> c.op = "error"
                   /\ c \in Ends <=> c.op = "error" \/ (c.op = "send" /\ c.kind = "stop")
  BY DEF Comps, Got, Errors, Ends

LEMMA CompletionMembers ==
  ASSUME NEW op \in {"send", "recv", "error"}, NEW m \in Mails
  PROVE  /\ Completion(op, m) \in Comps
         /\ Completion(op, m).op = op /\ Completion(op, m).kind = m.kind
  BY DEF Completion, Comps, Mails

\* The kinds add up.
LEMMA MailsAddUp ==
  ASSUME NEW s \in Seq(Mails)
  PROVE  Len(s) = Count(s, Mail("start")) + Count(s, Mail("regular")) + Count(s, Mail("stop"))
  <1>1. Mails = (Mail("start") \cup Mail("regular")) \cup Mail("stop")
    BY DEF Mails, Mail, Kinds
  <1>2. /\ Mail("start") \cap Mail("regular") = {}
        /\ (Mail("start") \cup Mail("regular")) \cap Mail("stop") = {}
    BY DEF Mail
  <1>3. Count(s, Mail("start") \cup Mail("regular"))
          = Count(s, Mail("start")) + Count(s, Mail("regular"))
    BY <1>2, CountSplits
  <1>4. Count(s, (Mail("start") \cup Mail("regular")) \cup Mail("stop"))
          = Count(s, Mail("start") \cup Mail("regular")) + Count(s, Mail("stop"))
    BY <1>2, CountSplits
  <1>5. Count(s, Mails) = Len(s)
    BY CountEverything
  <1> QED BY <1>1, <1>3, <1>4, <1>5

GotAny == [op : {"recv"}, kind : Kinds, buf : {0}]

LEMMA GotsAddUp ==
  ASSUME NEW s \in Seq(Comps)
  PROVE  /\ Count(s, GotAny)
              = Count(s, Got("start")) + Count(s, Got("regular")) + Count(s, Got("stop"))
         /\ Count(s, GotAny) = Cardinality({i \in DOMAIN s : s[i].op = "recv"})
         /\ Count(s, GotAny) = 0 => \A i \in DOMAIN s : s[i].op # "recv"
  <1>1. GotAny = (Got("start") \cup Got("regular")) \cup Got("stop")
    BY DEF GotAny, Got, Kinds
  <1>2. /\ Got("start") \cap Got("regular") = {}
        /\ (Got("start") \cup Got("regular")) \cap Got("stop") = {}
    BY DEF Got
  <1>3. Count(s, Got("start") \cup Got("regular"))
          = Count(s, Got("start")) + Count(s, Got("regular"))
    BY <1>2, CountSplits
  <1>4. Count(s, (Got("start") \cup Got("regular")) \cup Got("stop"))
          = Count(s, Got("start") \cup Got("regular")) + Count(s, Got("stop"))
    BY <1>2, CountSplits
  <1>5. \A i \in DOMAIN s : s[i] \in Comps
    BY ElementOfSeq
  <1>6. \A c \in Comps : c \in GotAny <=> c.op = "recv"
    BY DEF Comps, GotAny
  <1>7. {i \in DOMAIN s : s[i] \in GotAny} = {i \in DOMAIN s : s[i].op = "recv"}
    BY <1>5, <1>6
  <1>8. Count(s, GotAny) = Cardinality({i \in DOMAIN s : s[i].op = "recv"})
    BY <1>7 DEF Count
  <1>9. Count(s, GotAny) = 0 => \A i \in DOMAIN s : s[i].op # "recv"
    BY <1>5, <1>6, CountIsNat
  <1> QED BY <1>1, <1>3, <1>4, <1>8, <1>9

Start == [ptr |-> 0, offset |-> 0]

LEMMA AdvanceStays == CONCURRENT = 1 => Advance(Start) = Start
  <1> SUFFICES ASSUME CONCURRENT = 1 PROVE Advance(Start) = Start
    OBVIOUS
  <1>1. (Start.offset + 1) % CONCURRENT = 0
    BY DEF Start
  <1> QED BY <1>1 DEF Advance, Start

\* The recursive function of the walk, at the one place the code uses it.
LEMMA WalkStays ==
  ASSUME CONCURRENT = 1
  PROVE  WalkFrom(Start)[0] = Start /\ WalkFrom(Start)[1] = Start
  <1> DEFINE Solves(at) ==
               at = [i \in 0 .. CONCURRENT |-> IF i = 0 THEN Start ELSE Advance(at[i - 1])]
             chosen == CHOOSE at : Solves(at)
             stays == [i \in 0 .. 1 |-> Start]
  <1>1. WalkFrom(Start) = chosen
    BY DEF WalkFrom
  <1>2. Solves(stays)
    <2>1. \A i \in 0 .. 1 : (IF i = 0 THEN Start ELSE Advance(stays[i - 1])) = Start
      <3> SUFFICES ASSUME NEW i \in 0 .. 1
                   PROVE  (IF i = 0 THEN Start ELSE Advance(stays[i - 1])) = Start
        OBVIOUS
      <3>1. CASE i = 0
        BY <3>1
      <3>2. CASE i = 1
        <4>1. stays[i - 1] = Start
          BY <3>2
        <4> QED BY <3>2, <4>1, AdvanceStays
      <3> QED BY <3>1, <3>2
    <2> QED BY <2>1
  <1>3. Solves(chosen)
    BY <1>2
  <1> HIDE DEF chosen
  <1>4. chosen[0] = Start /\ chosen[1] = Advance(chosen[0])
    BY <1>3
  <1> QED BY <1>1, <1>4, AdvanceStays

LEMMA OnePosition ==
  ASSUME CONCURRENT = 1
  PROVE  /\ Positions(Start) = << 0 >> /\ EndOfWalk(Start) = Start
         /\ \A kind : [i \in 1 .. CONCURRENT |-> Message(kind, Positions(Start)[i])]
                        = <<Message(kind, 0)>>
  <1>1. EndOfWalk(Start) = Start
    BY WalkStays DEF EndOfWalk
  <1>2. Positions(Start) = [i \in 1 .. 1 |-> 0]
    <2>1. \A i \in 1 .. 1 : WalkFrom(Start)[i - 1].ptr = 0
      BY WalkStays DEF Start
    <2> QED BY <2>1 DEF Positions
  <1>3. [i \in 1 .. 1 |-> 0] = << 0 >>
    OBVIOUS
  <1>4. ASSUME NEW kind
        PROVE  [i \in 1 .. CONCURRENT |-> Message(kind, Positions(Start)[i])]
                 = <<Message(kind, 0)>>
    <2> DEFINE m == Message(kind, 0)
    <2>1. [i \in 1 .. CONCURRENT |-> Message(kind, Positions(Start)[i])] = [i \in 1 .. 1 |-> m]
      BY <1>2
    <2> HIDE DEF m
    <2>2. [i \in 1 .. 1 |-> m] = <<m>>
      OBVIOUS
    <2> QED BY <2>1, <2>2 DEF m
  <1> QED BY <1>1, <1>2, <1>3, <1>4

Before ==
  {"bind", "accept", "connect", "get", "set", "modify", "readSync", "writeSync", "start"}

FlowType ==
  /\ CONCURRENT = 1
  /\ peer \in [Peers -> HandshakeSteps]
  /\ wire \in [Peers -> Seq(Mails)] /\ unacked \in [Peers -> Seq(Mails)]
  /\ recvs \in [Peers -> Seq({0})]
  /\ cq \in [Peers -> Seq(Comps)] /\ wc \in [Peers -> Seq(Comps)]
  /\ walk \in [Peers -> {Start}]
  /\ refused \subseteq {"send"}

\* One receive is posted, or what came in for it is not handled.
FlowOf(p) ==
  /\ Len(recvs[p]) + Held(p) <= 1
  /\ Len(wire[p]) <= Len(unacked[p])
  /\ peer[p] \in Before => Len(recvs[p]) + Held(p) = 0

\* Nothing is under way before the server has started, nothing from the
\* client before its loop.
FlowStarts ==
  /\ peer["server"] \in Before =>
       AllUnder = 0 /\ "send" \notin refused /\ peer["client"] \notin {"send", "echo", "stop", "done"}
  /\ peer["client"] \in Before \cup {"wait", "send"} => UnderFrom("client") = 0
  /\ peer["client"] = "send" => AllUnder = 0 /\ "send" \notin refused

OneUnder == AllUnder <= 1 /\ ("send" \in refused => AllUnder = 0)

FlowInv == FlowType /\ (\A p \in Peers : FlowOf(p)) /\ FlowStarts /\ OneUnder

LEMMA FlowNumbers ==
  ASSUME FlowType, NEW p \in Peers
  PROVE  /\ \A k : /\ Wired(p, k) \in Nat /\ Received(p, k) \in Nat
                   /\ Count(cq[p], Got(k)) \in Nat /\ Count(wc[p], Got(k)) \in Nat
         /\ Len(wire[p]) = Wired(p, "start") + Wired(p, "regular") + Wired(p, "stop")
         /\ Completed(p, "recv") = Count(cq[p], Got("start")) + Count(cq[p], Got("regular"))
                                   + Count(cq[p], Got("stop"))
         /\ Completed(p, "recv") \in Nat /\ Completed(p, "send") \in Nat
         /\ Len(wire[p]) \in Nat /\ Len(unacked[p]) \in Nat /\ Len(recvs[p]) \in Nat
         /\ Len(cq[p]) \in Nat /\ Len(wc[p]) \in Nat
  <1>1. wire[p] \in Seq(Mails) /\ cq[p] \in Seq(Comps) /\ wc[p] \in Seq(Comps)
        /\ unacked[p] \in Seq(Mails) /\ recvs[p] \in Seq({0})
    BY DEF FlowType
  <1>2. \A k : /\ Wired(p, k) \in Nat
               /\ Count(cq[p], Got(k)) \in Nat /\ Count(wc[p], Got(k)) \in Nat
    BY <1>1, CountIsNat DEF Wired
  <1>3. \A k : Received(p, k) \in Nat
    BY <1>2 DEF Received
  <1>4. Len(wire[p]) = Wired(p, "start") + Wired(p, "regular") + Wired(p, "stop")
    BY <1>1, MailsAddUp DEF Wired
  <1>5. Completed(p, "recv") = Count(cq[p], GotAny)
    BY <1>1, GotsAddUp DEF Completed
  <1>6. Completed(p, "send") \in Nat
    <2>1. DOMAIN cq[p] = 1 .. Len(cq[p]) /\ Len(cq[p]) \in Nat
      BY <1>1, LenProperties
    <2>2. IsFiniteSet(DOMAIN cq[p])
      BY <2>1, FS_Interval
    <2>3. {i \in DOMAIN cq[p] : cq[p][i].op = "send"} \in SUBSET (DOMAIN cq[p])
      OBVIOUS
    <2>4. IsFiniteSet({i \in DOMAIN cq[p] : cq[p][i].op = "send"})
      BY <2>2, <2>3, FS_Subset
    <2> QED BY <2>4, FS_CardinalityType DEF Completed
  <1>7. Completed(p, "recv") = Count(cq[p], Got("start")) + Count(cq[p], Got("regular"))
                               + Count(cq[p], Got("stop"))
    BY <1>1, <1>5, GotsAddUp
  <1>8. Completed(p, "recv") \in Nat
    BY <1>2, <1>7
  <1> QED BY <1>1, <1>2, <1>3, <1>4, <1>6, <1>7, <1>8, LenProperties

\* What is under way, by program.
LEMMA UnderSums ==
  /\ Held("server") = Received("server", "start") + Received("server", "regular")
                      + Received("server", "stop")
  /\ Held("client") = Received("client", "start") + Received("client", "regular")
                      + Received("client", "stop")
  /\ \A k : Under("server", k) = Wired("server", k) + Received("client", k)
  /\ \A k : Under("client", k) = Wired("client", k) + Received("server", k)
  BY DEF Held, Under, Other

\* The queues of a program that a step does not touch.
Queues(p) == <<wire[p], unacked[p], recvs[p], cq[p], wc[p]>>

LEMMA Untouched ==
  ASSUME NEW p, UNCHANGED Queues(p)
  PROVE  /\ \A k : Wired(p, k)' = Wired(p, k) /\ Received(p, k)' = Received(p, k)
         /\ Held(p)' = Held(p)
         /\ Len(wire[p])' = Len(wire[p]) /\ Len(unacked[p])' = Len(unacked[p])
         /\ Len(recvs[p])' = Len(recvs[p])
         /\ Len(cq[p])' = Len(cq[p]) /\ Len(wc[p])' = Len(wc[p])
  BY DEF Queues, Wired, Received, Held

LEMMA FittingOne ==
  /\ \A n \in Int : Fitting(<< >>, n) = << >>
  /\ \A m : \A n \in Int : Fitting(<<m>>, n) = IF n >= 1 THEN <<m>> ELSE << >>
  <1>1. ASSUME NEW n \in Int PROVE Fitting(<< >>, n) = << >>
    BY DEF Fitting
  <1>2. ASSUME NEW m, NEW n \in Int PROVE Fitting(<<m>>, n) = IF n >= 1 THEN <<m>> ELSE << >>
    <2>1. Len(<<m>>) = 1 /\ <<m>> \in Seq({m}) /\ <<m>>[1] = m
      OBVIOUS
    <2>2. SubSeq(<<m>>, 1, 1) = <<m>>
      BY <2>1, SubSeqFull
    <2>3. CASE n >= 1
      BY <2>1, <2>2, <2>3 DEF Fitting
    <2>4. CASE n < 1
      BY <2>1, <2>4 DEF Fitting
    <2> QED BY <2>3, <2>4
  <1> QED BY <1>1, <1>2

LEMMA FreeAreInts ==
  ASSUME FlowType, NEW p \in Peers
  PROVE  /\ FreeSends(p) \in Int /\ FreeRecvs(p) \in Int /\ Held(p) \in Nat
         /\ FreeRecvs(p) >= 1 - Len(recvs[p]) - Completed(p, "recv")
         /\ Completed(p, "recv") <= Held(p)
  <1>1. /\ Completed(p, "send") \in Nat /\ Completed(p, "recv") \in Nat
        /\ Len(unacked[p]) \in Nat /\ Len(recvs[p]) \in Nat
    BY FlowNumbers
  <1>2. MAX_WR \in Nat /\ MAX_WR >= 1
    BY EchoConstants
  <1>3. Held(p) \in Nat /\ Completed(p, "recv") <= Held(p)
    <2> DEFINE c(k) == Count(cq[p], Got(k))
               w(k) == Count(wc[p], Got(k))
    <2>1. \A k : c(k) \in Nat /\ w(k) \in Nat
      BY FlowNumbers
    <2>2. Completed(p, "recv") = c("start") + c("regular") + c("stop")
      BY FlowNumbers
    <2>3. Held(p) = (c("start") + w("start")) + (c("regular") + w("regular"))
                    + (c("stop") + w("stop"))
      BY DEF Held, Received
    <2> HIDE DEF c, w
    <2> QED BY <2>1, <2>2, <2>3
  <1>4. /\ FreeSends(p) = MAX_WR - Len(unacked[p]) - Completed(p, "send")
        /\ FreeRecvs(p) = MAX_WR - Len(recvs[p]) - Completed(p, "recv")
    BY DEF FreeSends, FreeRecvs
  <1> HIDE DEF Completed, Held
  <1>5. FreeSends(p) \in Int /\ FreeRecvs(p) \in Int
    BY <1>1, <1>2, <1>4
  <1>6. FreeRecvs(p) >= 1 - Len(recvs[p]) - Completed(p, "recv")
    BY <1>1, <1>2, <1>4
  <1> QED BY <1>3, <1>5, <1>6

\* A program posts the receive there is room for, and a send there may be none for.
LEMMA PostsReceive ==
  ASSUME FlowType, NEW p \in Peers, NEW sends, NEW buffers \in {<< >>, << 0 >>},
         Post(p, sends, buffers), Len(buffers) + Len(recvs[p]) + Completed(p, "recv") <= 1
  PROVE  /\ recvs' \in [Peers -> Seq({0})]
         /\ \A q \in Peers : Len(recvs'[q]) = Len(recvs[q]) + (IF q = p THEN Len(buffers) ELSE 0)
         /\ \A q \in Peers : q # p => recvs'[q] = recvs[q]
         /\ Fitting(buffers, FreeRecvs(p)) = buffers
  <1>1. /\ recvs \in [Peers -> Seq({0})]
        /\ recvs' = [recvs EXCEPT ![p] = @ \o Fitting(buffers, FreeRecvs(p))]
    BY DEF FlowType, Post
  <1>2. buffers \in Seq({0}) /\ (buffers = << >> \/ Len(buffers) = 1)
    <2>1. << >> \in Seq({0}) /\ << 0 >> \in Seq({0}) /\ Len(<< 0 >>) = 1
      OBVIOUS
    <2> QED BY <2>1
  <1>3. FreeRecvs(p) \in Int /\ (buffers # << >> => FreeRecvs(p) >= 1)
    <2>1. /\ FreeRecvs(p) \in Int /\ Completed(p, "recv") \in Nat /\ Len(recvs[p]) \in Nat
          /\ FreeRecvs(p) >= 1 - Len(recvs[p]) - Completed(p, "recv")
      BY FreeAreInts, FlowNumbers
    <2> QED BY <1>2, <2>1
  <1>4. Fitting(buffers, FreeRecvs(p)) = buffers
    BY <1>3, FittingOne
  <1>5. /\ recvs[p] \o buffers \in Seq({0})
        /\ Len(recvs[p] \o buffers) = Len(recvs[p]) + Len(buffers)
    BY <1>1, <1>2, ConcatProperties
  <1> QED BY <1>1, <1>4, <1>5

LEMMA PostsOnlyReceive ==
  ASSUME FlowType, NEW p \in Peers, NEW buffers \in {<< >>, << 0 >>},
         Post(p, << >>, buffers), Len(buffers) + Len(recvs[p]) + Completed(p, "recv") <= 1
  PROVE  UNCHANGED <<wire, unacked, refused>>
  <1>1. FreeSends(p) \in Int
    BY FreeAreInts
  <1>2. Fitting(<< >>, FreeSends(p)) = << >>
    BY <1>1, FittingOne
  <1>3. Fitting(buffers, FreeRecvs(p)) = buffers
    BY PostsReceive
  <1>4. /\ wire' = [wire EXCEPT ![p] = @ \o << >>] /\ unacked' = [unacked EXCEPT ![p] = @ \o << >>]
        /\ refused' = refused
    BY <1>2, <1>3 DEF Post
  <1>5. wire[p] \o << >> = wire[p] /\ unacked[p] \o << >> = unacked[p]
    BY ConcatEmptySeq DEF FlowType
  <1> QED BY <1>4, <1>5 DEF FlowType

\* Whether a send still fits.
Fits(p) == IF FreeSends(p) > 0 THEN 1 ELSE 0

LEMMA PostsMessage ==
  ASSUME FlowType, NEW p \in Peers, NEW k \in Kinds, NEW buffers \in {<< >>, << 0 >>},
         Post(p, <<Message(k, 0)>>, buffers), Len(buffers) + Len(recvs[p]) + Completed(p, "recv") <= 1
  PROVE  /\ wire' \in [Peers -> Seq(Mails)] /\ unacked' \in [Peers -> Seq(Mails)]
         /\ \A q \in Peers : q # p => wire'[q] = wire[q] /\ unacked'[q] = unacked[q]
         /\ refused' = IF FreeSends(p) > 0 THEN refused ELSE refused \cup {"send"}
         /\ Wired(p, k)' = Wired(p, k) + Fits(p)
         /\ \A j : j # k => Wired(p, j)' = Wired(p, j)
         /\ Len(wire'[p]) = Len(wire[p]) + Fits(p)
         /\ Len(unacked'[p]) = Len(unacked[p]) + Fits(p)
         /\ Count(unacked'[p], Mail(k)) = Count(unacked[p], Mail(k)) + Fits(p)
  <1> DEFINE m == Message(k, 0)
             sent == Fitting(<<m>>, FreeSends(p))
  <1>1. m \in Mails /\ FreeSends(p) \in Int /\ \A j : m \in Mail(j) <=> j = k
    BY MailMembers, FreeAreInts
  <1>2. sent = IF FreeSends(p) >= 1 THEN <<m>> ELSE << >>
    BY <1>1, FittingOne
  <1>3. Fitting(buffers, FreeRecvs(p)) = buffers
    BY PostsReceive
  <1>4. /\ wire' = [wire EXCEPT ![p] = @ \o sent] /\ unacked' = [unacked EXCEPT ![p] = @ \o sent]
        /\ refused' = refused \cup (IF sent # <<m>> THEN {"send"} ELSE {})
    BY <1>3 DEF Post
  <1> HIDE DEF sent, m
  <1>5. /\ wire[p] \in Seq(Mails) /\ unacked[p] \in Seq(Mails)
        /\ \A j : /\ Count(wire[p], Mail(j)) \in Nat /\ Count(unacked[p], Mail(j)) \in Nat
        /\ Len(wire[p]) \in Nat /\ Len(unacked[p]) \in Nat
    BY CountIsNat, LenProperties DEF FlowType
  <1>6. /\ wire[p] \o << >> = wire[p] /\ unacked[p] \o << >> = unacked[p]
        /\ wire[p] \o <<m>> = Append(wire[p], m) /\ unacked[p] \o <<m>> = Append(unacked[p], m)
        /\ Append(wire[p], m) \in Seq(Mails) /\ Append(unacked[p], m) \in Seq(Mails)
    BY <1>1, <1>5, ConcatEmptySeq, AppendIsConcat, AppendProperties
  <1>7. <<m>> # << >>
    OBVIOUS
  <1>8. CASE FreeSends(p) > 0
    <2>1. /\ wire' = [wire EXCEPT ![p] = Append(wire[p], m)]
          /\ unacked' = [unacked EXCEPT ![p] = Append(unacked[p], m)]
          /\ refused' = refused
      <3>1. sent = <<m>>
        BY <1>1, <1>2, <1>8
      <3> QED BY <1>4, <1>6, <3>1
    <2>2. /\ wire'[p] = Append(wire[p], m) /\ unacked'[p] = Append(unacked[p], m)
          /\ wire' \in [Peers -> Seq(Mails)] /\ unacked' \in [Peers -> Seq(Mails)]
          /\ \A q \in Peers : q # p => wire'[q] = wire[q] /\ unacked'[q] = unacked[q]
      BY <1>6, <2>1 DEF FlowType
    <2>3. /\ \A S : Count(wire'[p], S) = Count(wire[p], S) + Bit(m \in S)
          /\ \A S : Count(unacked'[p], S) = Count(unacked[p], S) + Bit(m \in S)
          /\ Len(wire'[p]) = Len(wire[p]) + 1 /\ Len(unacked'[p]) = Len(unacked[p]) + 1
      BY <1>1, <1>5, <2>2, CountAppend
    <2>4. Bit(m \in Mail(k)) = 1 /\ \A j : j # k => Bit(m \in Mail(j)) = 0
      BY <1>1 DEF Bit
    <2>5. Fits(p) = 1
      BY <1>8 DEF Fits
    <2>6. /\ Wired(p, k)' = Wired(p, k) + 1
          /\ Count(unacked'[p], Mail(k)) = Count(unacked[p], Mail(k)) + 1
      BY <2>3, <2>4 DEF Wired
    <2>7. \A j : j # k => Wired(p, j)' = Wired(p, j)
      <3> SUFFICES ASSUME NEW j, j # k PROVE Wired(p, j)' = Wired(p, j)
        OBVIOUS
      <3>1. Count(wire'[p], Mail(j)) = Count(wire[p], Mail(j)) + 0
        BY <2>3, <2>4
      <3> QED BY <1>5, <3>1 DEF Wired
    <2> QED BY <1>8, <2>1, <2>2, <2>3, <2>5, <2>6, <2>7
  <1>9. CASE ~(FreeSends(p) > 0)
    <2>1. /\ wire' = wire /\ unacked' = unacked /\ refused' = refused \cup {"send"}
      BY <1>1, <1>2, <1>4, <1>6, <1>7, <1>9 DEF FlowType
    <2>2. Fits(p) = 0
      BY <1>9 DEF Fits
    <2> QED BY <1>5, <1>9, <2>1, <2>2 DEF Wired, FlowType
  <1> QED BY <1>8, <1>9

-----------------------------------------------------------------------------
(***************************************************************************)
(* What the steps do to the numbers.                                       *)
(***************************************************************************)

\* Errors that were not handled, and what the last loop of the server waits for.
Errs(p) == Count(cq[p], Errors) + Count(wc[p], Errors)
Pending(p) == Count(unacked[p], Mail("stop")) + Count(cq[p], Ends) + Count(wc[p], Ends)

LEMMA MoreNumbers ==
  ASSUME FlowType, NEW p \in Peers
  PROVE  /\ \A S : Count(cq[p], S) \in Nat /\ Count(wc[p], S) \in Nat
                   /\ Count(unacked[p], S) \in Nat /\ Count(wire[p], S) \in Nat
         /\ Errs(p) \in Nat /\ Pending(p) \in Nat
  <1>1. \A S : Count(cq[p], S) \in Nat /\ Count(wc[p], S) \in Nat
               /\ Count(unacked[p], S) \in Nat /\ Count(wire[p], S) \in Nat
    BY CountIsNat DEF FlowType
  <1> QED BY <1>1 DEF Errs, Pending

LEMMA UntouchedEnds ==
  ASSUME NEW p, UNCHANGED Queues(p)
  PROVE  Errs(p)' = Errs(p) /\ Pending(p)' = Pending(p)
  BY DEF Queues, Errs, Pending

\* One completion is handled.
LEMMA HandledDoes ==
  ASSUME FlowType, NEW p \in Peers, wc[p] # << >>, Handled(p), UNCHANGED cq, NEW c,
         c = Head(wc[p])
  PROVE  /\ c \in Comps
         /\ wc' \in [Peers -> Seq(Comps)] /\ \A q \in Peers : q # p => wc'[q] = wc[q]
         /\ Len(wc'[p]) = Len(wc[p]) - 1
         /\ \A k : Received(p, k) = Received(p, k)' + Bit(c.op = "recv" /\ c.kind = k)
         /\ \A k : Received(p, k)' \in Nat
         /\ Errs(p) = Errs(p)' + Bit(c.op = "error") /\ Errs(p)' \in Nat
         /\ Count(wc[p], Ends)
              = Count(wc'[p], Ends) + Bit(c.op = "error" \/ (c.op = "send" /\ c.kind = "stop"))
         /\ Count(wc'[p], Ends) \in Nat
  <1>1. /\ wc \in [Peers -> Seq(Comps)] /\ wc[p] \in Seq(Comps)
        /\ wc' = [wc EXCEPT ![p] = Tail(@)]
    BY DEF FlowType, Handled
  <1>2. /\ c \in Comps /\ Tail(wc[p]) \in Seq(Comps) /\ Len(Tail(wc[p])) = Len(wc[p]) - 1
        /\ \A S : Count(wc[p], S) = Count(Tail(wc[p]), S) + Bit(c \in S)
    BY <1>1, CountTail
  <1>3. /\ wc'[p] = Tail(wc[p]) /\ wc' \in [Peers -> Seq(Comps)]
        /\ \A q \in Peers : q # p => wc'[q] = wc[q]
    BY <1>1, <1>2
  <1>4. /\ \A k : Bit(c \in Got(k)) = Bit(c.op = "recv" /\ c.kind = k)
        /\ Bit(c \in Errors) = Bit(c.op = "error")
        /\ Bit(c \in Ends) = Bit(c.op = "error" \/ (c.op = "send" /\ c.kind = "stop"))
    BY <1>2, CompMembers DEF Bit
  <1>5. \A S : Count(cq[p], S) \in Nat /\ Count(wc[p], S) \in Nat /\ Count(wc'[p], S) \in Nat
    BY <1>2, <1>3, MoreNumbers, CountIsNat
  <1>6. \A S : Count(wc[p], S) = Count(wc'[p], S) + Bit(c \in S)
    BY <1>2, <1>3
  <1>7. ASSUME NEW k
        PROVE  Received(p, k) = Received(p, k)' + Bit(c.op = "recv" /\ c.kind = k)
               /\ Received(p, k)' \in Nat
    <2>1. Count(wc[p], Got(k)) = Count(wc'[p], Got(k)) + Bit(c.op = "recv" /\ c.kind = k)
      BY <1>4, <1>6
    <2>2. Bit(c.op = "recv" /\ c.kind = k) \in Nat
      BY DEF Bit
    <2> QED BY <1>5, <2>1, <2>2 DEF Received
  <1>8. Errs(p) = Errs(p)' + Bit(c.op = "error") /\ Errs(p)' \in Nat
    <2>1. Count(wc[p], Errors) = Count(wc'[p], Errors) + Bit(c.op = "error")
      BY <1>4, <1>6
    <2>2. Bit(c.op = "error") \in Nat
      BY DEF Bit
    <2> QED BY <1>5, <2>1, <2>2 DEF Errs
  <1>9. Count(wc[p], Ends)
          = Count(wc'[p], Ends) + Bit(c.op = "error" \/ (c.op = "send" /\ c.kind = "stop"))
    BY <1>4, <1>6
  <1> QED BY <1>2, <1>3, <1>5, <1>7, <1>8, <1>9

\* A loop is left at a completion, with what was polled after it.
LEMMA LeftDoes ==
  ASSUME FlowType, NEW p \in Peers, wc[p] # << >>, wc' = [wc EXCEPT ![p] = << >>],
         UNCHANGED cq, NEW c, c = Head(wc[p])
  PROVE  /\ c \in Comps
         /\ wc' \in [Peers -> Seq(Comps)] /\ \A q \in Peers : q # p => wc'[q] = wc[q]
         /\ Len(wc'[p]) = 0 /\ Len(wc[p]) >= 1
         /\ \A k : Received(p, k) >= Received(p, k)' + Bit(c.op = "recv" /\ c.kind = k)
         /\ \A k : Received(p, k)' \in Nat
         /\ Errs(p) >= Errs(p)' + Bit(c.op = "error") /\ Errs(p)' \in Nat
  <1>1. /\ wc \in [Peers -> Seq(Comps)] /\ wc[p] \in Seq(Comps)
    BY DEF FlowType
  <1>2. /\ c \in Comps /\ Tail(wc[p]) \in Seq(Comps)
        /\ \A S : Count(wc[p], S) = Count(Tail(wc[p]), S) + Bit(c \in S)
        /\ \A S : Count(Tail(wc[p]), S) \in Nat
    BY <1>1, CountTail, CountIsNat
  <1>3. wc'[p] = << >> /\ wc' \in [Peers -> Seq(Comps)]
        /\ \A q \in Peers : q # p => wc'[q] = wc[q]
    BY <1>1
  <1>4. /\ \A k : Bit(c \in Got(k)) = Bit(c.op = "recv" /\ c.kind = k)
        /\ Bit(c \in Errors) = Bit(c.op = "error")
    BY <1>2, CompMembers DEF Bit
  <1>5. \A S : Count(cq[p], S) \in Nat /\ Count(wc'[p], S) = 0
    BY <1>3, MoreNumbers, CountNone
  <1>6. ASSUME NEW k
        PROVE  Received(p, k) >= Received(p, k)' + Bit(c.op = "recv" /\ c.kind = k)
               /\ Received(p, k)' \in Nat
    <2>1. Count(wc[p], Got(k)) = Count(Tail(wc[p]), Got(k)) + Bit(c.op = "recv" /\ c.kind = k)
      BY <1>2, <1>4
    <2>2. Bit(c.op = "recv" /\ c.kind = k) \in Nat
      BY DEF Bit
    <2> QED BY <1>2, <1>5, <2>1, <2>2 DEF Received
  <1>7. Errs(p) >= Errs(p)' + Bit(c.op = "error") /\ Errs(p)' \in Nat
    <2>1. Count(wc[p], Errors) = Count(Tail(wc[p]), Errors) + Bit(c.op = "error")
      BY <1>2, <1>4
    <2>2. Bit(c.op = "error") \in Nat
      BY DEF Bit
    <2> QED BY <1>2, <1>5, <2>1, <2>2 DEF Errs
  <1>8. Len(wc'[p]) = 0 /\ Len(wc[p]) >= 1
    BY <1>1, <1>3, LenProperties, EmptySeq
  <1> QED BY <1>2, <1>3, <1>6, <1>7, <1>8

LEMMA PollDoes ==
  ASSUME FlowType, NEW p \in Peers, PollCq(p)
  PROVE  /\ cq' \in [Peers -> Seq(Comps)] /\ wc' \in [Peers -> Seq(Comps)]
         /\ \A q \in Peers : q # p => cq'[q] = cq[q] /\ wc'[q] = wc[q]
         /\ Len(cq[p]) >= 1 /\ Len(cq'[p]) = 0 /\ Len(wc[p]) = 0 /\ Len(wc'[p]) = Len(cq[p])
         /\ \A k : Received(p, k)' = Received(p, k)
         /\ Errs(p)' = Errs(p) /\ Pending(p)' = Pending(p)
  <1>1. /\ wc[p] = << >> /\ cq[p] # << >> /\ cq[p] \in Seq(Comps)
        /\ wc'[p] = cq[p] /\ cq'[p] = << >> /\ unacked' = unacked
        /\ cq' \in [Peers -> Seq(Comps)] /\ wc' \in [Peers -> Seq(Comps)]
        /\ \A q \in Peers : q # p => cq'[q] = cq[q] /\ wc'[q] = wc[q]
    BY DEF PollCq, FlowType
  <1>2. \A S : Count(wc[p], S) = 0 /\ Count(cq'[p], S) = 0 /\ Count(cq[p], S) \in Nat
               /\ Count(wc'[p], S) = Count(cq[p], S)
    BY <1>1, CountNone, MoreNumbers
  <1>3. Len(cq[p]) >= 1 /\ Len(cq'[p]) = 0 /\ Len(wc[p]) = 0
    BY <1>1, LenProperties, EmptySeq
  <1>4. \A k : Received(p, k)' = Received(p, k)
    BY <1>2 DEF Received
  <1>5. Errs(p)' = Errs(p)
    BY <1>2 DEF Errs
  <1>6. Pending(p)' = Pending(p)
    <2>1. Count(unacked'[p], Mail("stop")) = Count(unacked[p], Mail("stop"))
          /\ Count(unacked[p], Mail("stop")) \in Nat
      BY <1>1, MoreNumbers
    <2> QED BY <1>2, <2>1 DEF Pending
  <1> QED BY <1>1, <1>3, <1>4, <1>5, <1>6

\* A message comes in: it stays under way.
LEMMA DeliverDoes ==
  ASSUME FlowType, NEW p \in Peers, Deliver(p), NEW q, q = Other(p)
  PROVE  /\ wire' \in [Peers -> Seq(Mails)] /\ cq' \in [Peers -> Seq(Comps)]
         /\ recvs' \in [Peers -> Seq({0})]
         /\ wire'[q] = wire[q] /\ cq'[p] = cq[p] /\ recvs'[p] = recvs[p]
         /\ Len(wire'[p]) = Len(wire[p]) - 1 /\ Len(recvs'[q]) = Len(recvs[q]) - 1
         /\ Len(cq'[q]) = Len(cq[q]) + 1
         /\ \A k : Under(p, k)' = Under(p, k)
         /\ Held(q)' = Held(q) + 1 /\ Len(wire[p]) >= 1
         /\ Errs(q)' = Errs(q) /\ Pending(q)' = Pending(q)
  <1> DEFINE m == Head(wire[p])
             c == Completion("recv", Message(Head(wire[p]).kind, Head(recvs[q])))
             one(k) == Bit(m.kind = k)
  <1>1. /\ q \in Peers /\ q # p /\ Other(q) = p /\ Other(p) = q
        /\ wire[p] # << >> /\ recvs[q] # << >>
        /\ wire' = [wire EXCEPT ![p] = Tail(@)]
        /\ cq' = [cq EXCEPT ![q] = Append(@, c)]
        /\ recvs' = [recvs EXCEPT ![q] = Tail(@)]
        /\ unacked' = unacked /\ wc' = wc
    BY OtherPeer DEF Deliver
  <1>2. /\ wire[p] \in Seq(Mails) /\ recvs[q] \in Seq({0}) /\ cq[q] \in Seq(Comps)
        /\ wire \in [Peers -> Seq(Mails)] /\ recvs \in [Peers -> Seq({0})]
        /\ cq \in [Peers -> Seq(Comps)]
    BY <1>1 DEF FlowType
  <1>3. /\ m \in Mails /\ Tail(wire[p]) \in Seq(Mails)
        /\ Len(Tail(wire[p])) = Len(wire[p]) - 1
        /\ \A S : Count(wire[p], S) = Count(Tail(wire[p]), S) + Bit(m \in S)
        /\ \A S : Count(Tail(wire[p]), S) \in Nat
    BY <1>1, <1>2, CountTail, CountIsNat
  <1>4. /\ Head(recvs[q]) = 0 /\ Tail(recvs[q]) \in Seq({0})
        /\ Len(Tail(recvs[q])) = Len(recvs[q]) - 1 /\ Len(wire[p]) >= 1
    BY <1>1, <1>2, CountTail, EmptySeq
  <1>5. /\ c \in Comps /\ c.op = "recv" /\ c.kind = m.kind /\ m.kind \in Kinds
    BY <1>3, <1>4, MailMembers, CompletionMembers
  <1> HIDE DEF m, c
  <1>6. /\ Append(cq[q], c) \in Seq(Comps) /\ Len(Append(cq[q], c)) = Len(cq[q]) + 1
        /\ \A S : Count(Append(cq[q], c), S) = Count(cq[q], S) + Bit(c \in S)
    BY <1>2, <1>5, CountAppend
  <1>7. /\ wire'[p] = Tail(wire[p]) /\ cq'[q] = Append(cq[q], c) /\ recvs'[q] = Tail(recvs[q])
        /\ wire' \in [Peers -> Seq(Mails)] /\ cq' \in [Peers -> Seq(Comps)]
        /\ recvs' \in [Peers -> Seq({0})]
        /\ wire'[q] = wire[q] /\ cq'[p] = cq[p] /\ recvs'[p] = recvs[p]
    BY <1>1, <1>2, <1>3, <1>4, <1>6
  <1>8. /\ \A k : Bit(m \in Mail(k)) = one(k) /\ Bit(c \in Got(k)) = one(k)
        /\ \A k : one(k) \in Nat
        /\ Bit(c \in Errors) = 0 /\ Bit(c \in Ends) = 0
    BY <1>3, <1>5, MailMembers, CompMembers DEF Bit
  <1>9. one("start") + one("regular") + one("stop") = 1
    BY <1>5 DEF Bit, Kinds
  <1> HIDE DEF one
  <1>10. \A k : /\ Wired(p, k) = Wired(p, k)' + one(k) /\ Wired(p, k)' \in Nat
    BY <1>3, <1>7, <1>8 DEF Wired
  <1>11. ASSUME NEW k PROVE Received(q, k)' = Received(q, k) + one(k) /\ Received(q, k) \in Nat
    <2>1. Count(cq'[q], Got(k)) = Count(cq[q], Got(k)) + one(k)
      BY <1>6, <1>7, <1>8
    <2>2. Count(wc'[q], Got(k)) = Count(wc[q], Got(k))
      BY <1>1
    <2>3. one(k) \in Nat /\ Count(cq[q], Got(k)) \in Nat /\ Count(wc[q], Got(k)) \in Nat
      BY <1>1, <1>8, MoreNumbers
    <2>4. /\ Received(q, k)' = Count(cq'[q], Got(k)) + Count(wc'[q], Got(k))
          /\ Received(q, k) = Count(cq[q], Got(k)) + Count(wc[q], Got(k))
      BY DEF Received
    <2> QED BY <2>1, <2>2, <2>3, <2>4
  <1>12. \A k : Under(p, k)' = Under(p, k)
    <2> SUFFICES ASSUME NEW k PROVE Under(p, k)' = Under(p, k)
      OBVIOUS
    <2>1. /\ Under(p, k) = Wired(p, k) + Received(q, k)
          /\ Under(p, k)' = Wired(p, k)' + Received(q, k)'
      BY <1>1 DEF Under
    <2> QED BY <1>8, <1>10, <1>11, <2>1
  <1>13. Held(q)' = Held(q) + 1
    <2>1. /\ Held(q) = Received(q, "start") + Received(q, "regular") + Received(q, "stop")
          /\ Held(q)' = Received(q, "start")' + Received(q, "regular")' + Received(q, "stop")'
      BY DEF Held
    <2> QED BY <1>8, <1>9, <1>11, <2>1
  <1>14. Errs(q)' = Errs(q) /\ Pending(q)' = Pending(q)
    <2>1. Count(cq[q], Errors) \in Nat /\ Count(cq[q], Ends) \in Nat
      BY <1>1, MoreNumbers
    <2>2. /\ Count(cq'[q], Errors) = Count(cq[q], Errors)
          /\ Count(cq'[q], Ends) = Count(cq[q], Ends)
      BY <1>6, <1>7, <1>8, <2>1
    <2> QED BY <1>1, <2>2 DEF Errs, Pending
  <1> QED BY <1>3, <1>4, <1>6, <1>7, <1>12, <1>13, <1>14

\* A send is completed, in order or not.
LEMMA CompletesDoes ==
  ASSUME FlowType, NEW p \in Peers, NEW c \in Comps, c.op \in {"send", "error"},
         cq' = [cq EXCEPT ![p] = Append(@, c)], UNCHANGED wc
  PROVE  /\ cq' \in [Peers -> Seq(Comps)] /\ \A q \in Peers : q # p => cq'[q] = cq[q]
         /\ Len(cq'[p]) = Len(cq[p]) + 1
         /\ \A k : Received(p, k)' = Received(p, k)
         /\ Errs(p)' = Errs(p) + Bit(c.op = "error")
         /\ Count(cq'[p], Ends)
              = Count(cq[p], Ends) + Bit(c.op = "error" \/ (c.op = "send" /\ c.kind = "stop"))
  <1>1. cq \in [Peers -> Seq(Comps)] /\ cq[p] \in Seq(Comps)
    BY DEF FlowType
  <1>2. /\ Append(cq[p], c) \in Seq(Comps) /\ Len(Append(cq[p], c)) = Len(cq[p]) + 1
        /\ \A S : Count(Append(cq[p], c), S) = Count(cq[p], S) + Bit(c \in S)
    BY <1>1, CountAppend
  <1>3. /\ cq'[p] = Append(cq[p], c) /\ cq' \in [Peers -> Seq(Comps)]
        /\ \A q \in Peers : q # p => cq'[q] = cq[q]
    BY <1>1, <1>2
  <1>4. /\ \A k : Bit(c \in Got(k)) = 0
        /\ Bit(c \in Errors) = Bit(c.op = "error")
        /\ Bit(c \in Ends) = Bit(c.op = "error" \/ (c.op = "send" /\ c.kind = "stop"))
        /\ Bit(c.op = "error") \in Nat
    BY CompMembers DEF Bit
  <1>5. \A S : Count(cq[p], S) \in Nat /\ Count(wc[p], S) \in Nat
    BY MoreNumbers
  <1>6. \A k : Received(p, k)' = Received(p, k)
    <2>1. \A k : Count(cq'[p], Got(k)) = Count(cq[p], Got(k))
      BY <1>2, <1>3, <1>4, <1>5
    <2> QED BY <2>1 DEF Received
  <1>7. Errs(p)' = Errs(p) + Bit(c.op = "error")
    <2>1. Count(cq'[p], Errors) = Count(cq[p], Errors) + Bit(c.op = "error")
      BY <1>2, <1>3, <1>4
    <2> QED BY <1>4, <1>5, <2>1 DEF Errs
  <1> QED BY <1>2, <1>3, <1>4, <1>6, <1>7

LEMMA AcknowledgeDoes ==
  ASSUME FlowType, NEW p \in Peers, Acknowledge(p)
  PROVE  /\ unacked' \in [Peers -> Seq(Mails)]
         /\ cq' \in [Peers -> Seq(Comps)] /\ \A q \in Peers : q # p => cq'[q] = cq[q]
         /\ \A q \in Peers : q # p => unacked'[q] = unacked[q]
         /\ Len(unacked'[p]) = Len(unacked[p]) - 1 /\ Len(cq'[p]) = Len(cq[p]) + 1
         /\ \A k : Received(p, k)' = Received(p, k)
         /\ Errs(p)' = Errs(p) /\ Pending(p)' = Pending(p)
  <1> DEFINE m == Head(unacked[p])
             c == Completion("send", Head(unacked[p]))
  <1>1. /\ Len(unacked[p]) > Len(wire[p]) /\ unacked' = [unacked EXCEPT ![p] = Tail(@)]
        /\ cq' = [cq EXCEPT ![p] = Append(@, c)] /\ wc' = wc
        /\ unacked \in [Peers -> Seq(Mails)] /\ unacked[p] \in Seq(Mails)
    BY DEF Acknowledge, FlowType
  <1>2. unacked[p] # << >>
    <2>1. Len(wire[p]) \in Nat /\ Len(<< >>) = 0
      BY FlowNumbers
    <2> QED BY <1>1, <2>1
  <1>3. /\ m \in Mails /\ Tail(unacked[p]) \in Seq(Mails)
        /\ Len(Tail(unacked[p])) = Len(unacked[p]) - 1
        /\ \A S : Count(unacked[p], S) = Count(Tail(unacked[p]), S) + Bit(m \in S)
        /\ \A S : Count(Tail(unacked[p]), S) \in Nat
    BY <1>1, <1>2, CountTail, CountIsNat
  <1>4. c \in Comps /\ c.op = "send" /\ c.kind = m.kind
    BY <1>3, CompletionMembers
  <1> HIDE DEF m, c
  <1>5. /\ unacked'[p] = Tail(unacked[p]) /\ unacked' \in [Peers -> Seq(Mails)]
        /\ \A q \in Peers : q # p => unacked'[q] = unacked[q]
    BY <1>1, <1>3
  <1>6. /\ cq' \in [Peers -> Seq(Comps)] /\ \A q \in Peers : q # p => cq'[q] = cq[q]
        /\ Len(cq'[p]) = Len(cq[p]) + 1
        /\ \A k : Received(p, k)' = Received(p, k)
        /\ Errs(p)' = Errs(p) + Bit(c.op = "error")
        /\ Count(cq'[p], Ends)
             = Count(cq[p], Ends) + Bit(c.op = "error" \/ (c.op = "send" /\ c.kind = "stop"))
    BY <1>1, <1>4, CompletesDoes
  <1>7. /\ Bit(c.op = "error") = 0 /\ Bit(m \in Mail("stop")) = Bit(m.kind = "stop")
        /\ Bit(c.op = "error" \/ (c.op = "send" /\ c.kind = "stop")) = Bit(m.kind = "stop")
        /\ Bit(m.kind = "stop") \in Nat
    BY <1>3, <1>4, MailMembers DEF Bit
  <1>8. Errs(p)' = Errs(p)
    BY <1>6, <1>7, MoreNumbers
  <1>9. Pending(p)' = Pending(p)
    <2>1. Count(unacked[p], Mail("stop")) = Count(unacked'[p], Mail("stop")) + Bit(m.kind = "stop")
          /\ Count(unacked'[p], Mail("stop")) \in Nat
      BY <1>3, <1>5, <1>7
    <2>2. Count(cq'[p], Ends) = Count(cq[p], Ends) + Bit(m.kind = "stop")
      BY <1>6, <1>7
    <2>3. Count(cq[p], Ends) \in Nat /\ Count(wc[p], Ends) \in Nat /\ wc' = wc
      BY <1>1, MoreNumbers
    <2> QED BY <1>7, <2>1, <2>2, <2>3 DEF Pending
  <1> QED BY <1>3, <1>5, <1>6, <1>8, <1>9

LEMMA GiveUpDoes ==
  ASSUME FlowType, NEW p \in Peers, GiveUp(p)
  PROVE  /\ wire' \in [Peers -> Seq(Mails)] /\ unacked' \in [Peers -> Seq(Mails)]
         /\ cq' \in [Peers -> Seq(Comps)] /\ \A q \in Peers : q # p => cq'[q] = cq[q]
         /\ \A q \in Peers : q # p => wire'[q] = wire[q] /\ unacked'[q] = unacked[q]
         /\ Len(wire'[p]) = 0 /\ Len(unacked'[p]) = 0 /\ Len(unacked[p]) >= 1
         /\ Len(cq'[p]) = Len(cq[p]) + 1
         /\ \A k : Wired(p, k)' = 0 /\ Received(p, k)' = Received(p, k)
         /\ Errs(p)' = Errs(p) + 1 /\ Pending(p)' >= 1
  <1> DEFINE m == Head(unacked[p])
             c == Completion("error", Head(unacked[p]))
  <1>1. /\ unacked[p] # << >>
        /\ wire' = [wire EXCEPT ![p] = << >>] /\ unacked' = [unacked EXCEPT ![p] = << >>]
        /\ cq' = [cq EXCEPT ![p] = Append(@, c)] /\ wc' = wc
        /\ unacked \in [Peers -> Seq(Mails)] /\ unacked[p] \in Seq(Mails)
        /\ wire \in [Peers -> Seq(Mails)]
    BY DEF GiveUp, FlowType
  <1>2. m \in Mails /\ Len(unacked[p]) >= 1
    BY <1>1, CountTail, EmptySeq
  <1>3. c \in Comps /\ c.op = "error"
    BY <1>2, CompletionMembers
  <1> HIDE DEF m, c
  <1>4. /\ wire' \in [Peers -> Seq(Mails)] /\ unacked' \in [Peers -> Seq(Mails)]
        /\ wire'[p] = << >> /\ unacked'[p] = << >>
        /\ \A q \in Peers : q # p => wire'[q] = wire[q] /\ unacked'[q] = unacked[q]
    BY <1>1, EmptySeq
  <1>5. /\ cq' \in [Peers -> Seq(Comps)] /\ \A q \in Peers : q # p => cq'[q] = cq[q]
        /\ Len(cq'[p]) = Len(cq[p]) + 1
        /\ \A k : Received(p, k)' = Received(p, k)
        /\ Errs(p)' = Errs(p) + Bit(c.op = "error")
        /\ Count(cq'[p], Ends)
             = Count(cq[p], Ends) + Bit(c.op = "error" \/ (c.op = "send" /\ c.kind = "stop"))
    BY <1>1, <1>3, CompletesDoes
  <1>6. /\ Bit(c.op = "error") = 1
        /\ Bit(c.op = "error" \/ (c.op = "send" /\ c.kind = "stop")) = 1
    BY <1>3 DEF Bit
  <1>7. \A k : Wired(p, k)' = 0
    BY <1>4, CountNone DEF Wired
  <1>8. Pending(p)' >= 1
    <2>1. Count(unacked'[p], Mail("stop")) = 0
      BY <1>4, CountNone
    <2>2. Count(cq'[p], Ends) = Count(cq[p], Ends) + 1
      BY <1>5, <1>6
    <2>3. Count(cq[p], Ends) \in Nat /\ Count(wc[p], Ends) \in Nat /\ wc' = wc
      BY <1>1, MoreNumbers
    <2> QED BY <2>1, <2>2, <2>3 DEF Pending
  <1> QED BY <1>2, <1>4, <1>5, <1>6, <1>7, <1>8, EmptySeq

-----------------------------------------------------------------------------

UnderNumbers ==
  /\ UnderFrom("server") = Len(wire["server"]) + Held("client")
  /\ UnderFrom("client") = Len(wire["client"]) + Held("server")
  /\ AllUnder = UnderFrom("server") + UnderFrom("client") /\ AllUnder \in Nat
  /\ \A p \in Peers : /\ Len(wire[p]) \in Nat /\ Held(p) \in Nat
                      /\ Len(recvs[p]) \in Nat /\ Len(unacked[p]) \in Nat
                      /\ UnderFrom(p) \in Nat
                      /\ \A k : Under(p, k) \in Nat /\ Received(p, k) \in Nat
                               /\ Wired(p, k) \in Nat

LEMMA UnderCounts == FlowType => UnderNumbers
  <1> SUFFICES ASSUME FlowType PROVE UnderNumbers
    OBVIOUS
  <1>1. \A p \in Peers :
          /\ \A k : Wired(p, k) \in Nat /\ Received(p, k) \in Nat
          /\ Len(wire[p]) = Wired(p, "start") + Wired(p, "regular") + Wired(p, "stop")
          /\ Len(wire[p]) \in Nat /\ Len(recvs[p]) \in Nat /\ Len(unacked[p]) \in Nat
    BY FlowNumbers
  <1>2. ASSUME NEW p \in Peers, NEW q \in Peers, q = Other(p)
        PROVE  /\ UnderFrom(p) = Len(wire[p]) + Held(q) /\ Held(q) \in Nat /\ UnderFrom(p) \in Nat
               /\ \A k : Under(p, k) \in Nat
    <2>1. /\ Under(p, "start") = Wired(p, "start") + Received(q, "start")
          /\ Under(p, "regular") = Wired(p, "regular") + Received(q, "regular")
          /\ Under(p, "stop") = Wired(p, "stop") + Received(q, "stop")
      BY <1>2 DEF Under
    <2>2. Held(q) = Received(q, "start") + Received(q, "regular") + Received(q, "stop")
      BY DEF Held
    <2>3. UnderFrom(p) = Under(p, "start") + Under(p, "regular") + Under(p, "stop")
      BY DEF UnderFrom
    <2>4. \A k : Wired(p, k) \in Nat /\ Received(q, k) \in Nat
      BY <1>1, <1>2
    <2>5. Len(wire[p]) = Wired(p, "start") + Wired(p, "regular") + Wired(p, "stop")
      BY <1>1
    <2>6. \A k : Under(p, k) \in Nat
      BY <1>2, <2>4 DEF Under
    <2>7. /\ Wired(p, "start") \in Nat /\ Wired(p, "regular") \in Nat /\ Wired(p, "stop") \in Nat
          /\ Received(q, "start") \in Nat /\ Received(q, "regular") \in Nat
          /\ Received(q, "stop") \in Nat
      BY <2>4
    <2>8. Held(q) \in Nat
      BY <2>2, <2>7
    <2>9. UnderFrom(p) = Len(wire[p]) + Held(q) /\ UnderFrom(p) \in Nat
      BY <2>1, <2>2, <2>3, <2>5, <2>7
    <2> QED BY <2>6, <2>8, <2>9
  <1>3. /\ "server" \in Peers /\ "client" \in Peers
        /\ Other("server") = "client" /\ Other("client") = "server"
    BY DEF Peers, Other
  <1>4. \A p \in Peers : Held(p) \in Nat /\ UnderFrom(p) \in Nat /\ \A k : Under(p, k) \in Nat
    BY <1>2, OtherPeer
  <1>5. /\ UnderFrom("server") = Len(wire["server"]) + Held("client")
        /\ UnderFrom("client") = Len(wire["client"]) + Held("server")
    BY <1>2, <1>3
  <1>6. AllUnder = UnderFrom("server") + UnderFrom("client") /\ AllUnder \in Nat
    <2>1. UnderFrom("server") \in Nat /\ UnderFrom("client") \in Nat
      BY <1>3, <1>4
    <2>2. AllUnder = UnderFrom("server") + UnderFrom("client")
      BY DEF AllUnder
    <2> QED BY <2>1, <2>2
  <1> QED BY <1>1, <1>4, <1>5, <1>6 DEF UnderNumbers

LEMMA UnderCountsNext == FlowType' => UnderNumbers'
  BY UnderCounts, PTL

PeersInFlow ==
  /\ \A p \in Peers : peer'[p] \in Before => peer[p] \in Before
  /\ peer'["client"] \in {"send", "echo", "stop", "done"} =>
       peer["client"] \in {"send", "echo", "stop", "done"}
  /\ peer'["client"] \in Before \cup {"wait", "send"} => peer["client"] \in Before \cup {"wait", "send"}
  /\ peer'["client"] = "send" => peer["client"] = "send"

LEMMA FlowKept ==
  ASSUME FlowInv, FlowType', \A p \in Peers : FlowOf(p)', PeersInFlow, refused' = refused,
         AllUnder' <= AllUnder, UnderFrom("client")' <= UnderFrom("client")
  PROVE  FlowInv'
  <1>1. /\ AllUnder \in Nat /\ AllUnder' \in Nat
        /\ UnderFrom("client") \in Nat /\ UnderFrom("client")' \in Nat
    <2>1. UnderNumbers /\ UnderNumbers'
      BY UnderCounts, UnderCountsNext DEF FlowInv
    <2>2. /\ UnderFrom("client") \in Nat /\ UnderFrom("server") \in Nat
          /\ AllUnder = UnderFrom("server") + UnderFrom("client")
      BY <2>1 DEF UnderNumbers, Peers
    <2>3. /\ UnderFrom("client")' \in Nat /\ UnderFrom("server")' \in Nat
          /\ AllUnder' = UnderFrom("server")' + UnderFrom("client")'
      BY <2>1 DEF UnderNumbers, Peers
    <2> QED BY <2>2, <2>3
  <1>2. /\ AllUnder = 0 => AllUnder' = 0
        /\ UnderFrom("client") = 0 => UnderFrom("client")' = 0
        /\ AllUnder <= 1 => AllUnder' <= 1
    BY <1>1
  <1>3. FlowStarts'
    BY <1>2 DEF FlowInv, FlowStarts, PeersInFlow, Peers
  <1>4. OneUnder'
    BY <1>2 DEF FlowInv, OneUnder
  <1> QED BY <1>3, <1>4 DEF FlowInv

\* The steps that post nothing and handle nothing.
LEMMA FlowSame ==
  ASSUME FlowInv, peer' \in [Peers -> HandshakeSteps], PeersInFlow, UNCHANGED queueVars
  PROVE  FlowInv'
  <1>1. FlowType'
    BY DEF FlowInv, FlowType, queueVars
  <1>2. \A p \in Peers : UNCHANGED Queues(p)
    BY DEF Queues, queueVars
  <1>3. \A p \in Peers : FlowOf(p)'
    BY <1>2, Untouched DEF FlowInv, FlowOf, PeersInFlow
  <1>4. UnderNumbers /\ UnderNumbers'
    BY <1>1, UnderCounts, UnderCountsNext DEF FlowInv
  <1>5. /\ Held("server")' = Held("server") /\ Held("client")' = Held("client") /\ wire' = wire
    BY <1>2, Untouched DEF Peers, queueVars
  <1>6. UnderFrom("server")' = UnderFrom("server") /\ UnderFrom("client")' = UnderFrom("client")
        /\ AllUnder' = AllUnder
    BY <1>4, <1>5 DEF UnderNumbers
  <1>7. UnderFrom("client") \in Nat /\ AllUnder \in Nat
    BY <1>4 DEF UnderNumbers, Peers
  <1> QED BY <1>1, <1>3, <1>6, <1>7, FlowKept DEF queueVars

LEMMA HandshakeFlow == FlowInv /\ (connect_qp_server \/ connect_qp_client) => FlowInv'
  <1> SUFFICES ASSUME FlowInv, connect_qp_server \/ connect_qp_client PROVE FlowInv'
    OBVIOUS
  <1>1. UNCHANGED queueVars
    BY DEF connect_qp_server, connect_qp_client, Bind, Accept, Connect, SockRead, SockWrite,
           modify_qp_to_rts
  <1>2. PICK p \in Peers, next \in Before \cup {"failed"} :
          peer[p] \in Before /\ Goto(p, next)
    BY DEF connect_qp_server, connect_qp_client, Bind, Accept, Connect, SockRead, SockWrite,
           modify_qp_to_rts, Peers, Before
  <1>3. peer \in [Peers -> HandshakeSteps] /\ peer'[p] = next
        /\ \A q \in Peers : q # p => peer'[q] = peer[q]
    BY <1>2 DEF FlowInv, FlowType, Goto
  <1>4. peer' \in [Peers -> HandshakeSteps]
    BY <1>2 DEF FlowInv, FlowType, Goto, Before, HandshakeSteps, Workload
  <1>5. PeersInFlow
    BY <1>2, <1>3 DEF PeersInFlow, Before, Peers
  <1> QED BY <1>1, <1>4, <1>5, FlowSame

LEMMA ThreadFailsFlow == ASSUME FlowInv, NEW p \in Peers, ThreadFails(p) PROVE FlowInv'
  <1>1. UNCHANGED queueVars /\ Goto(p, "failed")
    BY DEF ThreadFails
  <1>2. peer \in [Peers -> HandshakeSteps] /\ peer'[p] = "failed"
        /\ (\A q \in Peers : q # p => peer'[q] = peer[q])
        /\ peer' \in [Peers -> HandshakeSteps]
    BY <1>1 DEF FlowInv, FlowType, Goto, HandshakeSteps
  <1>3. PeersInFlow
    BY <1>2 DEF PeersInFlow, Before, Peers
  <1> QED BY <1>1, <1>2, <1>3, FlowSame

LEMMA FlowStays == FlowInv /\ UNCHANGED <<peer, queueVars>> => FlowInv'
  <1> SUFFICES ASSUME FlowInv, UNCHANGED <<peer, queueVars>> PROVE FlowInv'
    OBVIOUS
  <1>1. PeersInFlow /\ peer' \in [Peers -> HandshakeSteps]
    BY DEF PeersInFlow, FlowInv, FlowType
  <1> QED BY <1>1, FlowSame

LEMMA PollFlow == ASSUME FlowInv, NEW p \in Peers, PollCq(p) PROVE FlowInv'
  <1>1. FlowType /\ UnderNumbers
    BY UnderCounts DEF FlowInv
  <1>2. UNCHANGED <<peer, wire, recvs, unacked, walk, refused>>
    BY DEF PollCq
  <1>3. /\ cq' \in [Peers -> Seq(Comps)] /\ wc' \in [Peers -> Seq(Comps)]
        /\ \A q \in Peers : q # p => cq'[q] = cq[q] /\ wc'[q] = wc[q]
        /\ \A k : Received(p, k)' = Received(p, k)
    BY <1>1, PollDoes
  <1>4. FlowType'
    BY <1>1, <1>2, <1>3 DEF FlowType
  <1>5. \A q \in Peers : Held(q)' = Held(q)
    <2>1. Held(p)' = Held(p)
      BY <1>3 DEF Held
    <2>2. \A q \in Peers : q # p => UNCHANGED Queues(q)
      BY <1>2, <1>3 DEF Queues
    <2> QED BY <2>1, <2>2, Untouched
  <1>6. \A q \in Peers : FlowOf(q)'
    BY <1>2, <1>5 DEF FlowInv, FlowOf
  <1>7. UnderNumbers'
    BY <1>4, UnderCountsNext
  <1>8. UnderFrom("client")' = UnderFrom("client") /\ AllUnder' = AllUnder
    BY <1>1, <1>2, <1>5, <1>7 DEF UnderNumbers, Peers
  <1>9. AllUnder \in Nat /\ UnderFrom("client") \in Nat
    BY <1>1 DEF UnderNumbers, Peers
  <1> QED BY <1>2, <1>4, <1>6, <1>8, <1>9, FlowKept DEF PeersInFlow

LEMMA DeliverFlow == ASSUME FlowInv, NEW p \in Peers, Deliver(p) PROVE FlowInv'
  <1> DEFINE q == Other(p)
  <1>1. FlowType /\ UnderNumbers /\ q \in Peers /\ q # p /\ \A r \in Peers : r = p \/ r = q
    BY UnderCounts, OtherPeer DEF FlowInv
  <1>2. UNCHANGED <<peer, unacked, wc, walk, refused>>
    BY DEF Deliver
  <1>3. /\ wire' \in [Peers -> Seq(Mails)] /\ cq' \in [Peers -> Seq(Comps)]
        /\ recvs' \in [Peers -> Seq({0})]
        /\ wire'[q] = wire[q] /\ cq'[p] = cq[p] /\ recvs'[p] = recvs[p]
        /\ Len(wire'[p]) = Len(wire[p]) - 1 /\ Len(recvs'[q]) = Len(recvs[q]) - 1
        /\ Held(q)' = Held(q) + 1
    BY <1>1, DeliverDoes
  <1> HIDE DEF q
  <1>4. FlowType'
    BY <1>1, <1>2, <1>3 DEF FlowType
  <1>5. Held(p)' = Held(p)
    BY <1>2, <1>3 DEF Held, Received
  <1>6. /\ FlowOf(p) /\ FlowOf(q)
        /\ Len(wire[p]) \in Nat /\ Len(unacked[p]) \in Nat /\ Len(recvs[q]) \in Nat
        /\ Held(q) \in Nat
    BY <1>1 DEF FlowInv, UnderNumbers
  <1>7. FlowOf(p)'
    BY <1>2, <1>3, <1>5, <1>6 DEF FlowOf
  <1>8. FlowOf(q)'
    BY <1>2, <1>3, <1>6 DEF FlowOf
  <1>9. UnderNumbers'
    BY <1>4, UnderCountsNext
  <1>10. /\ UnderFrom("client")' = UnderFrom("client") /\ UnderFrom("server")' = UnderFrom("server")
    <2>1. UnderFrom(p)' = UnderFrom(p)
      <3>1. \A k : Under(p, k)' = Under(p, k)
        BY <1>1, DeliverDoes DEF q
      <3> QED BY <3>1 DEF UnderFrom
    <2>2. UnderFrom(q)' = UnderFrom(q)
      <3>1. \A k : Wired(q, k)' = Wired(q, k) /\ Received(p, k)' = Received(p, k)
        BY <1>2, <1>3 DEF Wired, Received
      <3>2. Other(q) = p
        BY OtherPeer DEF q
      <3> QED BY <3>1, <3>2 DEF UnderFrom, Under
    <2> QED BY <1>1, <2>1, <2>2 DEF Peers
  <1>11. AllUnder' = AllUnder
    BY <1>10 DEF AllUnder
  <1>12. AllUnder \in Nat /\ UnderFrom("client") \in Nat
    BY <1>1 DEF UnderNumbers, Peers
  <1>13. \A r \in Peers : FlowOf(r)'
    BY <1>1, <1>7, <1>8
  <1> QED BY <1>2, <1>4, <1>10, <1>11, <1>12, <1>13, FlowKept DEF PeersInFlow

LEMMA AcknowledgeFlow == ASSUME FlowInv, NEW p \in Peers, Acknowledge(p) PROVE FlowInv'
  <1>1. FlowType /\ UnderNumbers
    BY UnderCounts DEF FlowInv
  <1>2. UNCHANGED <<peer, wire, recvs, wc, walk, refused>> /\ Len(unacked[p]) > Len(wire[p])
    BY DEF Acknowledge
  <1>3. /\ unacked' \in [Peers -> Seq(Mails)]
        /\ cq' \in [Peers -> Seq(Comps)] /\ \A q \in Peers : q # p => cq'[q] = cq[q]
        /\ \A q \in Peers : q # p => unacked'[q] = unacked[q]
        /\ Len(unacked'[p]) = Len(unacked[p]) - 1
        /\ \A k : Received(p, k)' = Received(p, k)
    BY <1>1, AcknowledgeDoes
  <1>4. FlowType'
    BY <1>1, <1>2, <1>3 DEF FlowType
  <1>5. \A q \in Peers : Held(q)' = Held(q)
    <2>1. Held(p)' = Held(p)
      BY <1>3 DEF Held
    <2>2. \A q \in Peers : q # p => UNCHANGED Queues(q)
      BY <1>2, <1>3 DEF Queues
    <2> QED BY <2>1, <2>2, Untouched
  <1>6. \A q \in Peers : Len(wire[q]) <= Len(unacked'[q])
    <2>1. Len(wire[p]) \in Nat /\ Len(unacked[p]) \in Nat
      BY <1>1 DEF UnderNumbers
    <2>2. Len(wire[p]) <= Len(unacked'[p])
      BY <1>2, <1>3, <2>1
    <2> QED BY <1>3, <2>2 DEF FlowInv, FlowOf
  <1>7. \A q \in Peers : FlowOf(q)'
    BY <1>2, <1>5, <1>6 DEF FlowInv, FlowOf
  <1>8. UnderNumbers'
    BY <1>4, UnderCountsNext
  <1>9. UnderFrom("client")' = UnderFrom("client") /\ AllUnder' = AllUnder
    BY <1>1, <1>2, <1>5, <1>8 DEF UnderNumbers, Peers
  <1>10. AllUnder \in Nat /\ UnderFrom("client") \in Nat
    BY <1>1 DEF UnderNumbers, Peers
  <1> QED BY <1>2, <1>4, <1>7, <1>9, <1>10, FlowKept DEF PeersInFlow

LEMMA GiveUpFlow == ASSUME FlowInv, NEW p \in Peers, GiveUp(p) PROVE FlowInv'
  <1>1. FlowType /\ UnderNumbers
    BY UnderCounts DEF FlowInv
  <1>2. UNCHANGED <<peer, recvs, wc, walk, refused>>
    BY DEF GiveUp
  <1>3. /\ wire' \in [Peers -> Seq(Mails)] /\ unacked' \in [Peers -> Seq(Mails)]
        /\ cq' \in [Peers -> Seq(Comps)] /\ \A q \in Peers : q # p => cq'[q] = cq[q]
        /\ \A q \in Peers : q # p => wire'[q] = wire[q] /\ unacked'[q] = unacked[q]
        /\ Len(wire'[p]) = 0 /\ Len(unacked'[p]) = 0
        /\ \A k : Received(p, k)' = Received(p, k)
    BY <1>1, GiveUpDoes
  <1>4. FlowType'
    BY <1>1, <1>2, <1>3 DEF FlowType
  <1>5. \A q \in Peers : Held(q)' = Held(q)
    <2>1. Held(p)' = Held(p)
      BY <1>3 DEF Held
    <2>2. \A q \in Peers : q # p => UNCHANGED Queues(q)
      BY <1>2, <1>3 DEF Queues
    <2> QED BY <2>1, <2>2, Untouched
  <1>6. \A q \in Peers : Len(wire'[q]) <= Len(unacked'[q]) /\ Len(wire'[q]) <= Len(wire[q])
    <2> SUFFICES ASSUME NEW q \in Peers
                 PROVE  Len(wire'[q]) <= Len(unacked'[q]) /\ Len(wire'[q]) <= Len(wire[q])
      OBVIOUS
    <2>1. Len(wire[q]) \in Nat /\ Len(wire[q]) <= Len(unacked[q])
      BY <1>1 DEF FlowInv, FlowOf, UnderNumbers
    <2>2. CASE q = p
      BY <1>3, <2>1, <2>2
    <2>3. CASE q # p
      BY <1>3, <2>1, <2>3
    <2> QED BY <2>2, <2>3
  <1>7. \A q \in Peers : FlowOf(q)'
    BY <1>2, <1>5, <1>6 DEF FlowInv, FlowOf
  <1>8. UnderNumbers'
    BY <1>4, UnderCountsNext
  <1>9. UnderFrom("client")' <= UnderFrom("client") /\ AllUnder' <= AllUnder
    <2>1. "server" \in Peers /\ "client" \in Peers
      BY DEF Peers
    <2>2. /\ UnderFrom("server") = Len(wire["server"]) + Held("client")
          /\ UnderFrom("client") = Len(wire["client"]) + Held("server")
          /\ AllUnder = UnderFrom("server") + UnderFrom("client")
          /\ Len(wire["server"]) \in Nat /\ Len(wire["client"]) \in Nat
          /\ Held("server") \in Nat /\ Held("client") \in Nat
      BY <1>1, <2>1 DEF UnderNumbers
    <2>3. /\ UnderFrom("server")' = Len(wire'["server"]) + Held("client")
          /\ UnderFrom("client")' = Len(wire'["client"]) + Held("server")
          /\ AllUnder' = UnderFrom("server")' + UnderFrom("client")'
          /\ Len(wire'["server"]) \in Nat /\ Len(wire'["client"]) \in Nat
      BY <1>5, <1>8, <2>1 DEF UnderNumbers
    <2>4. Len(wire'["server"]) <= Len(wire["server"]) /\ Len(wire'["client"]) <= Len(wire["client"])
      BY <1>6, <2>1
    <2>5. UnderFrom("client")' <= UnderFrom("client")
      BY <2>2, <2>3, <2>4
    <2>6. UnderFrom("server")' <= UnderFrom("server")
      BY <2>2, <2>3, <2>4
    <2>7. /\ UnderFrom("client") \in Nat /\ UnderFrom("server") \in Nat
          /\ UnderFrom("client")' \in Nat /\ UnderFrom("server")' \in Nat
      BY <1>1, <1>8, <2>1 DEF UnderNumbers
    <2> QED BY <2>2, <2>3, <2>5, <2>6, <2>7
  <1> QED BY <1>2, <1>4, <1>7, <1>9, FlowKept DEF PeersInFlow

-----------------------------------------------------------------------------
\* Completions without a message are handled, or left.
LEMMA FlowTaken ==
  ASSUME FlowInv, NEW p \in Peers, UNCHANGED <<wire, recvs, unacked, cq, walk, refused>>,
         wc' \in [Peers -> Seq(Comps)], \A q \in Peers : q # p => wc'[q] = wc[q],
         \A k : Received(p, k) >= Received(p, k)', \A k : Received(p, k)' \in Nat,
         peer' \in [Peers -> HandshakeSteps], PeersInFlow
  PROVE  FlowInv'
  <1>1. FlowType /\ UnderNumbers
    BY UnderCounts DEF FlowInv
  <1>2. FlowType'
    BY <1>1 DEF FlowType
  <1>3. UnderNumbers'
    BY <1>2, UnderCountsNext
  <1>4. Held(p)' <= Held(p)
    <2>1. /\ Received(p, "start")' \in Nat /\ Received(p, "start") \in Nat
          /\ Received(p, "regular")' \in Nat /\ Received(p, "regular") \in Nat
          /\ Received(p, "stop")' \in Nat /\ Received(p, "stop") \in Nat
      BY <1>1 DEF UnderNumbers
    <2>2. /\ Received(p, "start")' <= Received(p, "start")
          /\ Received(p, "regular")' <= Received(p, "regular")
          /\ Received(p, "stop")' <= Received(p, "stop")
      BY <2>1
    <2>3. /\ Held(p) = Received(p, "start") + Received(p, "regular") + Received(p, "stop")
          /\ Held(p)' = Received(p, "start")' + Received(p, "regular")' + Received(p, "stop")'
      BY DEF Held
    <2> QED BY <2>1, <2>2, <2>3
  <1>5. \A q \in Peers : Held(q)' <= Held(q) /\ Held(q) \in Nat /\ Held(q)' \in Nat
                         /\ Len(recvs[q]) \in Nat /\ Len(wire[q]) \in Nat
    <2>1. \A q \in Peers : q # p => UNCHANGED Queues(q)
      BY DEF Queues
    <2>2. \A q \in Peers : q # p => Held(q)' = Held(q)
      BY <2>1, Untouched
    <2>3. \A q \in Peers : Held(q) \in Nat /\ Held(q)' \in Nat
                           /\ Len(recvs[q]) \in Nat /\ Len(wire[q]) \in Nat
      BY <1>1, <1>3 DEF UnderNumbers
    <2>4. \A q \in Peers : Held(q)' <= Held(q)
      <3> SUFFICES ASSUME NEW q \in Peers PROVE Held(q)' <= Held(q)
        OBVIOUS
      <3>1. CASE q = p
        BY <1>4, <3>1
      <3>2. CASE q # p
        BY <2>2, <2>3, <3>2
      <3> QED BY <3>1, <3>2
    <2> QED BY <2>3, <2>4
  <1>6. \A q \in Peers : FlowOf(q)'
    <2> SUFFICES ASSUME NEW q \in Peers PROVE FlowOf(q)'
      OBVIOUS
    <2>1. FlowOf(q) /\ recvs' = recvs /\ wire' = wire /\ unacked' = unacked
      BY DEF FlowInv
    <2>2. /\ Len(recvs'[q]) + Held(q)' <= Len(recvs[q]) + Held(q)
          /\ Len(recvs[q]) + Held(q) \in Nat /\ Len(recvs'[q]) + Held(q)' \in Nat
      BY <1>5, <2>1
    <2>3. Len(recvs'[q]) + Held(q)' <= 1
      BY <2>1, <2>2 DEF FlowOf
    <2>4. peer'[q] \in Before => Len(recvs'[q]) + Held(q)' = 0
      BY <2>1, <2>2 DEF FlowOf, PeersInFlow
    <2> QED BY <2>1, <2>3, <2>4 DEF FlowOf
  <1>7. /\ UnderFrom("client")' <= UnderFrom("client") /\ UnderFrom("server")' <= UnderFrom("server")
        /\ UnderFrom("client") \in Nat /\ UnderFrom("server") \in Nat
        /\ UnderFrom("client")' \in Nat /\ UnderFrom("server")' \in Nat
    <2>1. "server" \in Peers /\ "client" \in Peers
      BY DEF Peers
    <2>2. /\ UnderFrom("server") = Len(wire["server"]) + Held("client")
          /\ UnderFrom("client") = Len(wire["client"]) + Held("server")
      BY <1>1 DEF UnderNumbers
    <2>3. /\ UnderFrom("server")' = Len(wire["server"]) + Held("client")'
          /\ UnderFrom("client")' = Len(wire["client"]) + Held("server")'
      BY <1>3 DEF UnderNumbers
    <2>4. /\ Held("server")' <= Held("server") /\ Held("client")' <= Held("client")
          /\ Held("server") \in Nat /\ Held("client") \in Nat
          /\ Held("server")' \in Nat /\ Held("client")' \in Nat
          /\ Len(wire["server"]) \in Nat /\ Len(wire["client"]) \in Nat
      BY <1>5, <2>1
    <2> HIDE DEF Held
    <2>5. UnderFrom("client")' <= UnderFrom("client")
          /\ UnderFrom("client") \in Nat /\ UnderFrom("client")' \in Nat
      BY <2>2, <2>3, <2>4
    <2>6. UnderFrom("server")' <= UnderFrom("server")
          /\ UnderFrom("server") \in Nat /\ UnderFrom("server")' \in Nat
      BY <2>2, <2>3, <2>4
    <2> QED BY <2>5, <2>6
  <1>8. AllUnder' <= AllUnder
    <2>1. AllUnder = UnderFrom("server") + UnderFrom("client")
          /\ AllUnder' = UnderFrom("server")' + UnderFrom("client")'
      BY DEF AllUnder
    <2> QED BY <1>7, <2>1
  <1> QED BY <1>2, <1>6, <1>7, <1>8, FlowKept

\* A message that is handled is the only one there is.
LEMMA TakesMessage ==
  ASSUME FlowInv, NEW p \in Peers, NEW q \in Peers, q = Other(p),
         wc[p] # << >>, NEW c, c = Head(wc[p]), c.op = "recv"
  PROVE  /\ c \in Comps /\ c.kind \in Kinds /\ c.buf = 0
         /\ Completed(p, "recv") = 0 /\ Len(recvs[p]) = 0 /\ Held(p) = 1 /\ Held(q) = 0
         /\ Len(wire[p]) = 0 /\ Len(wire[q]) = 0
         /\ AllUnder = 1 /\ "send" \notin refused
         /\ \A k \in Kinds : /\ Received(p, k) = Bit(k = c.kind) /\ Received(q, k) = 0
                             /\ Wired(p, k) = 0 /\ Wired(q, k) = 0
  <1>1. FlowType /\ UnderNumbers /\ FlowOf(p) /\ OneUnder
    BY UnderCounts DEF FlowInv
  <1>2. /\ wc[p] \in Seq(Comps)
        /\ c \in Comps /\ Tail(wc[p]) \in Seq(Comps)
        /\ \A S : Count(wc[p], S) = Count(Tail(wc[p]), S) + Bit(c \in S)
        /\ \A S : Count(Tail(wc[p]), S) \in Nat
    <2>1. wc[p] \in Seq(Comps)
      BY <1>1 DEF FlowType
    <2> QED BY <2>1, CountTail, CountIsNat
  <1>3. c.kind \in Kinds /\ c.buf = 0 /\ c \in Got(c.kind)
    BY <1>2, CompMembers
  <1>4. Count(wc[p], Got(c.kind)) >= 1 /\ Count(wc[p], Got(c.kind)) \in Nat
    BY <1>2, <1>3, MoreNumbers, <1>1 DEF Bit
  <1>5. /\ \A k : Count(cq[p], Got(k)) \in Nat /\ Count(wc[p], Got(k)) \in Nat
                  /\ Received(p, k) = Count(cq[p], Got(k)) + Count(wc[p], Got(k))
        /\ Held(p) = Received(p, "start") + Received(p, "regular") + Received(p, "stop")
        /\ Completed(p, "recv") = Count(cq[p], Got("start")) + Count(cq[p], Got("regular"))
                                  + Count(cq[p], Got("stop"))
    BY <1>1, FlowNumbers DEF Received, Held
  <1>6. Held(p) >= 1 + Completed(p, "recv") /\ Completed(p, "recv") \in Nat
    <2> DEFINE a(k) == Count(cq[p], Got(k))
               b(k) == Count(wc[p], Got(k))
    <2>1. /\ a("start") \in Nat /\ a("regular") \in Nat /\ a("stop") \in Nat
          /\ b("start") \in Nat /\ b("regular") \in Nat /\ b("stop") \in Nat
      BY <1>5
    <2>2. /\ Held(p) = (a("start") + b("start")) + (a("regular") + b("regular"))
                       + (a("stop") + b("stop"))
          /\ Completed(p, "recv") = a("start") + a("regular") + a("stop")
      BY <1>5
    <2>3. b(c.kind) >= 1
      BY <1>4
    <2>4. c.kind = "start" \/ c.kind = "regular" \/ c.kind = "stop"
      BY <1>3 DEF Kinds
    <2> HIDE DEF a, b
    <2>5. b("start") + b("regular") + b("stop") >= 1
      BY <2>1, <2>3, <2>4
    <2> QED BY <2>1, <2>2, <2>5
  <1>7. /\ Len(recvs[p]) = 0 /\ Held(p) = 1 /\ Completed(p, "recv") = 0
    <2>1. Len(recvs[p]) \in Nat /\ Held(p) \in Nat /\ Len(recvs[p]) + Held(p) <= 1
      BY <1>1 DEF UnderNumbers, FlowOf
    <2> QED BY <1>6, <2>1
  <1>8. /\ Len(wire[p]) = 0 /\ Len(wire[q]) = 0 /\ Held(q) = 0 /\ AllUnder = 1
    <2>1. AllUnder = (Len(wire[p]) + Held(q)) + (Len(wire[q]) + Held(p))
      <3>1. (p = "server" /\ q = "client") \/ (p = "client" /\ q = "server")
        BY DEF Peers, Other
      <3>2. /\ AllUnder = (Len(wire["server"]) + Held("client"))
                          + (Len(wire["client"]) + Held("server"))
            /\ \A r \in Peers : Len(wire[r]) \in Nat /\ Held(r) \in Nat
        BY <1>1 DEF UnderNumbers
      <3> QED BY <3>1, <3>2
    <2>2. /\ Len(wire[p]) \in Nat /\ Len(wire[q]) \in Nat /\ Held(q) \in Nat
          /\ AllUnder <= 1
      BY <1>1 DEF UnderNumbers, OneUnder
    <2> QED BY <1>7, <2>1, <2>2
  <1>9. "send" \notin refused
    BY <1>1, <1>8 DEF OneUnder
  <1>10. \A k \in Kinds : Received(q, k) = 0 /\ Wired(p, k) = 0 /\ Wired(q, k) = 0
    <2>1. /\ \A r \in Peers : \A k : Received(r, k) \in Nat /\ Wired(r, k) \in Nat
          /\ Held(q) = Received(q, "start") + Received(q, "regular") + Received(q, "stop")
          /\ Len(wire[p]) = Wired(p, "start") + Wired(p, "regular") + Wired(p, "stop")
          /\ Len(wire[q]) = Wired(q, "start") + Wired(q, "regular") + Wired(q, "stop")
      BY <1>1, FlowNumbers DEF UnderNumbers, Held
    <2>2. Received(q, "start") = 0 /\ Received(q, "regular") = 0 /\ Received(q, "stop") = 0
      BY <1>8, <2>1
    <2>3. /\ Wired(p, "start") \in Nat /\ Wired(p, "regular") \in Nat /\ Wired(p, "stop") \in Nat
          /\ Wired(q, "start") \in Nat /\ Wired(q, "regular") \in Nat /\ Wired(q, "stop") \in Nat
      BY <2>1
    <2>4. Wired(p, "start") = 0 /\ Wired(p, "regular") = 0 /\ Wired(p, "stop") = 0
      <3>1. Wired(p, "start") + Wired(p, "regular") + Wired(p, "stop") = 0
        BY <1>8, <2>1
      <3> QED BY <2>3, <3>1
    <2>5. Wired(q, "start") = 0 /\ Wired(q, "regular") = 0 /\ Wired(q, "stop") = 0
      <3>1. Wired(q, "start") + Wired(q, "regular") + Wired(q, "stop") = 0
        BY <1>8, <2>1
      <3> QED BY <2>3, <3>1
    <2> QED BY <2>2, <2>4, <2>5 DEF Kinds
  <1>11. \A k \in Kinds : Received(p, k) = Bit(k = c.kind)
    <2>1. /\ Received(p, "start") \in Nat /\ Received(p, "regular") \in Nat
          /\ Received(p, "stop") \in Nat
          /\ Received(p, "start") + Received(p, "regular") + Received(p, "stop") = 1
      BY <1>1, <1>5, <1>7 DEF UnderNumbers
    <2>2. Received(p, c.kind) >= 1
      BY <1>4, <1>5
    <2>3. CASE c.kind = "start"
      BY <2>1, <2>2, <2>3 DEF Kinds, Bit
    <2>4. CASE c.kind = "regular"
      BY <2>1, <2>2, <2>4 DEF Kinds, Bit
    <2>5. CASE c.kind = "stop"
      BY <2>1, <2>2, <2>5 DEF Kinds, Bit
    <2> QED BY <1>3, <2>3, <2>4, <2>5 DEF Kinds
  <1> QED BY <1>2, <1>3, <1>7, <1>8, <1>9, <1>10, <1>11

AllSums ==
  \A p, q \in Peers : q = Other(p) =>
    /\ AllUnder = (Len(wire[p]) + Held(q)) + (Len(wire[q]) + Held(p))
    /\ UnderFrom(p) = Len(wire[p]) + Held(q)

LEMMA AllAddUp == FlowType => AllSums
  <1> SUFFICES ASSUME FlowType, NEW p \in Peers, NEW q \in Peers, q = Other(p)
               PROVE  /\ AllUnder = (Len(wire[p]) + Held(q)) + (Len(wire[q]) + Held(p))
                      /\ UnderFrom(p) = Len(wire[p]) + Held(q)
    BY DEF AllSums
  <1>1. (p = "server" /\ q = "client") \/ (p = "client" /\ q = "server")
    BY DEF Peers, Other
  <1>2. /\ UnderFrom("server") = Len(wire["server"]) + Held("client")
        /\ UnderFrom("client") = Len(wire["client"]) + Held("server")
        /\ AllUnder = UnderFrom("server") + UnderFrom("client")
        /\ \A r \in Peers : Len(wire[r]) \in Nat /\ Held(r) \in Nat
    BY UnderCounts DEF UnderNumbers
  <1>3. /\ Len(wire[p]) \in Nat /\ Held(p) \in Nat /\ Len(wire[q]) \in Nat /\ Held(q) \in Nat
    BY <1>2
  <1> QED BY <1>1, <1>2, <1>3

LEMMA AllAddUpNext == FlowType' => AllSums'
  BY AllAddUp, PTL

\* A completion is handled, with what was polled after it or without.
LEMMA TakenDoes ==
  ASSUME FlowType, NEW p \in Peers, wc[p] # << >>, NEW c, c = Head(wc[p]), UNCHANGED cq,
         Handled(p) \/ wc' = [wc EXCEPT ![p] = << >>]
  PROVE  /\ wc' \in [Peers -> Seq(Comps)] /\ \A r \in Peers : r # p => wc'[r] = wc[r]
         /\ Len(wc'[p]) <= Len(wc[p]) - 1
         /\ \A k : Received(p, k) >= Received(p, k)' + Bit(c.op = "recv" /\ c.kind = k)
         /\ \A k : Received(p, k)' \in Nat
         /\ Errs(p) >= Errs(p)' + Bit(c.op = "error") /\ Errs(p)' \in Nat
  <1>1. CASE Handled(p)
    <2>1. /\ wc' \in [Peers -> Seq(Comps)] /\ \A r \in Peers : r # p => wc'[r] = wc[r]
          /\ Len(wc'[p]) = Len(wc[p]) - 1
          /\ \A k : Received(p, k) = Received(p, k)' + Bit(c.op = "recv" /\ c.kind = k)
          /\ \A k : Received(p, k)' \in Nat
          /\ Errs(p) = Errs(p)' + Bit(c.op = "error") /\ Errs(p)' \in Nat
      BY <1>1, HandledDoes
    <2>2. \A b : Bit(b) \in Nat
      BY DEF Bit
    <2>3. \A k : Received(p, k) >= Received(p, k)' + Bit(c.op = "recv" /\ c.kind = k)
      <3> SUFFICES ASSUME NEW k
                   PROVE Received(p, k) >= Received(p, k)' + Bit(c.op = "recv" /\ c.kind = k)
        OBVIOUS
      <3> DEFINE b == Bit(c.op = "recv" /\ c.kind = k)
      <3>1. b \in Nat
        BY <2>2
      <3>2. Received(p, k) = Received(p, k)' + b /\ Received(p, k)' \in Nat
        BY <2>1
      <3> HIDE DEF b
      <3>3. Received(p, k) >= Received(p, k)' + b
        BY <3>1, <3>2
      <3> QED BY <3>3 DEF b
    <2>4. Errs(p) >= Errs(p)' + Bit(c.op = "error")
      <3> DEFINE b == Bit(c.op = "error")
      <3>1. b \in Nat /\ Errs(p) = Errs(p)' + b /\ Errs(p)' \in Nat
        BY <2>1, <2>2
      <3> HIDE DEF b
      <3>2. Errs(p) >= Errs(p)' + b
        BY <3>1
      <3> QED BY <3>2 DEF b
    <2>5. Len(wc[p]) \in Nat
      BY FlowNumbers
    <2> QED BY <2>1, <2>3, <2>4, <2>5
  <1>2. CASE wc' = [wc EXCEPT ![p] = << >>]
    <2>1. /\ wc' \in [Peers -> Seq(Comps)] /\ \A r \in Peers : r # p => wc'[r] = wc[r]
          /\ Len(wc'[p]) = 0 /\ Len(wc[p]) >= 1
          /\ \A k : Received(p, k) >= Received(p, k)' + Bit(c.op = "recv" /\ c.kind = k)
          /\ \A k : Received(p, k)' \in Nat
          /\ Errs(p) >= Errs(p)' + Bit(c.op = "error") /\ Errs(p)' \in Nat
      BY <1>2, LeftDoes
    <2>2. Len(wc[p]) \in Nat
      BY FlowNumbers
    <2> QED BY <2>1, <2>2
  <1> QED BY <1>1, <1>2

LEMMA TakenLessens ==
  ASSUME FlowType, NEW p \in Peers, wc[p] # << >>, UNCHANGED cq,
         Handled(p) \/ wc' = [wc EXCEPT ![p] = << >>]
  PROVE  /\ \A k : Received(p, k) >= Received(p, k)' /\ Received(p, k)' \in Nat
         /\ Errs(p) >= Errs(p)'
         /\ Head(wc[p]).op = "error" => Errs(p) >= 1
  <1> DEFINE c == Head(wc[p])
             b(k) == Bit(c.op = "recv" /\ c.kind = k)
             e == Bit(c.op = "error")
  <1>1. /\ \A k : Received(p, k) >= Received(p, k)' + b(k)
        /\ \A k : Received(p, k)' \in Nat
        /\ Errs(p) >= Errs(p)' + e /\ Errs(p)' \in Nat
    BY TakenDoes
  <1>2. /\ \A k : b(k) \in Nat /\ Received(p, k) \in Nat
        /\ e \in Nat /\ Errs(p) \in Nat /\ (c.op = "error" => e = 1)
    BY FlowNumbers, MoreNumbers DEF Bit
  <1> HIDE DEF b, e
  <1>3. \A k : Received(p, k) >= Received(p, k)'
    <2> SUFFICES ASSUME NEW k PROVE Received(p, k) >= Received(p, k)'
      OBVIOUS
    <2>1. /\ Received(p, k) >= Received(p, k)' + b(k) /\ Received(p, k)' \in Nat
          /\ b(k) \in Nat /\ Received(p, k) \in Nat
      BY <1>1, <1>2
    <2> QED BY <2>1
  <1> QED BY <1>1, <1>2, <1>3

\* A message is handled, with what was polled after it or without.
LEMMA TakenAll ==
  ASSUME FlowInv, NEW p \in Peers, NEW q \in Peers, q = Other(p),
         wc[p] # << >>, NEW c, c = Head(wc[p]), c.op = "recv", UNCHANGED cq,
         Handled(p) \/ wc' = [wc EXCEPT ![p] = << >>]
  PROVE  /\ wc' \in [Peers -> Seq(Comps)] /\ \A r \in Peers : r # p => wc'[r] = wc[r]
         /\ \A k \in Kinds : Received(p, k)' = 0 /\ Received(q, k)' = 0
         /\ Held(p)' = 0 /\ Held(q)' = 0
         /\ Len(wc'[p]) <= Len(wc[p]) - 1 /\ Len(wc'[p]) \in Nat
         /\ Errs(p)' <= Errs(p) /\ Errs(p)' \in Nat /\ Errs(q)' = Errs(q)
  <1>1. FlowType /\ q # p
    BY OtherPeer DEF FlowInv
  <1>2. /\ wc' \in [Peers -> Seq(Comps)] /\ \A r \in Peers : r # p => wc'[r] = wc[r]
        /\ Len(wc'[p]) <= Len(wc[p]) - 1
        /\ \A k : Received(p, k) >= Received(p, k)' + Bit(c.op = "recv" /\ c.kind = k)
        /\ \A k : Received(p, k)' \in Nat
        /\ Errs(p) >= Errs(p)' + Bit(c.op = "error") /\ Errs(p)' \in Nat
    BY <1>1, TakenDoes
  <1>3. \A k \in Kinds : Received(p, k) = Bit(k = c.kind) /\ Received(q, k) = 0
    BY TakesMessage
  <1>4. UNCHANGED <<cq[q], wc[q]>>
    BY <1>1, <1>2
  <1>5. \A k : Received(q, k)' = Received(q, k)
    BY <1>4 DEF Received
  <1>6. ASSUME NEW k \in Kinds PROVE Received(p, k)' = 0 /\ Received(q, k)' = 0
    <2>1. Received(q, k)' = 0
      BY <1>3, <1>5
    <2>2. Received(p, k)' \in Nat /\ Received(p, k) >= Received(p, k)' + Bit(c.kind = k)
          /\ Received(p, k) = Bit(k = c.kind)
      BY <1>2, <1>3 DEF Bit
    <2> HIDE DEF Received
    <2>3. Received(p, k)' = 0
      <3>1. CASE c.kind = k
        BY <2>2, <3>1 DEF Bit
      <3>2. CASE c.kind # k
        BY <2>2, <3>2 DEF Bit
      <3> QED BY <3>1, <3>2
    <2> QED BY <2>1, <2>3
  <1>7. Held(p)' = 0 /\ Held(q)' = 0
    <2>1. "start" \in Kinds /\ "regular" \in Kinds /\ "stop" \in Kinds
      BY DEF Kinds
    <2> QED BY <1>6, <2>1 DEF Held
  <1>8. Errs(q)' = Errs(q)
    BY <1>4 DEF Errs
  <1>9. Errs(p)' <= Errs(p)
    <2>1. Bit(c.op = "error") \in Nat /\ Errs(p) \in Nat /\ Errs(p)' \in Nat
      BY <1>1, <1>2, MoreNumbers DEF Bit
    <2> QED BY <1>2, <2>1
  <1>10. Len(wc'[p]) \in Nat
    BY <1>2, LenProperties
  <1> QED BY <1>2, <1>6, <1>7, <1>8, <1>9, <1>10

\* It is answered with at most a receive ...
LEMMA AnswersNothing ==
  ASSUME FlowInv, NEW p \in Peers, NEW q \in Peers, q = Other(p),
         wc[p] # << >>, NEW c, c = Head(wc[p]), c.op = "recv", UNCHANGED <<cq, walk>>,
         Handled(p) \/ wc' = [wc EXCEPT ![p] = << >>],
         NEW buffers \in {<< >>, << 0 >>}, Post(p, << >>, buffers),
         peer' \in [Peers -> HandshakeSteps], peer'[p] \notin Before, peer'[q] = peer[q]
  PROVE  /\ FlowType' /\ (\A r \in Peers : FlowOf(r)') /\ OneUnder' /\ AllUnder = 1
         /\ AllUnder' = 0 /\ UnderFrom(p)' = 0 /\ UnderFrom(q)' = 0
         /\ UNCHANGED <<wire, unacked, refused>> /\ "send" \notin refused
         /\ \A k \in Kinds : Under(p, k)' = 0 /\ Under(q, k)' = 0
         /\ Len(recvs'[p]) = Len(buffers) /\ recvs'[q] = recvs[q]
  <1>1. FlowType /\ UnderNumbers /\ q # p /\ \A r \in Peers : r = p \/ r = q
    BY UnderCounts, OtherPeer DEF FlowInv
  <1>2. /\ Completed(p, "recv") = 0 /\ Len(recvs[p]) = 0
        /\ Len(wire[p]) = 0 /\ Len(wire[q]) = 0 /\ AllUnder = 1 /\ "send" \notin refused
        /\ \A k \in Kinds : Wired(p, k) = 0 /\ Wired(q, k) = 0
    BY TakesMessage
  <1>3. PICK n \in Nat : n <= 1 /\ Len(buffers) = n
    <2>1. Len(<< >>) = 0 /\ Len(<< 0 >>) = 1
      OBVIOUS
    <2>2. Len(buffers) = 0 \/ Len(buffers) = 1
      BY <2>1
    <2>3. 0 \in Nat /\ 0 <= 1 /\ 1 \in Nat /\ 1 <= 1
      OBVIOUS
    <2> QED BY <2>2, <2>3, Zenon
  <1>4. Len(buffers) + Len(recvs[p]) + Completed(p, "recv") <= 1
    BY <1>2, <1>3
  <1>5. /\ wc' \in [Peers -> Seq(Comps)] /\ \A r \in Peers : r # p => wc'[r] = wc[r]
        /\ \A k \in Kinds : Received(p, k)' = 0 /\ Received(q, k)' = 0
        /\ Held(p)' = 0 /\ Held(q)' = 0
    BY TakenAll
  <1>6. /\ recvs' \in [Peers -> Seq({0})]
        /\ \A r \in Peers : Len(recvs'[r]) = Len(recvs[r]) + (IF r = p THEN Len(buffers) ELSE 0)
        /\ \A r \in Peers : r # p => recvs'[r] = recvs[r]
    BY <1>1, <1>4, PostsReceive
  <1>7. UNCHANGED <<wire, unacked, refused>>
    BY <1>1, <1>4, PostsOnlyReceive
  <1>8. FlowType'
    BY <1>1, <1>5, <1>6, <1>7 DEF FlowType
  <1>9. Len(recvs'[p]) = Len(buffers) /\ recvs'[q] = recvs[q]
    BY <1>1, <1>2, <1>3, <1>6
  <1>10. AllSums' /\ UnderNumbers'
    BY <1>8, AllAddUpNext, UnderCountsNext
  <1>11. AllUnder' = 0 /\ UnderFrom(p)' = 0 /\ UnderFrom(q)' = 0
    BY <1>2, <1>5, <1>7, <1>10, OtherPeer DEF AllSums
  <1>12. \A k \in Kinds : Under(p, k)' = 0 /\ Under(q, k)' = 0
    <2>1. \A k \in Kinds : Wired(p, k)' = 0 /\ Wired(q, k)' = 0
      BY <1>2, <1>7 DEF Wired
    <2>2. Other(q) = p
      BY OtherPeer
    <2> QED BY <1>5, <2>1, <2>2 DEF Under
  <1>13. FlowOf(p) /\ FlowOf(q)
    BY DEF FlowInv
  <1>14. FlowOf(p)'
    <2>1. Len(recvs'[p]) + Held(p)' <= 1
      BY <1>3, <1>5, <1>9
    <2> QED BY <1>7, <1>13, <2>1 DEF FlowOf
  <1>15. FlowOf(q)'
    <2>1. Held(q) = 0
      BY TakesMessage
    <2> QED BY <1>5, <1>7, <1>9, <1>13, <2>1 DEF FlowOf
  <1>16. OneUnder'
    BY <1>2, <1>7, <1>11 DEF OneUnder
  <1> QED BY <1>1, <1>2, <1>7, <1>8, <1>9, <1>11, <1>12, <1>14, <1>15, <1>16

\* ... or with a message, too, that is lost if it does not fit.
LEMMA AnswersMessage ==
  ASSUME FlowInv, NEW p \in Peers, NEW q \in Peers, q = Other(p),
         wc[p] # << >>, NEW c, c = Head(wc[p]), c.op = "recv", UNCHANGED <<cq, walk>>,
         Handled(p) \/ wc' = [wc EXCEPT ![p] = << >>], NEW k \in Kinds,
         NEW buffers \in {<< >>, << 0 >>}, Post(p, <<Message(k, 0)>>, buffers),
         peer' \in [Peers -> HandshakeSteps], peer'[p] \notin Before, peer'[q] = peer[q]
  PROVE  /\ FlowType' /\ (\A r \in Peers : FlowOf(r)') /\ OneUnder' /\ AllUnder = 1
         /\ UnderFrom(q)' = 0 /\ "send" \notin refused
         /\ refused' = IF FreeSends(p) > 0 THEN refused ELSE refused \cup {"send"}
         /\ Under(p, k)' = Fits(p) /\ \A j \in Kinds \ {k} : Under(p, j)' = 0
         /\ \A j \in Kinds : Under(q, j)' = 0
         /\ Len(recvs'[p]) = Len(buffers) /\ recvs'[q] = recvs[q]
         /\ Len(wire'[p]) = Fits(p) /\ wire'[q] = wire[q]
         /\ Len(unacked'[p]) = Len(unacked[p]) + Fits(p) /\ unacked'[q] = unacked[q]
         /\ Count(unacked'[p], Mail(k))
              = Count(unacked[p], Mail(k)) + Fits(p)
  <1>1. FlowType /\ UnderNumbers /\ q # p /\ \A r \in Peers : r = p \/ r = q
    BY UnderCounts, OtherPeer DEF FlowInv
  <1>2. /\ Completed(p, "recv") = 0 /\ Len(recvs[p]) = 0 /\ Held(q) = 0
        /\ Len(wire[p]) = 0 /\ Len(wire[q]) = 0 /\ AllUnder = 1 /\ "send" \notin refused
        /\ \A j \in Kinds : Wired(p, j) = 0 /\ Wired(q, j) = 0
    BY TakesMessage
  <1>3. PICK n \in Nat : n <= 1 /\ Len(buffers) = n
    <2>1. Len(<< >>) = 0 /\ Len(<< 0 >>) = 1
      OBVIOUS
    <2>2. Len(buffers) = 0 \/ Len(buffers) = 1
      BY <2>1
    <2>3. 0 \in Nat /\ 0 <= 1 /\ 1 \in Nat /\ 1 <= 1
      OBVIOUS
    <2> QED BY <2>2, <2>3, Zenon
  <1>4. Len(buffers) + Len(recvs[p]) + Completed(p, "recv") <= 1
    BY <1>2, <1>3
  <1>5. /\ wc' \in [Peers -> Seq(Comps)] /\ \A r \in Peers : r # p => wc'[r] = wc[r]
        /\ \A j \in Kinds : Received(p, j)' = 0 /\ Received(q, j)' = 0
        /\ Held(p)' = 0 /\ Held(q)' = 0
    BY TakenAll
  <1>6. /\ recvs' \in [Peers -> Seq({0})]
        /\ \A r \in Peers : Len(recvs'[r]) = Len(recvs[r]) + (IF r = p THEN Len(buffers) ELSE 0)
        /\ \A r \in Peers : r # p => recvs'[r] = recvs[r]
    BY <1>1, <1>4, PostsReceive
  <1>7. /\ wire' \in [Peers -> Seq(Mails)] /\ unacked' \in [Peers -> Seq(Mails)]
        /\ \A r \in Peers : r # p => wire'[r] = wire[r] /\ unacked'[r] = unacked[r]
        /\ refused' = IF FreeSends(p) > 0 THEN refused ELSE refused \cup {"send"}
        /\ Wired(p, k)' = Wired(p, k) + Fits(p)
        /\ \A j : j # k => Wired(p, j)' = Wired(p, j)
        /\ Len(wire'[p]) = Len(wire[p]) + Fits(p)
        /\ Len(unacked'[p]) = Len(unacked[p]) + Fits(p)
        /\ Count(unacked'[p], Mail(k)) = Count(unacked[p], Mail(k)) + Fits(p)
    BY <1>1, <1>4, PostsMessage
  <1>8. Fits(p) \in {0, 1}
    BY DEF Fits
  <1>9. FlowType'
    BY <1>1, <1>5, <1>6, <1>7 DEF FlowType
  <1>10. Len(recvs'[p]) = Len(buffers) /\ recvs'[q] = recvs[q]
    BY <1>1, <1>2, <1>3, <1>6
  <1>11. AllSums' /\ UnderNumbers'
    BY <1>9, AllAddUpNext, UnderCountsNext
  <1>12. Len(wire'[p]) = Fits(p) /\ wire'[q] = wire[q] /\ unacked'[q] = unacked[q]
    BY <1>1, <1>2, <1>7, <1>8
  <1>13. AllUnder' = Fits(p) /\ UnderFrom(q)' = 0
    BY <1>2, <1>5, <1>8, <1>11, <1>12, OtherPeer DEF AllSums
  <1>14. /\ Under(p, k)' = Fits(p) /\ \A j \in Kinds \ {k} : Under(p, j)' = 0
         /\ \A j \in Kinds : Under(q, j)' = 0
    <2>1. \A j \in Kinds : Wired(q, j)' = 0
      BY <1>2, <1>12 DEF Wired
    <2>2. Other(q) = p
      BY OtherPeer
    <2>3. Wired(p, k)' = Fits(p) /\ \A j \in Kinds \ {k} : Wired(p, j)' = 0
      BY <1>2, <1>7, <1>8
    <2>4. \A j : Under(p, j)' = Wired(p, j)' + Received(q, j)'
      BY DEF Under
    <2>5. \A j : Under(q, j)' = Wired(q, j)' + Received(p, j)'
      BY <2>2 DEF Under
    <2> QED BY <1>5, <1>8, <2>1, <2>3, <2>4, <2>5
  <1>15. FlowOf(p) /\ FlowOf(q) /\ Len(unacked[p]) \in Nat
    BY <1>1 DEF FlowInv, UnderNumbers
  <1>16. FlowOf(p)'
    <2>1. Len(wire'[p]) <= Len(unacked'[p])
      BY <1>7, <1>8, <1>12, <1>15
    <2>2. Len(recvs'[p]) + Held(p)' <= 1
      BY <1>3, <1>5, <1>10
    <2> QED BY <2>1, <2>2 DEF FlowOf
  <1>17. FlowOf(q)'
    BY <1>2, <1>5, <1>10, <1>12, <1>15 DEF FlowOf
  <1>18. OneUnder'
    <2>1. CASE FreeSends(p) > 0
      BY <1>2, <1>7, <1>13, <2>1 DEF OneUnder, Fits
    <2>2. CASE ~(FreeSends(p) > 0)
      BY <1>13, <2>2 DEF OneUnder, Fits
    <2> QED BY <2>1, <2>2
  <1> QED BY <1>1, <1>2, <1>7, <1>9, <1>10, <1>12, <1>13, <1>14, <1>16, <1>17, <1>18

-----------------------------------------------------------------------------
(***************************************************************************)
(* The steps of the loops.                                                 *)
(***************************************************************************)

\* The program that handles is in its loop.
LEMMA StepsOn ==
  ASSUME FlowInv, NEW p \in Peers, NEW step \in HandshakeSteps, Goto(p, step)
  PROVE  /\ peer' \in [Peers -> HandshakeSteps] /\ peer'[p] = step
         /\ \A r \in Peers : r # p => peer'[r] = peer[r]
  BY DEF FlowInv, FlowType, Goto

LEMMA SendCompletedFlow ==
  ASSUME FlowInv, NEW p \in Peers, SendCompleted(p) \/ SendFailed(p) PROVE FlowInv'
  <1>1. FlowType /\ wc[p] # << >> /\ peer[p] \in {"wait", "echo", "stop"}
        /\ UNCHANGED <<wire, recvs, unacked, cq, walk, refused>>
        /\ \/ Handled(p) /\ UNCHANGED peer
           \/ peer[p] = "stop" /\ LeaveLoop(p, "done")
           \/ LeaveLoop(p, "failed")
    BY DEF FlowInv, SendCompleted, SendFailed, NextWc
  <1>2. Handled(p) \/ wc' = [wc EXCEPT ![p] = << >>]
    BY <1>1 DEF LeaveLoop
  <1>3. /\ wc' \in [Peers -> Seq(Comps)] /\ \A q \in Peers : q # p => wc'[q] = wc[q]
        /\ \A k : Received(p, k) >= Received(p, k)'
        /\ \A k : Received(p, k)' \in Nat
    BY <1>1, <1>2, TakenDoes, TakenLessens
  <1>4. peer' \in [Peers -> HandshakeSteps] /\ PeersInFlow
    <2>1. CASE UNCHANGED peer
      BY <2>1 DEF PeersInFlow, FlowInv, FlowType
    <2>2. ASSUME NEW step \in {"done", "failed"}, Goto(p, step), step = "done" => peer[p] = "stop"
          PROVE  peer' \in [Peers -> HandshakeSteps] /\ PeersInFlow
      <3>1. step \in HandshakeSteps
        BY DEF HandshakeSteps
      <3>2. /\ peer' \in [Peers -> HandshakeSteps] /\ peer'[p] = step
            /\ \A r \in Peers : r # p => peer'[r] = peer[r]
        BY <2>2, <3>1, StepsOn
      <3> QED BY <2>2, <3>2 DEF PeersInFlow, Before, Peers
    <2> QED BY <1>1, <2>1, <2>2 DEF LeaveLoop
  <1> QED BY <1>1, <1>3, <1>4, FlowTaken

\* After an answer.
LEMMA FlowAnswered ==
  ASSUME FlowInv, AllUnder = 1, FlowType', \A r \in Peers : FlowOf(r)', OneUnder',
         peer'["server"] \in Before => peer["server"] \in Before,
         peer'["client"] \in Before \cup {"wait", "send"} => UnderFrom("client")' = 0,
         peer'["client"] = "send" => AllUnder' = 0 /\ "send" \notin refused'
  PROVE  FlowInv'
  <1>1. FlowStarts'
    BY DEF FlowInv, FlowStarts
  <1> QED BY <1>1 DEF FlowInv

LEMMA StartSignalledFlow == FlowInv /\ StartSignalled => FlowInv'
  <1> SUFFICES ASSUME FlowInv, StartSignalled PROVE FlowInv'
    OBVIOUS
  <1> DEFINE p == "client"
             q == "server"
  <1>1. /\ FlowType /\ p \in Peers /\ q \in Peers /\ q = Other(p)
        /\ walk[p] = Start /\ CONCURRENT = 1
    BY DEF FlowInv, FlowType, Peers, Other
  <1>2. walk[p].ptr = 0 /\ Advance(walk[p]) = Start
    BY <1>1, AdvanceStays DEF Start
  <1>3. walk' = walk
    BY <1>1, <1>2 DEF StartSignalled, FlowType
  <1>4. /\ peer[p] = "wait" /\ wc[p] # << >> /\ Head(wc[p]).op = "recv"
        /\ Post(p, << >>, << 0 >>) /\ UNCHANGED <<cq, walk>>
        /\ \/ LeaveLoop(p, "send")
           \/ Handled(p) /\ UNCHANGED peer
    BY <1>2, <1>3 DEF StartSignalled, NextWc
  <1>5. Handled(p) \/ wc' = [wc EXCEPT ![p] = << >>]
    BY <1>4 DEF LeaveLoop
  <1>6. /\ peer' \in [Peers -> HandshakeSteps] /\ peer'[p] \notin Before /\ peer'[q] = peer[q]
    <2>1. CASE UNCHANGED peer
      BY <1>1, <1>4, <2>1 DEF FlowType, Before
    <2>2. CASE Goto(p, "send")
      BY <1>1, <2>2 DEF FlowType, Goto, Before, HandshakeSteps, Workload
    <2> QED BY <1>4, <2>1, <2>2 DEF LeaveLoop
  <1>7. << 0 >> \in {<< >>, << 0 >>}
    OBVIOUS
  <1> HIDE DEF p, q
  <1>8. /\ FlowType' /\ (\A r \in Peers : FlowOf(r)') /\ OneUnder' /\ AllUnder = 1
        /\ AllUnder' = 0 /\ UnderFrom(p)' = 0 /\ UnderFrom(q)' = 0
        /\ UNCHANGED <<wire, unacked, refused>> /\ "send" \notin refused
    BY <1>1, <1>4, <1>5, <1>6, <1>7, AnswersNothing
  <1> QED BY <1>6, <1>8, FlowAnswered DEF p, q

LEMMA EchoServerFlow == FlowInv /\ EchoServer => FlowInv'
  <1> SUFFICES ASSUME FlowInv, EchoServer PROVE FlowInv'
    OBVIOUS
  <1> DEFINE p == "server"
             q == "client"
  <1>1. FlowType /\ p \in Peers /\ q \in Peers /\ q = Other(p)
    BY DEF FlowInv, FlowType, Peers, Other
  <1>2. /\ peer[p] = "echo" /\ wc[p] # << >> /\ Head(wc[p]).op = "recv" /\ UNCHANGED <<cq, walk>>
    BY DEF EchoServer, NextWc
  <1>3. Head(wc[p]).buf = 0
    BY <1>1, <1>2, TakesMessage
  <1>4. \/ /\ Post(p, <<Message("stop", 0)>>, << >>)
           /\ \E step \in {"stop", "failed"} : LeaveLoop(p, step)
        \/ Post(p, <<Message("regular", 0)>>, << 0 >>) /\ Handled(p) /\ UNCHANGED peer
    BY <1>3 DEF EchoServer
  <1>5. Handled(p) \/ wc' = [wc EXCEPT ![p] = << >>]
    BY <1>4 DEF LeaveLoop
  <1>6. /\ peer' \in [Peers -> HandshakeSteps] /\ peer'[p] \notin Before /\ peer'[q] = peer[q]
    <2>1. CASE UNCHANGED peer
      BY <1>1, <1>2, <2>1 DEF FlowType, Before
    <2>2. ASSUME NEW step \in {"stop", "failed"}, Goto(p, step)
          PROVE  peer' \in [Peers -> HandshakeSteps] /\ peer'[p] \notin Before /\ peer'[q] = peer[q]
      BY <1>1, <2>2 DEF FlowType, Goto, Before, HandshakeSteps, Workload
    <2> QED BY <1>4, <2>1, <2>2 DEF LeaveLoop
  <1>7. \E k \in Kinds, buffers \in {<< >>, << 0 >>} : Post(p, <<Message(k, 0)>>, buffers)
    BY <1>4 DEF Kinds
  <1> HIDE DEF p, q
  <1>8. /\ FlowType' /\ (\A r \in Peers : FlowOf(r)') /\ OneUnder' /\ AllUnder = 1
        /\ UnderFrom(q)' = 0
    BY <1>1, <1>2, <1>5, <1>6, <1>7, AnswersMessage
  <1>9. peer'[q] # "send"
    <2>1. peer[q] = "send" => AllUnder = 0
      BY DEF FlowInv, FlowStarts, q
    <2> QED BY <1>6, <1>8, <2>1
  <1> QED BY <1>6, <1>8, <1>9, FlowAnswered DEF p, q

LEMMA EchoClientFlow == FlowInv /\ EchoClient => FlowInv'
  <1> SUFFICES ASSUME FlowInv, EchoClient PROVE FlowInv'
    OBVIOUS
  <1> DEFINE p == "client"
             q == "server"
  <1>1. /\ FlowType /\ p \in Peers /\ q \in Peers /\ q = Other(p) /\ q # p
        /\ walk[p] = Start /\ CONCURRENT = 1
    BY DEF FlowInv, FlowType, Peers, Other
  <1>2. /\ peer[p] = "echo" /\ wc[p] # << >> /\ Head(wc[p]).op = "recv" /\ UNCHANGED cq
    BY DEF EchoClient, NextWc
  <1>3. CASE Head(wc[p]).kind = "stop"
    <2>1. /\ LeaveLoop(p, "done") /\ UNCHANGED <<wire, recvs, unacked, walk, refused>>
          /\ wc' = [wc EXCEPT ![p] = << >>]
      BY <1>3 DEF EchoClient, LeaveLoop
    <2>2. /\ wc' \in [Peers -> Seq(Comps)] /\ \A r \in Peers : r # p => wc'[r] = wc[r]
          /\ \A k : Received(p, k) >= Received(p, k)' 
          /\ \A k : Received(p, k)' \in Nat
      BY <1>1, <1>2, <2>1, TakenDoes, TakenLessens
    <2>3. peer' \in [Peers -> HandshakeSteps] /\ PeersInFlow
      <3>1. Goto(p, "done") /\ "done" \in HandshakeSteps
        BY <2>1 DEF LeaveLoop, HandshakeSteps
      <3>2. /\ peer' \in [Peers -> HandshakeSteps] /\ peer'[p] = "done"
            /\ \A r \in Peers : r # p => peer'[r] = peer[r]
        BY <1>1, <3>1, StepsOn
      <3> QED BY <1>2, <3>2 DEF PeersInFlow, Before, Peers
    <2> QED BY <1>1, <1>2, <2>1, <2>2, <2>3, FlowTaken
  <1>4. CASE Head(wc[p]).kind # "stop"
    <2>1. Head(wc[p]).buf = 0
      BY <1>1, <1>2, TakesMessage
    <2>2. walk[p].ptr = 0 /\ Advance(walk[p]) = Start
      BY <1>1, AdvanceStays DEF Start
    <2>3. /\ Post(p, <<Message("regular", 0)>>, << 0 >>) /\ walk' = walk
          /\ Handled(p) /\ UNCHANGED peer
      BY <1>1, <1>4, <2>1, <2>2 DEF EchoClient, FlowType
    <2>4. /\ peer' \in [Peers -> HandshakeSteps] /\ peer'[p] \notin Before /\ peer'[q] = peer[q]
      BY <1>1, <1>2, <2>3 DEF FlowType, Before
    <2>5. << 0 >> \in {<< >>, << 0 >>} /\ "regular" \in Kinds
      BY DEF Kinds
    <2> HIDE DEF p, q
    <2>6. /\ FlowType' /\ (\A r \in Peers : FlowOf(r)') /\ OneUnder' /\ AllUnder = 1
      BY <1>1, <1>2, <2>3, <2>4, <2>5, AnswersMessage
    <2> QED BY <1>2, <2>3, <2>6, FlowAnswered DEF p, q, Before
  <1> QED BY <1>3, <1>4

LEMMA NoneOfFour ==
  ASSUME NEW a \in Nat, NEW b \in Nat, NEW c \in Nat, NEW d \in Nat, (a + b) + (c + d) = 0
  PROVE  a = 0 /\ b = 0 /\ c = 0 /\ d = 0
  OBVIOUS

\* What is sent when nothing is under way.
LEMMA PostsFirst ==
  ASSUME FlowInv, NEW p \in Peers, NEW q \in Peers, q = Other(p), AllUnder = 0,
         "send" \notin refused, UNCHANGED <<cq, wc, walk>>, NEW k \in Kinds,
         NEW buffers \in {<< >>, << 0 >>}, Post(p, <<Message(k, 0)>>, buffers),
         Len(buffers) + Len(recvs[p]) + Held(p) <= 1,
         peer' \in [Peers -> HandshakeSteps], peer'[p] \notin Before, peer'[q] = peer[q]
  PROVE  /\ FlowType' /\ (\A r \in Peers : FlowOf(r)') /\ OneUnder'
         /\ UnderFrom(q)' = 0 /\ Held(p)' = 0 /\ Held(q)' = 0
         /\ refused' = IF FreeSends(p) > 0 THEN refused ELSE refused \cup {"send"}
         /\ Under(p, k)' = Fits(p) /\ \A j \in Kinds \ {k} : Under(p, j)' = 0
         /\ \A j \in Kinds : Under(q, j)' = 0
         /\ Len(recvs'[p]) = Len(buffers) + Len(recvs[p]) /\ recvs'[q] = recvs[q]
  <1>1. FlowType /\ UnderNumbers /\ AllSums /\ q # p /\ \A r \in Peers : r = p \/ r = q
    BY UnderCounts, AllAddUp, OtherPeer DEF FlowInv
  <1>2. /\ Len(wire[p]) = 0 /\ Len(wire[q]) = 0 /\ Held(p) = 0 /\ Held(q) = 0
    <2>1. AllUnder = (Len(wire[p]) + Held(q)) + (Len(wire[q]) + Held(p))
      BY <1>1 DEF AllSums
    <2>2. /\ Len(wire[p]) \in Nat /\ Len(wire[q]) \in Nat /\ Held(p) \in Nat /\ Held(q) \in Nat
      BY <1>1 DEF UnderNumbers
    <2>3. AllUnder = 0
      OBVIOUS
    <2> QED BY <2>1, <2>2, <2>3, NoneOfFour
  <1>3. \A j \in Kinds : /\ Wired(p, j) = 0 /\ Wired(q, j) = 0
                         /\ Received(p, j) = 0 /\ Received(q, j) = 0
    <2>1. ASSUME NEW r \in Peers, Len(wire[r]) = 0, Held(r) = 0
          PROVE  \A j \in Kinds : Wired(r, j) = 0 /\ Received(r, j) = 0
      <3>1. /\ Wired(r, "start") \in Nat /\ Wired(r, "regular") \in Nat /\ Wired(r, "stop") \in Nat
            /\ Received(r, "start") \in Nat /\ Received(r, "regular") \in Nat
            /\ Received(r, "stop") \in Nat
            /\ Len(wire[r]) = Wired(r, "start") + Wired(r, "regular") + Wired(r, "stop")
        BY <1>1, FlowNumbers
      <3>2. Held(r) = Received(r, "start") + Received(r, "regular") + Received(r, "stop")
        BY DEF Held
      <3>3. Wired(r, "start") = 0 /\ Wired(r, "regular") = 0 /\ Wired(r, "stop") = 0
        BY <2>1, <3>1
      <3>4. Received(r, "start") = 0 /\ Received(r, "regular") = 0 /\ Received(r, "stop") = 0
        BY <2>1, <3>1, <3>2
      <3> QED BY <3>3, <3>4 DEF Kinds
    <2> QED BY <1>2, <2>1
  <1>4. Completed(p, "recv") = 0
    <2>1. Completed(p, "recv") <= Held(p) /\ Completed(p, "recv") \in Nat
      BY <1>1, FreeAreInts, FlowNumbers
    <2> QED BY <1>2, <2>1
  <1>5. PICK n \in Nat : n <= 1 /\ Len(buffers) = n
    <2>1. Len(<< >>) = 0 /\ Len(<< 0 >>) = 1
      OBVIOUS
    <2>2. Len(buffers) = 0 \/ Len(buffers) = 1
      BY <2>1
    <2>3. 0 \in Nat /\ 0 <= 1 /\ 1 \in Nat /\ 1 <= 1
      OBVIOUS
    <2> QED BY <2>2, <2>3, Zenon
  <1>6. Len(recvs[p]) \in Nat /\ Len(buffers) + Len(recvs[p]) <= 1
    <2>1. Len(recvs[p]) \in Nat
      BY <1>1 DEF UnderNumbers
    <2> QED BY <1>2, <1>4, <1>5, <2>1
  <1>6a. Len(buffers) + Len(recvs[p]) + Completed(p, "recv") <= 1
    BY <1>4, <1>5, <1>6
  <1>7. /\ recvs' \in [Peers -> Seq({0})]
        /\ \A r \in Peers : Len(recvs'[r]) = Len(recvs[r]) + (IF r = p THEN Len(buffers) ELSE 0)
        /\ \A r \in Peers : r # p => recvs'[r] = recvs[r]
    <2>1. /\ FlowType /\ p \in Peers /\ buffers \in {<< >>, << 0 >>}
          /\ Post(p, <<Message(k, 0)>>, buffers)
          /\ Len(buffers) + Len(recvs[p]) + Completed(p, "recv") <= 1
      BY <1>1, <1>6a
    <2> QED BY <2>1, PostsReceive, Zenon
  <1>8. /\ wire' \in [Peers -> Seq(Mails)] /\ unacked' \in [Peers -> Seq(Mails)]
        /\ \A r \in Peers : r # p => wire'[r] = wire[r] /\ unacked'[r] = unacked[r]
        /\ refused' = IF FreeSends(p) > 0 THEN refused ELSE refused \cup {"send"}
        /\ Wired(p, k)' = Wired(p, k) + Fits(p)
        /\ \A j : j # k => Wired(p, j)' = Wired(p, j)
        /\ Len(wire'[p]) = Len(wire[p]) + Fits(p)
        /\ Len(unacked'[p]) = Len(unacked[p]) + Fits(p)
    BY <1>1, <1>6a, PostsMessage
  <1>9. Fits(p) \in {0, 1}
    BY DEF Fits
  <1>10. FlowType'
    BY <1>1, <1>7, <1>8 DEF FlowType
  <1>11. Len(recvs'[p]) = Len(buffers) + Len(recvs[p]) /\ recvs'[q] = recvs[q]
    BY <1>1, <1>5, <1>6, <1>7
  <1>12. \A r : Held(r)' = Held(r) /\ \A j : Received(r, j)' = Received(r, j)
    BY DEF Held, Received
  <1>13. Held(p)' = 0 /\ Held(q)' = 0
    BY <1>2, <1>12
  <1>14. AllSums' /\ UnderNumbers'
    BY <1>10, AllAddUpNext, UnderCountsNext
  <1>15. Len(wire'[p]) = Fits(p) /\ wire'[q] = wire[q] /\ unacked'[q] = unacked[q]
    BY <1>1, <1>2, <1>8, <1>9
  <1>16. AllUnder' = Fits(p) /\ UnderFrom(q)' = 0
    BY <1>2, <1>9, <1>13, <1>14, <1>15, OtherPeer DEF AllSums
  <1>17. /\ Under(p, k)' = Fits(p) /\ \A j \in Kinds \ {k} : Under(p, j)' = 0
         /\ \A j \in Kinds : Under(q, j)' = 0
    <2>1. \A j \in Kinds : Wired(q, j)' = 0
      BY <1>3, <1>15 DEF Wired
    <2>2. Other(q) = p
      BY OtherPeer
    <2>3. Wired(p, k)' = Fits(p) /\ \A j \in Kinds \ {k} : Wired(p, j)' = 0
      BY <1>3, <1>8, <1>9
    <2>4. \A j : Under(p, j)' = Wired(p, j)' + Received(q, j)'
      BY DEF Under
    <2>5. \A j : Under(q, j)' = Wired(q, j)' + Received(p, j)'
      BY <2>2 DEF Under
    <2>6. \A j \in Kinds : Received(p, j)' = 0 /\ Received(q, j)' = 0
      BY <1>3, <1>12
    <2> QED BY <1>9, <2>1, <2>3, <2>4, <2>5, <2>6
  <1>18. FlowOf(p) /\ FlowOf(q) /\ Len(unacked[p]) \in Nat
    BY <1>1 DEF FlowInv, UnderNumbers
  <1>19. FlowOf(p)'
    <2>1. Len(wire'[p]) <= Len(unacked'[p])
      BY <1>8, <1>9, <1>15, <1>18
    <2>2. Len(recvs'[p]) + Held(p)' <= 1
      BY <1>5, <1>6, <1>11, <1>13
    <2> QED BY <2>1, <2>2 DEF FlowOf
  <1>20. FlowOf(q)'
    BY <1>2, <1>11, <1>13, <1>15, <1>18 DEF FlowOf
  <1>21. OneUnder'
    <2>1. CASE FreeSends(p) > 0
      BY <1>8, <1>16, <2>1 DEF OneUnder, Fits
    <2>2. CASE ~(FreeSends(p) > 0)
      BY <1>16, <2>2 DEF OneUnder, Fits
    <2> QED BY <2>1, <2>2
  <1> QED BY <1>1, <1>8, <1>10, <1>11, <1>13, <1>16, <1>17, <1>19, <1>20, <1>21

LEMMA StartServerFlow == FlowInv /\ StartServer => FlowInv'
  <1> SUFFICES ASSUME FlowInv, StartServer PROVE FlowInv'
    OBVIOUS
  <1> DEFINE p == "server"
             q == "client"
  <1>1. /\ FlowType /\ p \in Peers /\ q \in Peers /\ q = Other(p)
        /\ walk[p] = Start /\ CONCURRENT = 1
    BY DEF FlowInv, FlowType, Peers, Other
  <1>2. Positions(walk[p]) = << 0 >> /\ EndOfWalk(walk[p]) = Start
    BY <1>1, OnePosition
  <1>3. /\ peer[p] = "start" /\ Post(p, <<Message("start", 0)>>, << 0 >>)
        /\ walk' = walk /\ UNCHANGED <<cq, wc>> /\ Goto(p, "echo")
    BY <1>1, <1>2 DEF StartServer, FlowType
  <1>4. /\ AllUnder = 0 /\ "send" \notin refused /\ peer[q] \notin {"send", "echo", "stop", "done"}
        /\ Len(recvs[p]) + Held(p) = 0
    BY <1>1, <1>3 DEF FlowInv, FlowStarts, FlowOf, Before
  <1>5. "echo" \in HandshakeSteps /\ "start" \in Kinds /\ << 0 >> \in {<< >>, << 0 >>}
    BY DEF HandshakeSteps, Workload, Kinds
  <1>6. /\ peer' \in [Peers -> HandshakeSteps] /\ peer'[p] = "echo" /\ peer'[q] = peer[q]
    BY <1>1, <1>3, <1>5, StepsOn
  <1>7. Len(<< 0 >>) + Len(recvs[p]) + Held(p) <= 1
    <2>1. Len(recvs[p]) \in Nat /\ Held(p) \in Nat
      BY <1>1, UnderCounts DEF UnderNumbers
    <2> QED BY <1>4, <2>1
  <1>8. peer'[p] \notin Before
    BY <1>6 DEF Before
  <1> HIDE DEF p, q
  <1>9. /\ FlowType' /\ (\A r \in Peers : FlowOf(r)') /\ OneUnder' /\ UnderFrom(q)' = 0
    BY <1>1, <1>3, <1>4, <1>5, <1>6, <1>7, <1>8, PostsFirst
  <1>10. FlowStarts'
    BY <1>4, <1>6, <1>8, <1>9 DEF FlowStarts, p, q
  <1> QED BY <1>9, <1>10 DEF FlowInv

LEMMA SendFirstFlow == FlowInv /\ SendFirst => FlowInv'
  <1> SUFFICES ASSUME FlowInv, SendFirst PROVE FlowInv'
    OBVIOUS
  <1> DEFINE p == "client"
             q == "server"
             from == [walk[p] EXCEPT !.ptr = 0]
  <1>1. /\ FlowType /\ p \in Peers /\ q \in Peers /\ q = Other(p)
        /\ walk[p] = Start /\ CONCURRENT = 1
    BY DEF FlowInv, FlowType, Peers, Other
  <1>2. from = Start
    BY <1>1 DEF Start
  <1> HIDE DEF from
  <1>3. /\ [i \in 1 .. CONCURRENT |-> Message("regular", Positions(from)[i])]
             = <<Message("regular", 0)>>
        /\ EndOfWalk(from) = Start
    BY <1>1, <1>2, OnePosition
  <1>4. /\ peer[p] = "send" /\ Post(p, <<Message("regular", 0)>>, << >>)
        /\ walk' = walk /\ UNCHANGED <<cq, wc>> /\ Goto(p, "echo")
    <2>1. /\ peer[p] = "send"
          /\ Post(p, [i \in 1 .. CONCURRENT |-> Message("regular", Positions(from)[i])], << >>)
          /\ walk' = [walk EXCEPT ![p] = EndOfWalk(from)]
          /\ UNCHANGED <<cq, wc>> /\ Goto(p, "echo")
      BY DEF SendFirst, from
    <2> QED BY <1>1, <1>3, <2>1 DEF FlowType
  <1>5. /\ AllUnder = 0 /\ "send" \notin refused /\ peer[q] \notin Before
        /\ Len(recvs[p]) + Held(p) <= 1
    BY <1>1, <1>4 DEF FlowInv, FlowStarts, FlowOf, Before
  <1>6. "echo" \in HandshakeSteps /\ "regular" \in Kinds /\ << >> \in {<< >>, << 0 >>}
    BY DEF HandshakeSteps, Workload, Kinds
  <1>7. /\ peer' \in [Peers -> HandshakeSteps] /\ peer'[p] = "echo" /\ peer'[q] = peer[q]
    BY <1>1, <1>4, <1>6, StepsOn
  <1>8. Len(<< >>) + Len(recvs[p]) + Held(p) <= 1
    <2>1. Len(recvs[p]) \in Nat /\ Held(p) \in Nat
      BY <1>1, UnderCounts DEF UnderNumbers
    <2> QED BY <1>5, <2>1
  <1>9. peer'[p] \notin Before
    BY <1>7 DEF Before
  <1> HIDE DEF p, q
  <1>10. /\ FlowType' /\ (\A r \in Peers : FlowOf(r)') /\ OneUnder'
    BY <1>1, <1>4, <1>5, <1>6, <1>7, <1>8, <1>9, PostsFirst
  <1>11. FlowStarts'
    BY <1>5, <1>7, <1>9 DEF FlowStarts, p, q
  <1> QED BY <1>10, <1>11 DEF FlowInv

LEMMA StartClientDoes ==
  ASSUME FlowInv, StartClient
  PROVE  /\ FlowType' /\ UNCHANGED <<wire, unacked, refused, cq, wc, ops>>
         /\ peer["client"] = "start" /\ UnderFrom("client") = 0
         /\ peer'["client"] = "wait" /\ peer'["server"] = peer["server"]
         /\ Len(recvs'["client"]) = 1 /\ recvs'["server"] = recvs["server"]
         /\ Held("client") = 0 /\ \A r : Held(r)' = Held(r)
  <1> DEFINE p == "client"
             q == "server"
  <1>1. /\ FlowType /\ p \in Peers /\ q \in Peers /\ q = Other(p) /\ q # p
        /\ walk[p] = Start /\ CONCURRENT = 1 /\ \A r \in Peers : r = p \/ r = q
    BY DEF FlowInv, FlowType, Peers, Other
  <1>2. Positions(walk[p]) = << 0 >> /\ EndOfWalk(walk[p]) = Start
    BY <1>1, OnePosition
  <1>3. /\ peer[p] = "start" /\ Post(p, << >>, << 0 >>)
        /\ walk' = walk /\ UNCHANGED <<cq, wc>> /\ Goto(p, "wait")
    BY <1>1, <1>2 DEF StartClient, FlowType
  <1>4. Len(recvs[p]) + Held(p) = 0 /\ UnderFrom(p) = 0 /\ FlowOf(p) /\ FlowOf(q)
    BY <1>1, <1>3 DEF FlowInv, FlowStarts, FlowOf, Before
  <1>5. "wait" \in HandshakeSteps /\ << 0 >> \in {<< >>, << 0 >>} /\ Len(<< 0 >>) = 1
    BY DEF HandshakeSteps, Workload
  <1>6. /\ peer' \in [Peers -> HandshakeSteps] /\ peer'[p] = "wait" /\ peer'[q] = peer[q]
    BY <1>1, <1>3, <1>5, StepsOn
  <1>7. /\ Len(recvs[p]) \in Nat /\ Held(p) \in Nat /\ Completed(p, "recv") \in Nat
        /\ Completed(p, "recv") <= Held(p)
    BY <1>1, FreeAreInts, FlowNumbers
  <1>8. Len(recvs[p]) = 0 /\ Held(p) = 0 /\ Completed(p, "recv") = 0
    BY <1>4, <1>7
  <1>9. Len(<< 0 >>) + Len(recvs[p]) + Completed(p, "recv") <= 1
    BY <1>5, <1>8
  <1> HIDE DEF p, q
  <1>10. /\ recvs' \in [Peers -> Seq({0})]
         /\ \A r \in Peers : Len(recvs'[r]) = Len(recvs[r]) + (IF r = p THEN 1 ELSE 0)
         /\ \A r \in Peers : r # p => recvs'[r] = recvs[r]
    BY <1>1, <1>3, <1>5, <1>9, PostsReceive
  <1>11. UNCHANGED <<wire, unacked, refused>>
    BY <1>1, <1>3, <1>5, <1>9, PostsOnlyReceive
  <1>12. FlowType'
    BY <1>1, <1>3, <1>6, <1>10, <1>11 DEF FlowType
  <1>13. \A r : Held(r)' = Held(r)
    BY <1>3 DEF Held, Received
  <1>14. Len(recvs'[p]) = 1 /\ recvs'[q] = recvs[q]
    <2>1. Len(recvs'[p]) = Len(recvs[p]) + 1
      BY <1>1, <1>10
    <2> QED BY <1>1, <1>8, <1>10, <2>1
  <1>15. UNCHANGED ops
    BY DEF StartClient
  <1> QED BY <1>3, <1>4, <1>6, <1>8, <1>11, <1>12, <1>13, <1>14, <1>15 DEF p, q

LEMMA StartClientFlow == FlowInv /\ StartClient => FlowInv'
  <1> SUFFICES ASSUME FlowInv, StartClient PROVE FlowInv'
    OBVIOUS
  <1> DEFINE p == "client"
             q == "server"
  <1>1. /\ FlowType /\ FlowType' /\ UNCHANGED <<wire, unacked, refused, cq, wc, ops>>
        /\ peer[p] = "start" /\ UnderFrom(p) = 0
        /\ peer'[p] = "wait" /\ peer'[q] = peer[q]
        /\ Len(recvs'[p]) = 1 /\ recvs'[q] = recvs[q]
        /\ Held(p) = 0 /\ \A r : Held(r)' = Held(r)
    BY StartClientDoes DEF FlowInv
  <1>2. /\ p \in Peers /\ q \in Peers /\ \A r \in Peers : r = p \/ r = q
    BY DEF Peers
  <1>3. FlowOf(p) /\ FlowOf(q)
    BY <1>2 DEF FlowInv
  <1> HIDE DEF p, q
  <1>4. FlowOf(p)'
    BY <1>1, <1>3 DEF FlowOf, Before
  <1>5. FlowOf(q)'
    BY <1>1, <1>3 DEF FlowOf
  <1>6. UnderNumbers /\ UnderNumbers'
    BY <1>1, UnderCounts, UnderCountsNext
  <1>7. UnderFrom("client")' = UnderFrom("client") /\ AllUnder' = AllUnder
    BY <1>1, <1>6 DEF UnderNumbers
  <1>8. OneUnder' /\ FlowStarts'
    BY <1>1, <1>7 DEF FlowInv, FlowStarts, OneUnder, p, q, Before
  <1>9. \A r \in Peers : FlowOf(r)'
    BY <1>2, <1>4, <1>5
  <1> QED BY <1>1, <1>8, <1>9 DEF FlowInv

-----------------------------------------------------------------------------

LEMMA FlowInit == CONCURRENT = 1 /\ EchoInit => FlowInv
  <1> SUFFICES ASSUME CONCURRENT = 1, EchoInit PROVE FlowInv
    OBVIOUS
  <1>1. FlowType
    <2>1. << >> \in Seq(Mails) /\ << >> \in Seq({0}) /\ << >> \in Seq(Comps)
      OBVIOUS
    <2> QED BY <2>1 DEF EchoInit, FlowType, HandshakeSteps, Peers, Start
  <1>2. \A p \in Peers : /\ wire[p] = << >> /\ recvs[p] = << >> /\ unacked[p] = << >>
                         /\ cq[p] = << >> /\ wc[p] = << >>
    BY DEF EchoInit
  <1>3. \A p \in Peers : Len(wire[p]) = 0 /\ Len(recvs[p]) = 0 /\ Len(unacked[p]) = 0
    BY <1>2, EmptySeq
  <1>4. ASSUME NEW p \in Peers PROVE Held(p) = 0
    <2>1. \A k : Count(cq[p], Got(k)) = 0 /\ Count(wc[p], Got(k)) = 0
      BY <1>2, CountNone
    <2> QED BY <2>1 DEF Held, Received
  <1>5. \A p \in Peers : FlowOf(p)
    BY <1>3, <1>4 DEF FlowOf
  <1>6. AllUnder = 0 /\ UnderFrom("client") = 0
    BY <1>1, <1>3, <1>4, UnderCounts DEF UnderNumbers, Peers
  <1>7. peer["server"] = "bind" /\ peer["client"] = "connect" /\ refused = {}
    BY DEF EchoInit, Peers
  <1>8. FlowStarts /\ OneUnder
    BY <1>6, <1>7 DEF FlowStarts, OneUnder
  <1> QED BY <1>1, <1>5, <1>8 DEF FlowInv

LEMMA FlowStep == FlowInv /\ [EchoNext]_echoVars => FlowInv'
  <1> SUFFICES ASSUME FlowInv, [EchoNext]_echoVars PROVE FlowInv'
    OBVIOUS
  <1>1. CASE connect_qp_server \/ connect_qp_client
    BY <1>1, HandshakeFlow
  <1>2. "server" \in Peers /\ "client" \in Peers
    BY DEF Peers
  <1>3. CASE server_thread
    BY <1>2, <1>3, StartServerFlow, ThreadFailsFlow, PollFlow, SendCompletedFlow, EchoServerFlow
       DEF server_thread
  <1>4. CASE client_thread_func
    BY <1>2, <1>4, StartClientFlow, ThreadFailsFlow, StartSignalledFlow, SendFirstFlow, PollFlow,
       SendCompletedFlow, EchoClientFlow
       DEF client_thread_func
  <1>5. CASE Adapters
    BY <1>5, DeliverFlow, AcknowledgeFlow, GiveUpFlow DEF Adapters
  <1>6. CASE UNCHANGED echoVars
    BY <1>6, FlowStays DEF echoVars
  <1> QED BY <1>1, <1>3, <1>4, <1>5, <1>6 DEF EchoNext

LEMMA FlowAlways == CONCURRENT = 1 => (EchoSpec => []FlowInv)
  <1>1. CONCURRENT = 1 /\ EchoInit => FlowInv
    BY FlowInit
  <1>2. FlowInv /\ [EchoNext]_echoVars => FlowInv'
    BY FlowStep
  <1> QED BY <1>1, <1>2, PTL DEF EchoSpec

\* With one message in flight, as num_concurr_msgs is 1, and for queues of any
\* length: a receive always fits, and no message comes in over one that has
\* still to go out.
THEOREM BuffersAlwaysKept == CONCURRENT = 1 => (EchoSpec => []BuffersKept)
  <1>1. FlowInv => BuffersKept
    <2> SUFFICES ASSUME FlowInv, NEW p \in Peers
                 PROVE  /\ "recv" \notin refused
                        /\ \A i \in DOMAIN recvs[p] : recvs[p][i] \in 0 .. CONCURRENT - 1
                        /\ recvs[p] # << >> /\ wire[Other(p)] # << >>
                           => \A i \in DOMAIN wire[p] :
                                wire[p][i] # Message("regular", Head(recvs[p]))
      BY DEF BuffersKept, Peers
    <2> DEFINE q == Other(p)
    <2>1. FlowType /\ AllSums /\ UnderNumbers /\ OneUnder /\ q \in Peers
      BY AllAddUp, UnderCounts, OtherPeer DEF FlowInv
    <2>2. "recv" \notin refused
      BY <2>1 DEF FlowType
    <2>3. \A i \in DOMAIN recvs[p] : recvs[p][i] \in 0 .. CONCURRENT - 1
      <3>1. recvs[p] \in Seq({0}) /\ CONCURRENT = 1
        BY <2>1 DEF FlowType
      <3>2. \A i \in DOMAIN recvs[p] : recvs[p][i] = 0
        BY <3>1, ElementOfSeq, LenProperties
      <3> QED BY <3>1, <3>2
    <2>4. ASSUME wire[q] # << >> PROVE DOMAIN wire[p] = {}
      <3>1. wire[q] \in Seq(Mails) /\ wire[p] \in Seq(Mails)
        BY <2>1 DEF FlowType
      <3>2. Len(wire[q]) >= 1
        BY <2>4, <3>1, EmptySeq, LenProperties
      <3>3. AllUnder = (Len(wire[p]) + Held(q)) + (Len(wire[q]) + Held(p))
        BY <2>1 DEF AllSums
      <3>4. /\ Len(wire[p]) \in Nat /\ Len(wire[q]) \in Nat /\ Held(p) \in Nat /\ Held(q) \in Nat
            /\ AllUnder <= 1
        BY <2>1 DEF UnderNumbers, OneUnder
      <3>5. Len(wire[p]) = 0
        BY <3>2, <3>3, <3>4
      <3> QED BY <3>1, <3>5, LenProperties
    <2> QED BY <2>2, <2>3, <2>4
  <1> QED BY <1>1, FlowAlways, PTL

\* However late the acknowledgements are: once a send has been refused there is
\* no message left in either direction, neither on its way nor received and not
\* handled.
THEOREM RefusedEchoIsAlwaysOver == CONCURRENT = 1 => (EchoSpec => []RefusedEchoIsOver)
  <1>1. FlowInv => RefusedEchoIsOver
    <2> SUFFICES ASSUME FlowInv, "send" \in refused, NEW p \in Peers
                 PROVE  /\ wire[p] = << >>
                        /\ \A i \in DOMAIN cq[p] : cq[p][i].op # "recv"
                        /\ \A i \in DOMAIN wc[p] : wc[p][i].op # "recv"
      BY DEF RefusedEchoIsOver
    <2> DEFINE q == Other(p)
    <2>1. FlowType /\ AllSums /\ UnderNumbers /\ AllUnder = 0 /\ q \in Peers
      BY AllAddUp, UnderCounts, OtherPeer DEF FlowInv, OneUnder
    <2>2. wire[p] \in Seq(Mails) /\ cq[p] \in Seq(Comps) /\ wc[p] \in Seq(Comps)
      BY <2>1 DEF FlowType
    <2>3. Len(wire[p]) = 0 /\ Held(p) = 0
      <3>1. AllUnder = (Len(wire[p]) + Held(q)) + (Len(wire[q]) + Held(p))
        BY <2>1 DEF AllSums
      <3>2. /\ Len(wire[p]) \in Nat /\ Len(wire[q]) \in Nat /\ Held(p) \in Nat /\ Held(q) \in Nat
        BY <2>1 DEF UnderNumbers
      <3> QED BY <2>1, <3>1, <3>2
    <2>4. Count(cq[p], GotAny) = 0 /\ Count(wc[p], GotAny) = 0
      <3> DEFINE a(k) == Count(cq[p], Got(k))
                 b(k) == Count(wc[p], Got(k))
      <3>1. /\ a("start") \in Nat /\ a("regular") \in Nat /\ a("stop") \in Nat
            /\ b("start") \in Nat /\ b("regular") \in Nat /\ b("stop") \in Nat
        BY <2>1, FlowNumbers
      <3>2. Held(p) = (a("start") + b("start")) + (a("regular") + b("regular"))
                      + (a("stop") + b("stop"))
        BY DEF Held, Received
      <3>3. /\ Count(cq[p], GotAny) = a("start") + a("regular") + a("stop")
            /\ Count(wc[p], GotAny) = b("start") + b("regular") + b("stop")
        BY <2>2, GotsAddUp
      <3> HIDE DEF a, b
      <3> QED BY <2>3, <3>1, <3>2, <3>3
    <2> QED BY <2>2, <2>3, <2>4, GotsAddUp, EmptySeq
  <1> QED BY <1>1, FlowAlways, PTL

-----------------------------------------------------------------------------
(***************************************************************************)
(* The counts, and whose turn it is.                                       *)
(***************************************************************************)

CountsType == ops \in [Peers -> Nat]

NoneUnder(p, kinds) == \A k \in kinds : Under(p, k) = 0

\* The server has not heard anything of the client yet.
Opening ==
  /\ ops["server"] = 0 /\ ops["client"] = 0
  /\ NoneUnder("server", {"regular", "stop"})
  /\ peer["server"] \notin {"stop", "done"}
  /\ peer["client"] = "send" \/ Under("server", "start") > 0 => peer["server"] = "echo"

\* The two take turns, until a send is refused.
Running ==
  /\ ops["server"] < TOT_NUM_OPS
  /\ NoneUnder("server", {"start", "stop"}) /\ NoneUnder("client", {"start", "stop"})
  /\ ops["server"] = ops["client"] \/ ops["server"] = ops["client"] + 1
  /\ Under("client", "regular") > 0 => ops["server"] = ops["client"]
  /\ Under("server", "regular") > 0 => ops["server"] = ops["client"] + 1
  /\ "send" \notin refused => Under("server", "regular") > 0 \/ Under("client", "regular") > 0

\* The client has not heard of the end.
Stopping ==
  /\ ops["server"] = TOT_NUM_OPS /\ ops["client"] + 1 = TOT_NUM_OPS
  /\ NoneUnder("server", {"start", "regular"}) /\ NoneUnder("client", Kinds)
  /\ "send" \notin refused => Under("server", "stop") > 0

Over ==
  /\ peer["server"] \in {"stop", "done", "failed"}
  /\ ops["server"] = TOT_NUM_OPS /\ ops["client"] = TOT_NUM_OPS

Phases ==
  /\ peer["client"] # "stop" /\ peer["server"] \notin {"wait", "send"}
  /\ peer["server"] \in {"stop", "done"} => ops["server"] = TOT_NUM_OPS
  /\ peer["client"] \in Before \cup {"wait", "send"} => Opening
  /\ peer["client"] = "echo" /\ peer["server"] = "echo" => Running
  /\ peer["client"] = "echo" /\ peer["server"] \in {"stop", "done", "failed"} => Stopping
  /\ peer["client"] = "done" => Over

\* What waits has something to wait for, and what fails a reason.
Waits ==
  /\ \A p \in Peers : peer[p] \in {"wait", "send", "echo"} => Len(recvs[p]) + Held(p) = 1
  /\ \A p \in Peers : Errs(p) > 0 => Ended(Other(p))
  /\ peer["server"] = "stop" => Pending("server") > 0

EchoInv == FlowInv /\ CountsType /\ Phases /\ Waits

LEMMA TheTwo ==
  /\ "server" \in Peers /\ "client" \in Peers /\ "server" # "client"
  /\ Other("server") = "client" /\ Other("client") = "server"
  /\ \A p \in Peers : p = "server" \/ p = "client"
  BY DEF Peers, Other

\* Nothing is counted, and nothing the phases speak of is lost.
LEMMA PhasesStay ==
  ASSUME FlowInv, Phases, UNCHANGED <<ops, refused>>, peer'["client"] = peer["client"],
         \/ peer'["server"] = peer["server"]
         \/ peer["server"] = "stop" /\ peer'["server"] = "done",
         \A k \in Kinds : Under("server", k)' = Under("server", k),
         \A k \in Kinds : Under("client", k)' \in Nat /\ Under("client", k)' <= Under("client", k),
         peer["server"] = "echo" => \A k \in Kinds : Under("client", k)' = Under("client", k)
  PROVE  Phases'
  <1>1. /\ \A k \in Kinds : Under("client", k) \in Nat /\ Under("server", k) \in Nat
        /\ "start" \in Kinds /\ "regular" \in Kinds /\ "stop" \in Kinds
    BY UnderCounts, TheTwo DEF FlowInv, UnderNumbers, Kinds
  <1>2. peer["client"] \in Before \cup {"wait", "send"} => Opening'
    BY <1>1 DEF Phases, Opening, NoneUnder
  <1>3. peer["client"] = "echo" /\ peer'["server"] = "echo" => Running'
    BY <1>1 DEF Phases, Running, NoneUnder
  <1>4. peer["client"] = "echo" /\ peer'["server"] \in {"stop", "done", "failed"} => Stopping'
    <2> SUFFICES ASSUME peer["client"] = "echo", peer'["server"] \in {"stop", "done", "failed"}
                 PROVE  Stopping'
      OBVIOUS
    <2>1. Stopping
      BY DEF Phases
    <2>2. \A k \in Kinds : Under("client", k)' = 0
      <3> SUFFICES ASSUME NEW k \in Kinds PROVE Under("client", k)' = 0
        OBVIOUS
      <3>1. Under("client", k) = 0 /\ Under("client", k)' \in Nat
            /\ Under("client", k)' <= Under("client", k)
        BY <2>1 DEF Stopping, NoneUnder
      <3> QED BY <3>1
    <2> QED BY <1>1, <2>1, <2>2 DEF Stopping, NoneUnder
  <1>5. peer["client"] = "done" => Over'
    BY DEF Phases, Over
  <1> QED BY <1>2, <1>3, <1>4, <1>5 DEF Phases

\* The client is gone.
LEMMA PhasesEnded ==
  ASSUME Phases, UNCHANGED ops, peer'["client"] \in {"done", "failed"},
         peer'["client"] = "done" => peer["client"] = "done",
         peer'["server"] = peer["server"] \/ peer'["server"] = "failed"
  PROVE  Phases'
  BY DEF Phases, Over, Before

\* Before the loops.
LEMMA PhasesBefore ==
  ASSUME FlowInv, Phases, UNCHANGED <<ops, refused>>,
         \A k \in Kinds : Under("server", k)' = Under("server", k),
         \A k \in Kinds : Under("client", k)' = Under("client", k),
         \/ /\ peer["client"] \in Before /\ peer'["client"] \in Before \cup {"wait", "failed"}
            /\ peer'["server"] = peer["server"]
         \/ /\ peer["server"] \in Before /\ peer'["server"] \in Before \cup {"failed"}
            /\ peer'["client"] = peer["client"]
  PROVE  Phases'
  <1>1. "start" \in Kinds /\ "regular" \in Kinds /\ "stop" \in Kinds
    BY DEF Kinds
  <1>2. CASE /\ peer["client"] \in Before /\ peer'["client"] \in Before \cup {"wait", "failed"}
             /\ peer'["server"] = peer["server"]
    <2>1. Opening
      BY <1>2 DEF Phases
    <2>2. Opening'
      BY <1>1, <1>2, <2>1 DEF Opening, NoneUnder, Before
    <2> QED BY <1>2, <2>1, <2>2 DEF Phases, Before, Opening
  <1>3. CASE /\ peer["server"] \in Before /\ peer'["server"] \in Before \cup {"failed"}
             /\ peer'["client"] = peer["client"]
    <2>1. peer["client"] \notin {"send", "echo", "stop", "done"}
      BY <1>3 DEF FlowInv, FlowStarts
    <2>2. peer["client"] \in Before \cup {"wait", "send"} => Opening'
      <3> SUFFICES ASSUME peer["client"] \in Before \cup {"wait", "send"} PROVE Opening'
        OBVIOUS
      <3>1. Opening
        BY DEF Phases
      <3> QED BY <1>1, <1>3, <2>1, <3>1 DEF Opening, NoneUnder, Before
    <2> QED BY <1>3, <2>1, <2>2 DEF Phases, Before
  <1> QED BY <1>2, <1>3

EndsNumbers == \A p \in Peers : Errs(p) \in Nat /\ Pending(p) \in Nat

LEMMA EndsCounts == FlowType => EndsNumbers
  BY MoreNumbers DEF EndsNumbers

LEMMA EndsCountsNext == FlowType' => EndsNumbers'
  BY EndsCounts, PTL

LEMMA WaitsStay ==
  ASSUME Waits, UNCHANGED peer, FlowType, FlowType',
         \A p \in Peers : Len(recvs'[p]) + Held(p)' = Len(recvs[p]) + Held(p),
         \A p \in Peers : Errs(p)' <= Errs(p) \/ Ended(Other(p)),
         peer["server"] = "stop" => Pending("server")' = Pending("server") \/ Pending("server")' >= 1
  PROVE  Waits'
  <1>1. \A p \in Peers : Errs(p) \in Nat /\ Pending(p) \in Nat
    BY MoreNumbers
  <1>2. \A p \in Peers : Errs(p)' \in Nat /\ Pending(p)' \in Nat
    BY EndsCountsNext DEF EndsNumbers
  <1>3. \A p \in Peers : Errs(p)' > 0 => Ended(Other(p))'
    <2> SUFFICES ASSUME NEW p \in Peers, Errs(p)' > 0 PROVE Ended(Other(p))'
      OBVIOUS
    <2>1. Ended(Other(p))' <=> Ended(Other(p))
      BY DEF Ended
    <2>2. Errs(p) > 0 => Ended(Other(p))
      BY DEF Waits
    <2>3. Errs(p)' <= Errs(p) => Errs(p) > 0
      BY <1>1, <1>2
    <2> QED BY <2>1, <2>2, <2>3
  <1>4. peer'["server"] = "stop" => Pending("server")' > 0
    <2>1. Pending("server")' \in Nat
      BY <1>2, TheTwo
    <2> QED BY <2>1 DEF Waits
  <1>5. \A p \in Peers : peer'[p] \in {"wait", "send", "echo"} => Len(recvs'[p]) + Held(p)' = 1
    BY DEF Waits
  <1> QED BY <1>3, <1>4, <1>5 DEF Waits

LEMMA PollKeeps ==
  ASSUME EchoInv, FlowInv', NEW p \in Peers, PollCq(p) PROVE Phases' /\ Waits'
  <1>1. FlowInv /\ FlowType /\ FlowType' /\ Phases /\ Waits /\ UnderNumbers /\ UnderNumbers'
    BY UnderCounts, UnderCountsNext DEF EchoInv, FlowInv
  <1>2. UNCHANGED <<peer, wire, recvs, unacked, refused, ops>>
    BY DEF PollCq
  <1>3. /\ \A q \in Peers : q # p => cq'[q] = cq[q] /\ wc'[q] = wc[q]
        /\ \A k : Received(p, k)' = Received(p, k)
        /\ Errs(p)' = Errs(p) /\ Pending(p)' = Pending(p)
    BY <1>1, PollDoes
  <1>4. \A q \in Peers : q # p => UNCHANGED Queues(q)
    BY <1>2, <1>3 DEF Queues
  <1>5. \A q \in Peers : /\ \A k : Received(q, k)' = Received(q, k)
                         /\ Errs(q)' = Errs(q) /\ Pending(q)' = Pending(q)
    BY <1>3, <1>4, Untouched, UntouchedEnds
  <1>6. \A q \in Peers : Held(q)' = Held(q) /\ \A k : Wired(q, k)' = Wired(q, k)
    BY <1>2, <1>5 DEF Held, Wired
  <1>7. /\ \A k : Under("server", k)' = Under("server", k)
        /\ \A k : Under("client", k)' = Under("client", k)
    BY <1>5, <1>6, TheTwo DEF Under
  <1>8. \A k : Under("client", k) \in Nat
    BY <1>1, TheTwo DEF UnderNumbers
  <1>9. \A k \in Kinds : Under("client", k)' \in Nat /\ Under("client", k)' <= Under("client", k)
    BY <1>7, <1>8
  <1>10. Phases'
    BY <1>1, <1>2, <1>7, <1>9, PhasesStay
  <1>11. \A q \in Peers : Errs(q) \in Nat
    BY <1>1, MoreNumbers
  <1>12. \A q \in Peers : Errs(q)' <= Errs(q)
    BY <1>5, <1>11
  <1>13. Waits'
    BY <1>1, <1>2, <1>5, <1>6, <1>12, TheTwo, WaitsStay
  <1> QED BY <1>10, <1>13

LEMMA AcknowledgeKeeps ==
  ASSUME EchoInv, FlowInv', NEW p \in Peers, Acknowledge(p) PROVE Phases' /\ Waits'
  <1>1. FlowInv /\ FlowType /\ FlowType' /\ Phases /\ Waits /\ UnderNumbers /\ UnderNumbers'
    BY UnderCounts, UnderCountsNext DEF EchoInv, FlowInv
  <1>2. UNCHANGED <<peer, wire, recvs, wc, refused, ops>>
    BY DEF Acknowledge
  <1>3. /\ \A q \in Peers : q # p => cq'[q] = cq[q]
        /\ \A q \in Peers : q # p => unacked'[q] = unacked[q]
        /\ \A k : Received(p, k)' = Received(p, k)
        /\ Errs(p)' = Errs(p) /\ Pending(p)' = Pending(p)
    BY <1>1, AcknowledgeDoes
  <1>4. \A q \in Peers : q # p => UNCHANGED Queues(q)
    BY <1>2, <1>3 DEF Queues
  <1>5. \A q \in Peers : /\ \A k : Received(q, k)' = Received(q, k)
                         /\ Errs(q)' = Errs(q) /\ Pending(q)' = Pending(q)
    BY <1>3, <1>4, Untouched, UntouchedEnds
  <1>6. \A q \in Peers : Held(q)' = Held(q) /\ \A k : Wired(q, k)' = Wired(q, k)
    BY <1>2, <1>5 DEF Held, Wired
  <1>7. /\ \A k : Under("server", k)' = Under("server", k)
        /\ \A k : Under("client", k)' = Under("client", k)
    BY <1>5, <1>6, TheTwo DEF Under
  <1>8. \A k : Under("client", k) \in Nat
    BY <1>1, TheTwo DEF UnderNumbers
  <1>9. \A k \in Kinds : Under("client", k)' \in Nat /\ Under("client", k)' <= Under("client", k)
    BY <1>7, <1>8
  <1>10. Phases'
    BY <1>1, <1>2, <1>7, <1>9, PhasesStay
  <1>11. \A q \in Peers : Errs(q) \in Nat
    BY <1>1, MoreNumbers
  <1>12. \A q \in Peers : Errs(q)' <= Errs(q)
    BY <1>5, <1>11
  <1>13. Waits'
    BY <1>1, <1>2, <1>5, <1>6, <1>12, TheTwo, WaitsStay
  <1> QED BY <1>10, <1>13

LEMMA DeliverKeeps ==
  ASSUME EchoInv, FlowInv', NEW p \in Peers, Deliver(p) PROVE Phases' /\ Waits'
  <1> DEFINE q == Other(p)
  <1>1. /\ FlowInv /\ FlowType /\ FlowType' /\ Phases /\ Waits /\ UnderNumbers /\ UnderNumbers'
        /\ q \in Peers /\ q # p /\ Other(q) = p /\ \A r \in Peers : r = p \/ r = q
    BY UnderCounts, UnderCountsNext, OtherPeer DEF EchoInv, FlowInv
  <1>2. UNCHANGED <<peer, unacked, wc, refused, ops>>
    BY DEF Deliver
  <1>3. /\ wire'[q] = wire[q] /\ cq'[p] = cq[p] /\ recvs'[p] = recvs[p]
        /\ Len(recvs'[q]) = Len(recvs[q]) - 1
        /\ \A k : Under(p, k)' = Under(p, k)
        /\ Held(q)' = Held(q) + 1
        /\ Errs(q)' = Errs(q) /\ Pending(q)' = Pending(q)
    BY <1>1, DeliverDoes
  <1> HIDE DEF q
  <1>4. /\ \A k : Received(p, k)' = Received(p, k) /\ Wired(q, k)' = Wired(q, k)
        /\ Errs(p)' = Errs(p) /\ Pending(p)' = Pending(p)
    BY <1>2, <1>3 DEF Received, Wired, Errs, Pending
  <1>5. \A k : Under(q, k)' = Under(q, k)
    BY <1>1, <1>4 DEF Under
  <1>6. Held(p)' = Held(p)
    BY <1>4 DEF Held
  <1>7. /\ \A k : Under("server", k)' = Under("server", k)
        /\ \A k : Under("client", k)' = Under("client", k)
    BY <1>1, <1>3, <1>5, TheTwo
  <1>8. \A k : Under("client", k) \in Nat
    BY <1>1, TheTwo DEF UnderNumbers
  <1>9. \A k \in Kinds : Under("client", k)' \in Nat /\ Under("client", k)' <= Under("client", k)
    BY <1>7, <1>8
  <1>10. Phases'
    BY <1>1, <1>2, <1>7, <1>9, PhasesStay
  <1>11. \A r \in Peers : Errs(r) \in Nat /\ Errs(r)' = Errs(r) /\ Pending(r)' = Pending(r)
    BY <1>1, <1>3, <1>4, MoreNumbers
  <1>12. \A r \in Peers : Errs(r)' <= Errs(r)
    BY <1>11
  <1>13. \A r \in Peers : Len(recvs'[r]) + Held(r)' = Len(recvs[r]) + Held(r)
    <2>1. /\ Len(recvs[p]) \in Nat /\ Held(p) \in Nat /\ Len(recvs[q]) \in Nat /\ Held(q) \in Nat
      BY <1>1 DEF UnderNumbers
    <2>2. Len(recvs'[q]) + Held(q)' = Len(recvs[q]) + Held(q)
      BY <1>3, <2>1
    <2> QED BY <1>1, <1>3, <1>6, <2>2
  <1>14. Waits'
    BY <1>1, <1>2, <1>11, <1>12, <1>13, TheTwo, WaitsStay
  <1> QED BY <1>10, <1>14

LEMMA GiveUpKeeps ==
  ASSUME EchoInv, FlowInv', NEW p \in Peers, GiveUp(p) PROVE Phases' /\ Waits'
  <1> DEFINE q == Other(p)
  <1>1. /\ FlowInv /\ FlowType /\ FlowType' /\ Phases /\ Waits /\ UnderNumbers /\ UnderNumbers'
        /\ q \in Peers /\ q # p /\ Other(q) = p /\ \A r \in Peers : r = p \/ r = q
    BY UnderCounts, UnderCountsNext, OtherPeer DEF EchoInv, FlowInv
  <1>2. UNCHANGED <<peer, recvs, wc, refused, ops>> /\ Ended(q)
    BY DEF GiveUp
  <1>3. /\ \A r \in Peers : r # p => cq'[r] = cq[r] /\ wire'[r] = wire[r] /\ unacked'[r] = unacked[r]
        /\ \A k : Wired(p, k)' = 0 /\ Received(p, k)' = Received(p, k)
        /\ Pending(p)' >= 1
    BY <1>1, GiveUpDoes
  <1> HIDE DEF q
  <1>4. UNCHANGED Queues(q)
    BY <1>1, <1>2, <1>3 DEF Queues
  <1>5. /\ \A k : Received(q, k)' = Received(q, k) /\ Wired(q, k)' = Wired(q, k)
        /\ Held(q)' = Held(q) /\ Errs(q)' = Errs(q) /\ Pending(q)' = Pending(q)
    BY <1>4, Untouched, UntouchedEnds
  <1>6. /\ \A k : Under(q, k)' = Under(q, k)
    BY <1>1, <1>3, <1>5 DEF Under
  <1>7. \A k : Under(p, k)' \in Nat /\ Under(p, k)' <= Under(p, k)
    <2> SUFFICES ASSUME NEW k PROVE Under(p, k)' \in Nat /\ Under(p, k)' <= Under(p, k)
      OBVIOUS
    <2>1. /\ Under(p, k) = Wired(p, k) + Received(q, k)
          /\ Under(p, k)' = Wired(p, k)' + Received(q, k)'
      BY DEF Under, q
    <2>2. Wired(p, k) \in Nat /\ Received(q, k) \in Nat
      BY <1>1 DEF UnderNumbers
    <2> QED BY <1>3, <1>5, <2>1, <2>2
  <1>8. Phases'
    <2>1. CASE p = "client"
      <3>1. q = "server"
        BY <2>1, TheTwo DEF q
      <3> QED BY <1>1, <1>2, <1>6, <1>7, <2>1, <3>1, PhasesStay DEF Ended
    <2>2. CASE p = "server"
      <3>1. q = "client"
        BY <2>2, TheTwo DEF q
      <3> QED BY <1>1, <1>2, <3>1, PhasesEnded DEF Ended
    <2> QED BY <2>1, <2>2, TheTwo
  <1>9. Held(p)' = Held(p)
    BY <1>3 DEF Held
  <1>10. \A r \in Peers : Errs(r)' <= Errs(r) \/ Ended(Other(r))
    <2>1. Errs(q)' <= Errs(q)
      BY <1>1, <1>5, MoreNumbers
    <2>2. Ended(Other(p))
      BY <1>2 DEF q
    <2> QED BY <1>1, <2>1, <2>2
  <1>11. \A r \in Peers : Len(recvs'[r]) + Held(r)' = Len(recvs[r]) + Held(r)
    BY <1>1, <1>2, <1>5, <1>9
  <1>12. Pending("server")' = Pending("server") \/ Pending("server")' >= 1
    BY <1>1, <1>3, <1>5, TheTwo
  <1>13. Waits'
    BY <1>1, <1>2, <1>10, <1>11, <1>12, WaitsStay
  <1> QED BY <1>8, <1>13

LEMMA SendCompletedKeeps ==
  ASSUME EchoInv, FlowInv', NEW p \in Peers, SendCompleted(p) PROVE Phases' /\ Waits'
  <1> DEFINE c == Head(wc[p])
  <1>1. /\ FlowInv /\ FlowType /\ FlowType' /\ Phases /\ Waits /\ UnderNumbers /\ UnderNumbers'
    BY UnderCounts, UnderCountsNext DEF EchoInv, FlowInv
  <1>2. /\ UNCHANGED <<wire, recvs, unacked, cq, refused, ops>> /\ wc[p] # << >>
        /\ \/ c.op = "send" /\ peer[p] \in {"wait", "echo", "stop"}
           \/ c.op = "recv" /\ peer[p] = "stop"
        /\ \/ Handled(p) /\ UNCHANGED peer /\ ~(c.op = "send" /\ c.kind = "stop" /\ peer[p] = "stop")
           \/ peer[p] = "stop" /\ LeaveLoop(p, "done")
    BY DEF SendCompleted, NextWc
  <1>3. Handled(p) \/ wc' = [wc EXCEPT ![p] = << >>]
    BY <1>2 DEF LeaveLoop
  <1>4. /\ \A q \in Peers : q # p => wc'[q] = wc[q]
        /\ \A k : Received(p, k) >= Received(p, k)'
        /\ \A k : Received(p, k)' \in Nat
        /\ Errs(p) >= Errs(p)'
    BY <1>1, <1>2, <1>3, TakenDoes, TakenLessens
  <1>5. \A q \in Peers : q # p => UNCHANGED Queues(q)
    BY <1>2, <1>4 DEF Queues
  <1>6. \A q \in Peers : q # p => /\ \A k : Received(q, k)' = Received(q, k)
                                  /\ Held(q)' = Held(q)
                                  /\ Errs(q)' = Errs(q) /\ Pending(q)' = Pending(q)
    BY <1>5, Untouched, UntouchedEnds
  <1>7. \A q : \A k : Wired(q, k)' = Wired(q, k)
    BY <1>2 DEF Wired
  <1>8. \A q \in Peers : \A k : Received(q, k) \in Nat /\ Wired(q, k) \in Nat
    BY <1>1 DEF UnderNumbers
  <1>9. c.op = "send" /\ Handled(p) => \A k : Received(p, k)' = Received(p, k)
    <2> SUFFICES ASSUME c.op = "send", Handled(p), NEW k PROVE Received(p, k)' = Received(p, k)
      OBVIOUS
    <2>1. Received(p, k) = Received(p, k)' + Bit(c.op = "recv" /\ c.kind = k)
          /\ Received(p, k)' \in Nat
      BY <1>1, <1>2, HandledDoes
    <2>2. Bit(c.op = "recv" /\ c.kind = k) = 0
      BY DEF Bit
    <2> QED BY <2>1, <2>2
  <1>10. peer["client"] # "stop"
    BY <1>1 DEF Phases
  <1>11. Phases'
    <2>1. \A k : Under("client", k)' \in Nat /\ Under("client", k)' <= Under("client", k)
      <3> SUFFICES ASSUME NEW k
                   PROVE  Under("client", k)' \in Nat /\ Under("client", k)' <= Under("client", k)
        OBVIOUS
      <3>1. /\ Under("client", k) = Wired("client", k) + Received("server", k)
            /\ Under("client", k)' = Wired("client", k)' + Received("server", k)'
        BY TheTwo DEF Under
      <3>2. /\ Wired("client", k) \in Nat /\ Received("server", k) \in Nat
            /\ Wired("client", k)' = Wired("client", k)
        BY <1>7, <1>8, TheTwo
      <3>3. Received("server", k)' \in Nat /\ Received("server", k)' <= Received("server", k)
        <4>1. CASE p = "server"
          BY <1>4, <1>8, <4>1, TheTwo
        <4>2. CASE p # "server"
          BY <1>6, <3>2, <4>2, TheTwo
        <4> QED BY <4>1, <4>2
      <3> QED BY <3>1, <3>2, <3>3
    <2>2. CASE p = "client"
      <3>1. Handled(p) /\ UNCHANGED peer /\ c.op = "send"
        BY <1>2, <1>10, <2>2
      <3>2. \A k : Received("client", k)' = Received("client", k)
                   /\ Received("server", k)' = Received("server", k)
        BY <1>6, <1>9, <2>2, <3>1, TheTwo
      <3>3. /\ \A k : Under("server", k)' = Under("server", k)
            /\ \A k : Under("client", k)' = Under("client", k)
        BY <1>7, <3>2, TheTwo DEF Under
      <3> QED BY <1>1, <1>2, <2>1, <3>1, <3>3, PhasesStay
    <2>3. CASE p = "server"
      <3>1. \A k : Under("server", k)' = Under("server", k)
        BY <1>6, <1>7, <2>3, TheTwo DEF Under
      <3>2. /\ peer'["client"] = peer["client"]
            /\ \/ peer'["server"] = peer["server"]
               \/ peer["server"] = "stop" /\ peer'["server"] = "done"
        BY <1>1, <1>2, <2>3, TheTwo DEF LeaveLoop, Goto, FlowType
      <3>3. peer["server"] = "echo" => \A k \in Kinds : Under("client", k)' = Under("client", k)
        <4> SUFFICES ASSUME peer["server"] = "echo"
                     PROVE  \A k : Under("client", k)' = Under("client", k)
          OBVIOUS
        <4>1. c.op = "send" /\ Handled(p)
          BY <1>2, <2>3
        <4>2. \A k : Received("server", k)' = Received("server", k)
          BY <1>9, <2>3, <4>1
        <4> QED BY <1>7, <4>2, TheTwo DEF Under
      <3> QED BY <1>1, <1>2, <2>1, <3>1, <3>2, <3>3, PhasesStay
    <2> QED BY <2>2, <2>3, TheTwo
  <1>12. Waits'
    <2>1. ASSUME NEW q \in Peers, peer'[q] \in {"wait", "send", "echo"}
          PROVE  Len(recvs'[q]) + Held(q)' = 1
      <3>1. peer'[q] = peer[q] /\ (q = p => Handled(p) /\ c.op = "send")
        BY <1>1, <1>2, <2>1 DEF LeaveLoop, Goto, FlowType
      <3>2. Held(q)' = Held(q)
        <4>1. CASE q = p
          BY <1>9, <3>1, <4>1 DEF Held
        <4>2. CASE q # p
          BY <1>6, <4>2
        <4> QED BY <4>1, <4>2
      <3> QED BY <1>1, <1>2, <2>1, <3>1, <3>2 DEF Waits
    <2>2. \A q \in Peers : Errs(q) \in Nat /\ Errs(q)' \in Nat /\ Pending(q) \in Nat
      BY <1>1, EndsCounts, EndsCountsNext DEF EndsNumbers
    <2>3. ASSUME NEW q \in Peers, Errs(q)' > 0 PROVE Ended(Other(q))'
      <3>1. Errs(q)' <= Errs(q)
        <4>1. CASE q = p
          BY <1>4, <2>2, <4>1
        <4>2. CASE q # p
          BY <1>6, <2>2, <4>2
        <4> QED BY <4>1, <4>2
      <3>2. Errs(q) > 0
        BY <2>2, <2>3, <3>1
      <3>3. peer[Other(q)] \in {"failed", "done"} /\ Other(q) \in Peers
        BY <1>1, <3>2, OtherPeer DEF Waits, Ended
      <3>4. peer'[Other(q)] = peer[Other(q)] \/ peer'[Other(q)] = "done"
        BY <1>1, <1>2, <3>3 DEF LeaveLoop, Goto, FlowType
      <3> QED BY <3>3, <3>4 DEF Ended
    <2>4. ASSUME peer'["server"] = "stop" PROVE Pending("server")' > 0
      <3>1. peer["server"] = "stop"
        BY <1>1, <1>2, <2>4, TheTwo DEF LeaveLoop, Goto, FlowType
      <3>2. Pending("server") > 0
        BY <1>1, <3>1 DEF Waits
      <3>3. CASE p # "server"
        BY <1>6, <3>2, <3>3, TheTwo
      <3>4. CASE p = "server"
        <4>1. Handled(p) /\ ~(c.op = "send" /\ c.kind = "stop") /\ c.op # "error"
          BY <1>1, <1>2, <2>4, <3>1, <3>4, TheTwo DEF LeaveLoop, Goto, FlowType
        <4>2. /\ Count(wc[p], Ends)
                   = Count(wc'[p], Ends) + Bit(c.op = "error" \/ (c.op = "send" /\ c.kind = "stop"))
              /\ Count(wc'[p], Ends) \in Nat
          BY <1>1, <1>2, <4>1, HandledDoes
        <4>3. Bit(c.op = "error" \/ (c.op = "send" /\ c.kind = "stop")) = 0
          BY <4>1 DEF Bit
        <4>4. Count(wc'[p], Ends) = Count(wc[p], Ends)
          BY <4>2, <4>3
        <4>5. Pending(p)' = Pending(p)
          BY <1>2, <4>4 DEF Pending
        <4> QED BY <3>2, <3>4, <4>5
      <3> QED BY <3>3, <3>4
    <2> QED BY <2>1, <2>3, <2>4 DEF Waits
  <1> QED BY <1>11, <1>12

LEMMA SendFailedKeeps ==
  ASSUME EchoInv, FlowInv', NEW p \in Peers, SendFailed(p) PROVE Phases' /\ Waits'
  <1> DEFINE q == Other(p)
  <1>1. /\ FlowInv /\ FlowType /\ FlowType' /\ Phases /\ Waits
        /\ q \in Peers /\ q # p /\ Other(q) = p /\ \A r \in Peers : r = p \/ r = q
    BY OtherPeer DEF EchoInv, FlowInv
  <1>2. /\ UNCHANGED <<wire, recvs, unacked, cq, refused, ops>> /\ wc[p] # << >>
        /\ Head(wc[p]).op = "error" /\ wc' = [wc EXCEPT ![p] = << >>] /\ Goto(p, "failed")
    BY DEF SendFailed, NextWc, LeaveLoop
  <1>3. /\ \A r \in Peers : r # p => wc'[r] = wc[r]
        /\ Errs(p) >= 1
    BY <1>1, <1>2, TakenDoes, TakenLessens
  <1>4. Errs(p) \in Nat
    BY <1>1, EndsCounts DEF EndsNumbers
  <1>5. Ended(q)
    BY <1>1, <1>3, <1>4 DEF Waits
  <1>6. peer'[p] = "failed" /\ peer'[q] = peer[q]
    BY <1>1, <1>2 DEF Goto, FlowType
  <1> HIDE DEF q
  <1>7. UNCHANGED Queues(q)
    BY <1>1, <1>2, <1>3 DEF Queues
  <1>8. Held(q)' = Held(q) /\ Errs(q)' = Errs(q) /\ Pending(q)' = Pending(q)
    BY <1>7, Untouched, UntouchedEnds
  <1>9. Phases'
    <2>1. CASE p = "client"
      <3>1. q = "server"
        BY <2>1, TheTwo DEF q
      <3> QED BY <1>1, <1>2, <1>6, <2>1, <3>1, PhasesEnded
    <2>2. CASE p = "server"
      <3>1. q = "client"
        BY <2>2, TheTwo DEF q
      <3> QED BY <1>1, <1>2, <1>5, <1>6, <2>2, <3>1, PhasesEnded DEF Ended
    <2> QED BY <2>1, <2>2, TheTwo
  <1>10. Waits'
    <2>1. \A r \in Peers : peer'[r] \in {"wait", "send", "echo"} => Len(recvs'[r]) + Held(r)' = 1
      BY <1>1, <1>2, <1>6, <1>8 DEF Waits
    <2>2. \A r \in Peers : Errs(r)' > 0 => Ended(Other(r))'
      <3>1. Ended(Other(p))'
        BY <1>5, <1>6 DEF Ended, q
      <3>2. Ended(Other(q))'
        BY <1>1, <1>6 DEF Ended
      <3> QED BY <1>1, <3>1, <3>2
    <2>3. peer'["server"] = "stop" => Pending("server")' > 0
      <3> SUFFICES ASSUME peer'["server"] = "stop" PROVE Pending("server")' > 0
        OBVIOUS
      <3>1. q = "server" /\ peer["server"] = "stop"
        BY <1>1, <1>6, TheTwo
      <3> QED BY <1>1, <1>8, <3>1 DEF Waits
    <2> QED BY <2>1, <2>2, <2>3 DEF Waits
  <1> QED BY <1>9, <1>10

LEMMA WaitsAfter ==
  ASSUME Waits, FlowType, FlowType', NEW p \in Peers, NEW q \in Peers, q = Other(p),
         ~Ended(p), peer'[q] = peer[q], recvs'[q] = recvs[q], Held(q)' = Held(q),
         Errs(p)' <= Errs(p), Errs(q)' = Errs(q), Pending(q)' = Pending(q),
         peer'[p] \in {"wait", "send", "echo"} => Len(recvs'[p]) + Held(p)' = 1,
         p = "server" /\ peer'[p] = "stop" => Pending(p)' > 0
  PROVE  Waits'
  <1>1. /\ q # p /\ Other(q) = p /\ \A r \in Peers : r = p \/ r = q
    BY OtherPeer
  <1>2. /\ Errs(p) \in Nat /\ Errs(q) \in Nat /\ Errs(p)' \in Nat /\ Errs(q)' \in Nat
    BY EndsCounts, EndsCountsNext DEF EndsNumbers
  <1>3. Errs(q)' = 0
    <2>1. ~(Errs(q) > 0)
      BY <1>1 DEF Waits
    <2> QED BY <1>2, <2>1
  <1>4. Errs(p)' > 0 => Ended(q)'
    <2>1. Errs(p)' > 0 => Errs(p) > 0
      BY <1>2
    <2>2. Errs(p) > 0 => Ended(q)
      BY DEF Waits
    <2>3. Ended(q)' <=> Ended(q)
      BY DEF Ended
    <2> QED BY <2>1, <2>2, <2>3
  <1>5. \A r \in Peers : Errs(r)' > 0 => Ended(Other(r))'
    BY <1>1, <1>3, <1>4
  <1>6. \A r \in Peers : peer'[r] \in {"wait", "send", "echo"} => Len(recvs'[r]) + Held(r)' = 1
    BY <1>1 DEF Waits
  <1>7. peer'["server"] = "stop" => Pending("server")' > 0
    BY <1>1, TheTwo DEF Waits
  <1> QED BY <1>5, <1>6, <1>7 DEF Waits

\* The message that is handled.
LEMMA TakenUnder ==
  ASSUME FlowInv, NEW p \in Peers, NEW q \in Peers, q = Other(p),
         wc[p] # << >>, NEW c, c = Head(wc[p]), c.op = "recv"
  PROVE  /\ c.kind \in Kinds /\ Under(q, c.kind) = 1 /\ UnderFrom(q) > 0
         /\ \A k \in Kinds : Under(p, k) = 0 /\ (k # c.kind => Under(q, k) = 0)
  <1>1. /\ c.kind \in Kinds
        /\ \A k \in Kinds : /\ Received(p, k) = Bit(k = c.kind) /\ Received(q, k) = 0
                            /\ Wired(p, k) = 0 /\ Wired(q, k) = 0
    BY TakesMessage
  <1>2. Other(q) = p
    BY OtherPeer
  <1>3. \A k \in Kinds : Under(p, k) = 0
    BY <1>1 DEF Under
  <1>4. Received(p, c.kind) = 1 /\ \A k \in Kinds : k # c.kind => Received(p, k) = 0
    BY <1>1 DEF Bit
  <1>5. Under(q, c.kind) = 1 /\ \A k \in Kinds : k # c.kind => Under(q, k) = 0
    BY <1>1, <1>2, <1>4 DEF Under
  <1>6. UnderFrom(q) > 0
    <2>1. Under(q, "start") \in Nat /\ Under(q, "regular") \in Nat /\ Under(q, "stop") \in Nat
      BY UnderCounts DEF FlowInv, UnderNumbers
    <2>2. UnderFrom(q) = Under(q, "start") + Under(q, "regular") + Under(q, "stop")
      BY DEF UnderFrom
    <2> QED BY <1>1, <1>5, <2>1, <2>2 DEF Kinds
  <1> QED BY <1>1, <1>3, <1>5, <1>6

LEMMA EchoServerKeeps ==
  ASSUME EchoInv, FlowInv', EchoServer PROVE Phases' /\ Waits' /\ CountsType'
  <1> DEFINE p == "server"
             q == "client"
             c == Head(wc[p])
             os == ops["server"]
             oc == ops["client"]
  <1>1. /\ FlowInv /\ FlowType /\ FlowType' /\ Phases /\ Waits
        /\ p \in Peers /\ q \in Peers /\ q = Other(p) /\ q # p
    BY TheTwo DEF EchoInv, FlowInv
  <1>2. /\ peer[p] = "echo" /\ wc[p] # << >> /\ c.op = "recv" /\ UNCHANGED <<cq, walk>>
        /\ ops' = [ops EXCEPT ![p] = @ + 1]
    BY DEF EchoServer, NextWc
  <1>3. c.buf = 0
    BY <1>1, <1>2, TakesMessage
  <1>4. /\ os \in Nat /\ oc \in Nat /\ ops'[p] = os + 1 /\ ops'[q] = oc /\ CountsType'
        /\ TOT_NUM_OPS \in Nat \ {0}
    BY <1>1, <1>2, EchoConstants DEF EchoInv, CountsType
  <1>5. \/ /\ os + 1 = TOT_NUM_OPS /\ Post(p, <<Message("stop", 0)>>, << >>)
           /\ LeaveLoop(p, IF FreeSends(p) > 0 THEN "stop" ELSE "failed")
        \/ /\ os + 1 # TOT_NUM_OPS /\ Post(p, <<Message("regular", 0)>>, << 0 >>)
           /\ Handled(p) /\ UNCHANGED peer
    BY <1>3 DEF EchoServer
  <1>6. Handled(p) \/ wc' = [wc EXCEPT ![p] = << >>]
    BY <1>5 DEF LeaveLoop
  <1>7. /\ c.kind \in Kinds /\ Under(q, c.kind) = 1 /\ UnderFrom(q) > 0
        /\ Held(q) = 0
    BY <1>1, <1>2, TakenUnder, TakesMessage
  <1>8. /\ Held(p)' = 0 /\ Held(q)' = 0 /\ wc'[q] = wc[q]
        /\ Errs(p)' <= Errs(p) /\ Errs(q)' = Errs(q)
    BY <1>1, <1>2, <1>6, TakenAll
  <1>9. peer[q] \in {"echo", "failed"}
    <2>1. peer[q] \notin Before \cup {"wait", "send"}
      BY <1>1, <1>7 DEF FlowInv, FlowStarts
    <2>2. peer[q] \notin {"stop", "done"}
      BY <1>1, <1>2 DEF Phases, Over
    <2> QED BY <1>1, <2>1, <2>2 DEF FlowType, HandshakeSteps, Before, Workload
  <1>10. peer[q] = "echo" => /\ Running /\ c.kind = "regular" /\ os = oc
    <2> SUFFICES ASSUME peer[q] = "echo" PROVE Running /\ c.kind = "regular" /\ os = oc
      OBVIOUS
    <2>1. Running
      BY <1>1, <1>2 DEF Phases
    <2>2. c.kind = "regular"
      BY <1>7, <2>1 DEF Running, NoneUnder, Kinds
    <2> QED BY <1>7, <2>1, <2>2 DEF Running
  <1>11. CASE os + 1 # TOT_NUM_OPS
    <2>1. /\ Post(p, <<Message("regular", 0)>>, << 0 >>) /\ Handled(p) /\ UNCHANGED peer
      BY <1>5, <1>11
    <2>2. /\ peer' \in [Peers -> HandshakeSteps] /\ peer'[p] \notin Before /\ peer'[q] = peer[q]
      BY <1>1, <1>2, <2>1 DEF FlowType, Before
    <2>3. << 0 >> \in {<< >>, << 0 >>} /\ "regular" \in Kinds /\ "start" \in Kinds /\ "stop" \in Kinds
      BY DEF Kinds
    <2> HIDE DEF p, q
    <2>4. /\ refused' = IF FreeSends(p) > 0 THEN refused ELSE refused \cup {"send"}
          /\ Under(p, "regular")' = Fits(p) /\ \A j \in Kinds \ {"regular"} : Under(p, j)' = 0
          /\ \A j \in Kinds : Under(q, j)' = 0
          /\ Len(recvs'[p]) = 1 /\ recvs'[q] = recvs[q]
          /\ unacked'[q] = unacked[q]
      <3>1. PICK k \in Kinds, buffers \in {<< >>, << 0 >>} :
              k = "regular" /\ Len(buffers) = 1 /\ Post(p, <<Message(k, 0)>>, buffers)
        <4>1. Len(<< 0 >>) = 1
          OBVIOUS
        <4> QED BY <2>1, <2>3, <4>1
      <3>2. /\ refused' = IF FreeSends(p) > 0 THEN refused ELSE refused \cup {"send"}
            /\ Under(p, k)' = Fits(p) /\ \A j \in Kinds \ {k} : Under(p, j)' = 0
            /\ \A j \in Kinds : Under(q, j)' = 0
            /\ Len(recvs'[p]) = Len(buffers) /\ recvs'[q] = recvs[q]
            /\ unacked'[q] = unacked[q]
        BY <1>1, <1>2, <2>1, <2>2, <3>1, AnswersMessage
      <3> QED BY <3>1, <3>2
    <2>5. Fits(p) \in {0, 1} /\ (Fits(p) = 1 <=> FreeSends(p) > 0)
      BY DEF Fits
    <2>6. Phases'
      <3>1. CASE peer[q] = "echo"
        <4>1. Running
          BY <1>10, <3>1
        <4>2. os + 1 < TOT_NUM_OPS
          BY <1>4, <1>11, <4>1 DEF Running
        <4>3. "send" \notin refused' => Fits(p) = 1
          BY <2>4, <2>5
        <4>4. Running'
          <5>1. Under("server", "regular")' = Fits(p) /\ Under("client", "regular")' = 0
            BY <2>3, <2>4 DEF p, q
          <5>2. NoneUnder("server", {"start", "stop"})' /\ NoneUnder("client", {"start", "stop"})'
            BY <2>3, <2>4 DEF p, q, NoneUnder
          <5>3. ops'["server"] = ops'["client"] + 1 /\ ops'["server"] < TOT_NUM_OPS
            BY <1>4, <1>10, <3>1, <4>2 DEF p, q
          <5> QED BY <4>3, <5>1, <5>2, <5>3 DEF Running
        <4> QED BY <1>2, <2>1, <3>1, <4>4 DEF Phases, p, q, Before
      <3>2. CASE peer[q] = "failed"
        BY <1>2, <2>1, <3>2 DEF Phases, p, q, Before
      <3> QED BY <1>9, <3>1, <3>2
    <2>7. Pending(q)' = Pending(q)
      BY <1>2, <1>8, <2>4 DEF Pending
    <2>8. Len(recvs'[p]) + Held(p)' = 1
      BY <1>8, <2>4
    <2>9. ~Ended(p) /\ Held(q)' = Held(q) /\ peer'[p] = "echo"
      BY <1>2, <1>7, <1>8, <2>1 DEF Ended
    <2>10. Waits'
      BY <1>1, <1>8, <2>2, <2>4, <2>7, <2>8, <2>9, WaitsAfter
    <2> QED BY <1>4, <2>6, <2>10
  <1>12. CASE os + 1 = TOT_NUM_OPS
    <2> DEFINE step == IF FreeSends(p) > 0 THEN "stop" ELSE "failed"
    <2>1. /\ Post(p, <<Message("stop", 0)>>, << >>) /\ wc' = [wc EXCEPT ![p] = << >>]
          /\ Goto(p, step)
      BY <1>5, <1>12 DEF LeaveLoop
    <2>2. step \in {"stop", "failed"} /\ step \in HandshakeSteps \ Before
      BY DEF HandshakeSteps, Workload, Before
    <2>3. /\ peer' \in [Peers -> HandshakeSteps] /\ peer'[p] = step /\ peer'[q] = peer[q]
      BY <1>1, <2>1, <2>2, StepsOn
    <2>4. << >> \in {<< >>, << 0 >>} /\ "regular" \in Kinds /\ "start" \in Kinds /\ "stop" \in Kinds
      BY DEF Kinds
    <2> HIDE DEF p, q, step
    <2>5. /\ refused' = IF FreeSends(p) > 0 THEN refused ELSE refused \cup {"send"}
          /\ Under(p, "stop")' = Fits(p) /\ \A j \in Kinds \ {"stop"} : Under(p, j)' = 0
          /\ \A j \in Kinds : Under(q, j)' = 0
          /\ recvs'[q] = recvs[q] /\ unacked'[q] = unacked[q]
          /\ Count(unacked'[p], Mail("stop")) = Count(unacked[p], Mail("stop")) + Fits(p)
      <3>1. PICK k \in Kinds, buffers \in {<< >>, << 0 >>} :
              k = "stop" /\ Post(p, <<Message(k, 0)>>, buffers)
        BY <2>1, <2>4
      <3>2. /\ refused' = IF FreeSends(p) > 0 THEN refused ELSE refused \cup {"send"}
            /\ Under(p, k)' = Fits(p) /\ \A j \in Kinds \ {k} : Under(p, j)' = 0
            /\ \A j \in Kinds : Under(q, j)' = 0
            /\ recvs'[q] = recvs[q] /\ unacked'[q] = unacked[q]
            /\ Count(unacked'[p], Mail(k)) = Count(unacked[p], Mail(k)) + Fits(p)
        <4>1. peer'[p] \notin Before
          BY <2>2, <2>3
        <4> QED BY <1>1, <1>2, <2>1, <2>3, <3>1, <4>1, AnswersMessage
      <3> QED BY <3>1, <3>2
    <2>6. Fits(p) \in {0, 1} /\ (Fits(p) = 1 <=> FreeSends(p) > 0) /\ (step = "stop" => Fits(p) = 1)
      BY DEF Fits, step
    <2>7. Phases'
      <3>1. CASE peer[q] = "echo"
        <4>1. "send" \notin refused' => Fits(p) = 1
          BY <2>5, <2>6
        <4>2. Stopping'
          <5>1. Under("server", "stop")' = Fits(p)
            BY <2>5 DEF p, q
          <5>2. NoneUnder("server", {"start", "regular"})' /\ NoneUnder("client", Kinds)'
            BY <2>4, <2>5 DEF p, q, NoneUnder
          <5>3. ops'["server"] = TOT_NUM_OPS /\ ops'["client"] + 1 = TOT_NUM_OPS
            BY <1>4, <1>10, <1>12, <3>1 DEF p, q
          <5> QED BY <4>1, <5>1, <5>2, <5>3 DEF Stopping
        <4> QED BY <1>4, <1>12, <2>2, <2>3, <3>1, <4>2 DEF Phases, p, q, Before
      <3>2. CASE peer[q] = "failed"
        BY <1>4, <1>12, <2>2, <2>3, <3>2 DEF Phases, p, q, Before
      <3> QED BY <1>9, <3>1, <3>2
    <2>8. Pending(q)' = Pending(q)
      BY <1>2, <1>8, <2>5 DEF Pending
    <2>9. step = "stop" => Pending(p)' > 0
      <3>1. /\ Count(unacked[p], Mail("stop")) \in Nat /\ Count(cq'[p], Ends) \in Nat
            /\ Count(wc'[p], Ends) = 0
        <4>1. Count(unacked[p], Mail("stop")) \in Nat /\ Count(cq[p], Ends) \in Nat
          BY <1>1, MoreNumbers
        <4>2. wc'[p] = << >>
          BY <1>1, <2>1 DEF FlowType
        <4> QED BY <1>2, <4>1, <4>2, CountNone
      <3> QED BY <2>5, <2>6, <3>1 DEF Pending
    <2>10. ~Ended(p) /\ Held(q)' = Held(q) /\ peer'[p] \notin {"wait", "send", "echo"}
      BY <1>2, <1>7, <1>8, <2>2, <2>3 DEF Ended
    <2>11. Waits'
      BY <1>1, <1>8, <2>3, <2>5, <2>8, <2>9, <2>10, WaitsAfter
    <2> QED BY <1>4, <2>7, <2>11
  <1> QED BY <1>11, <1>12

LEMMA EchoClientKeeps ==
  ASSUME EchoInv, FlowInv', EchoClient PROVE Phases' /\ Waits' /\ CountsType'
  <1> DEFINE p == "client"
             q == "server"
             c == Head(wc[p])
             os == ops["server"]
             oc == ops["client"]
  <1>1. /\ FlowInv /\ FlowType /\ FlowType' /\ Phases /\ Waits
        /\ p \in Peers /\ q \in Peers /\ q = Other(p) /\ q # p
    BY TheTwo DEF EchoInv, FlowInv
  <1>2. /\ peer[p] = "echo" /\ wc[p] # << >> /\ c.op = "recv" /\ UNCHANGED cq
        /\ ops' = [ops EXCEPT ![p] = @ + 1]
    BY DEF EchoClient, NextWc
  <1>3. /\ os \in Nat /\ oc \in Nat /\ ops'[p] = oc + 1 /\ ops'[q] = os /\ CountsType'
        /\ TOT_NUM_OPS \in Nat \ {0}
    BY <1>1, <1>2, EchoConstants DEF EchoInv, CountsType
  <1>4. /\ c.kind \in Kinds /\ Under(q, c.kind) = 1 /\ Held(q) = 0 /\ c.buf = 0
    BY <1>1, <1>2, TakenUnder, TakesMessage
  <1>5. peer[q] \in {"echo", "stop", "done", "failed"}
    <2>1. peer[q] \notin Before
      BY <1>1, <1>2 DEF FlowInv, FlowStarts
    <2> QED BY <1>1, <2>1 DEF FlowType, HandshakeSteps, Before, Workload, Phases
  <1>6. CASE c.kind = "stop"
    <2>1. /\ UNCHANGED <<wire, recvs, unacked, walk, refused>>
          /\ wc' = [wc EXCEPT ![p] = << >>] /\ Goto(p, "done")
      BY <1>6 DEF EchoClient, LeaveLoop
    <2>2. /\ Held(p)' = 0 /\ Held(q)' = 0 /\ wc'[q] = wc[q]
          /\ Errs(p)' <= Errs(p) /\ Errs(q)' = Errs(q)
      BY <1>1, <1>2, <2>1, TakenAll
    <2>3. peer'[p] = "done" /\ peer'[q] = peer[q]
      BY <1>1, <2>1 DEF FlowType, Goto
    <2>4. Stopping /\ peer[q] # "echo"
      <3>1. peer[q] # "echo"
        BY <1>1, <1>2, <1>4, <1>6 DEF Phases, Running, NoneUnder
      <3> QED BY <1>1, <1>2, <1>5, <3>1 DEF Phases
    <2>5. Over'
      BY <1>3, <1>5, <2>3, <2>4 DEF Stopping, Over
    <2>6. Phases'
      BY <1>1, <1>3, <2>3, <2>5 DEF Phases, Over, Before
    <2>7. Pending(q)' = Pending(q)
      BY <1>2, <2>1, <2>2 DEF Pending
    <2>8. ~Ended(p)
      BY <1>2 DEF Ended
    <2> HIDE DEF p, q
    <2>9. Waits'
      BY <1>1, <1>4, <2>1, <2>2, <2>3, <2>7, <2>8, WaitsAfter DEF p
    <2> QED BY <1>3, <2>6, <2>9
  <1>7. CASE c.kind # "stop"
    <2>1. peer[q] = "echo" /\ Running /\ c.kind = "regular" /\ os = oc + 1
      <3>1. peer[q] = "echo"
        BY <1>1, <1>2, <1>4, <1>5, <1>7 DEF Phases, Stopping, NoneUnder, Kinds
      <3>2. Running
        BY <1>1, <1>2, <3>1 DEF Phases
      <3>3. c.kind = "regular"
        BY <1>4, <1>7, <3>2 DEF Running, NoneUnder, Kinds
      <3> QED BY <1>4, <3>1, <3>2, <3>3 DEF Running
    <2>2. walk[p] = Start /\ walk[p].ptr = 0 /\ Advance(walk[p]) = Start
      BY <1>1, AdvanceStays DEF Start, FlowType
    <2>3. /\ Post(p, <<Message("regular", 0)>>, << 0 >>) /\ walk' = walk
          /\ Handled(p) /\ UNCHANGED peer
      <3>1. /\ Post(p, <<Message("regular", c.buf)>>, <<walk[p].ptr>>)
            /\ walk' = [walk EXCEPT ![p] = Advance(@)]
            /\ Handled(p) /\ UNCHANGED peer
        BY <1>7 DEF EchoClient
      <3>2. c.buf = 0
        BY <1>4
      <3>3. walk' = walk
        BY <1>1, <2>2, <3>1 DEF FlowType
      <3> QED BY <2>2, <3>1, <3>2, <3>3
    <2>4. /\ Held(p)' = 0 /\ Held(q)' = 0 /\ wc'[q] = wc[q]
          /\ Errs(p)' <= Errs(p) /\ Errs(q)' = Errs(q)
      BY <1>1, <1>2, <2>3, TakenAll
    <2>5. /\ peer' \in [Peers -> HandshakeSteps] /\ peer'[p] \notin Before /\ peer'[q] = peer[q]
      BY <1>1, <1>2, <2>3 DEF FlowType, Before
    <2>6. << 0 >> \in {<< >>, << 0 >>} /\ "regular" \in Kinds /\ "start" \in Kinds /\ "stop" \in Kinds
      BY DEF Kinds
    <2> HIDE DEF p, q
    <2>7. /\ refused' = IF FreeSends(p) > 0 THEN refused ELSE refused \cup {"send"}
          /\ Under(p, "regular")' = Fits(p) /\ \A j \in Kinds \ {"regular"} : Under(p, j)' = 0
          /\ \A j \in Kinds : Under(q, j)' = 0
          /\ Len(recvs'[p]) = 1 /\ recvs'[q] = recvs[q]
          /\ unacked'[q] = unacked[q]
      <3>1. PICK k \in Kinds, buffers \in {<< >>, << 0 >>} :
              k = "regular" /\ Len(buffers) = 1 /\ Post(p, <<Message(k, 0)>>, buffers)
        <4>1. Len(<< 0 >>) = 1
          OBVIOUS
        <4> QED BY <2>3, <2>6, <4>1
      <3>2. /\ refused' = IF FreeSends(p) > 0 THEN refused ELSE refused \cup {"send"}
            /\ Under(p, k)' = Fits(p) /\ \A j \in Kinds \ {k} : Under(p, j)' = 0
            /\ \A j \in Kinds : Under(q, j)' = 0
            /\ Len(recvs'[p]) = Len(buffers) /\ recvs'[q] = recvs[q]
            /\ unacked'[q] = unacked[q]
        BY <1>1, <1>2, <2>3, <2>5, <3>1, AnswersMessage
      <3> QED BY <3>1, <3>2
    <2>8. Fits(p) \in {0, 1} /\ (Fits(p) = 1 <=> FreeSends(p) > 0)
      BY DEF Fits
    <2>9. "send" \notin refused' => Fits(p) = 1
      BY <2>7, <2>8
    <2>10. Running'
      <3>1. Under("client", "regular")' = Fits(p) /\ Under("server", "regular")' = 0
        BY <2>6, <2>7 DEF p, q
      <3>2. NoneUnder("server", {"start", "stop"})' /\ NoneUnder("client", {"start", "stop"})'
        BY <2>6, <2>7 DEF p, q, NoneUnder
      <3>3. ops'["server"] = ops'["client"] /\ ops'["server"] < TOT_NUM_OPS
        BY <1>3, <2>1 DEF p, q, Running
      <3> QED BY <2>9, <3>1, <3>2, <3>3 DEF Running
    <2>11. Phases'
      BY <1>2, <2>1, <2>3, <2>10 DEF Phases, p, q, Before
    <2>12. Pending(q)' = Pending(q)
      BY <1>2, <2>4, <2>7 DEF Pending
    <2>13. Len(recvs'[p]) + Held(p)' = 1
      BY <2>4, <2>7
    <2>14. ~Ended(p) /\ Held(q)' = Held(q) /\ peer'[p] = "echo"
      BY <1>2, <1>4, <2>3, <2>4 DEF Ended
    <2>15. Waits'
      BY <1>1, <2>4, <2>5, <2>7, <2>12, <2>13, <2>14, WaitsAfter
    <2> QED BY <1>3, <2>11, <2>15
  <1> QED BY <1>6, <1>7

LEMMA StartSignalledKeeps ==
  ASSUME EchoInv, FlowInv', StartSignalled PROVE Phases' /\ Waits' /\ UNCHANGED ops
  <1> DEFINE p == "client"
             q == "server"
             c == Head(wc[p])
  <1>1. /\ FlowInv /\ FlowType /\ FlowType' /\ Phases /\ Waits
        /\ p \in Peers /\ q \in Peers /\ q = Other(p) /\ q # p
    BY TheTwo DEF EchoInv, FlowInv
  <1>2. walk[p] = Start /\ walk[p].ptr = 0 /\ Advance(walk[p]) = Start
    BY <1>1, AdvanceStays DEF Start, FlowType
  <1>3. /\ peer[p] = "wait" /\ wc[p] # << >> /\ c.op = "recv" /\ UNCHANGED <<cq, ops>>
        /\ Post(p, << >>, << 0 >>) /\ walk' = walk
    BY <1>1, <1>2 DEF StartSignalled, NextWc, FlowType
  <1>4. /\ c.kind \in Kinds /\ Under(q, c.kind) = 1 /\ Held(q) = 0
    BY <1>1, <1>3, TakenUnder, TakesMessage
  <1>5. Opening /\ c.kind = "start" /\ peer[q] = "echo"
    <2>1. Opening
      BY <1>1, <1>3 DEF Phases
    <2>2. c.kind = "start"
      BY <1>4, <2>1 DEF Opening, NoneUnder, Kinds
    <2> QED BY <1>4, <2>1, <2>2 DEF Opening
  <1>6. wc' = [wc EXCEPT ![p] = << >>] /\ Goto(p, "send")
    BY <1>5 DEF StartSignalled, LeaveLoop
  <1>7. "send" \in HandshakeSteps \ Before
    BY DEF HandshakeSteps, Workload, Before
  <1>8. /\ peer' \in [Peers -> HandshakeSteps] /\ peer'[p] = "send" /\ peer'[q] = peer[q]
        /\ peer'[p] \notin Before
    BY <1>1, <1>6, <1>7, StepsOn
  <1>9. /\ Held(p)' = 0 /\ Held(q)' = 0 /\ wc'[q] = wc[q]
        /\ Errs(p)' <= Errs(p) /\ Errs(q)' = Errs(q)
    BY <1>1, <1>3, <1>6, TakenAll
  <1> HIDE DEF p, q
  <1>10. /\ UNCHANGED <<wire, unacked, refused>>
         /\ \A k \in Kinds : Under(p, k)' = 0 /\ Under(q, k)' = 0
         /\ Len(recvs'[p]) = 1 /\ recvs'[q] = recvs[q]
    <2>1. PICK buffers \in {<< >>, << 0 >>} : Len(buffers) = 1 /\ Post(p, << >>, buffers)
      <3>1. Len(<< 0 >>) = 1
        OBVIOUS
      <3> QED BY <1>3, <3>1
    <2>2. /\ UNCHANGED <<wire, unacked, refused>>
          /\ \A k \in Kinds : Under(p, k)' = 0 /\ Under(q, k)' = 0
          /\ Len(recvs'[p]) = Len(buffers) /\ recvs'[q] = recvs[q]
      BY <1>1, <1>3, <1>6, <1>8, <2>1, AnswersNothing
    <2> QED BY <2>1, <2>2
  <1>11. Phases'
    <2>1. Opening'
      <3>1. NoneUnder("server", {"regular", "stop"})'
        BY <1>10 DEF NoneUnder, Kinds, q
      <3> QED BY <1>3, <1>5, <1>8, <3>1 DEF Opening, q
    <2> QED BY <1>5, <1>8, <2>1 DEF Phases, Before, p, q
  <1>12. Pending(q)' = Pending(q)
    BY <1>3, <1>9, <1>10 DEF Pending
  <1>13. Len(recvs'[p]) + Held(p)' = 1
    BY <1>9, <1>10
  <1>14. ~Ended(p) /\ Held(q)' = Held(q)
    BY <1>3, <1>4, <1>9 DEF Ended
  <1>15. Waits'
    BY <1>1, <1>8, <1>9, <1>10, <1>12, <1>13, <1>14, WaitsAfter
  <1> QED BY <1>3, <1>11, <1>15

LEMMA SendFirstKeeps ==
  ASSUME EchoInv, FlowInv', SendFirst PROVE Phases' /\ Waits' /\ UNCHANGED ops
  <1> DEFINE p == "client"
             q == "server"
             from == [walk[p] EXCEPT !.ptr = 0]
  <1>1. /\ FlowInv /\ FlowType /\ FlowType' /\ Phases /\ Waits
        /\ p \in Peers /\ q \in Peers /\ q = Other(p) /\ q # p
        /\ walk[p] = Start /\ CONCURRENT = 1
    BY TheTwo DEF EchoInv, FlowInv, FlowType
  <1>2. from = Start
    BY <1>1 DEF Start
  <1> HIDE DEF from
  <1>3. /\ [i \in 1 .. CONCURRENT |-> Message("regular", Positions(from)[i])]
             = <<Message("regular", 0)>>
        /\ EndOfWalk(from) = Start
    BY <1>1, <1>2, OnePosition
  <1>4. /\ peer[p] = "send" /\ Post(p, <<Message("regular", 0)>>, << >>)
        /\ walk' = walk /\ UNCHANGED <<cq, wc, ops>> /\ Goto(p, "echo")
    <2>1. /\ peer[p] = "send"
          /\ Post(p, [i \in 1 .. CONCURRENT |-> Message("regular", Positions(from)[i])], << >>)
          /\ walk' = [walk EXCEPT ![p] = EndOfWalk(from)]
          /\ UNCHANGED <<cq, wc, ops>> /\ Goto(p, "echo")
      BY DEF SendFirst, from
    <2> QED BY <1>1, <1>3, <2>1 DEF FlowType
  <1>5. /\ AllUnder = 0 /\ "send" \notin refused /\ Opening /\ peer[q] = "echo"
        /\ Len(recvs[p]) + Held(p) = 1
    BY <1>1, <1>4 DEF FlowInv, FlowStarts, Phases, Opening, Waits
  <1>6. "echo" \in HandshakeSteps \ Before
    BY DEF HandshakeSteps, Workload, Before
  <1>7. /\ peer' \in [Peers -> HandshakeSteps] /\ peer'[p] = "echo" /\ peer'[q] = peer[q]
        /\ peer'[p] \notin Before
    BY <1>1, <1>4, <1>6, StepsOn
  <1>8. /\ \A r : Held(r)' = Held(r) /\ Errs(r)' = Errs(r)
    BY <1>4 DEF Held, Received, Errs
  <1> HIDE DEF p, q
  <1>9. /\ refused' = IF FreeSends(p) > 0 THEN refused ELSE refused \cup {"send"}
        /\ Under(p, "regular")' = Fits(p) /\ \A j \in Kinds \ {"regular"} : Under(p, j)' = 0
        /\ \A j \in Kinds : Under(q, j)' = 0
        /\ Len(recvs'[p]) = Len(recvs[p]) /\ recvs'[q] = recvs[q] /\ unacked'[q] = unacked[q]
    <2>1. PICK k \in Kinds, buffers \in {<< >>, << 0 >>} :
            k = "regular" /\ Len(buffers) = 0 /\ Post(p, <<Message(k, 0)>>, buffers)
      <3>1. Len(<< >>) = 0 /\ "regular" \in Kinds
        BY DEF Kinds
      <3> QED BY <1>4, <3>1
    <2>2. Len(recvs[p]) \in Nat /\ Held(p) \in Nat
      BY <1>1, UnderCounts DEF UnderNumbers
    <2>3. Len(buffers) + Len(recvs[p]) + Held(p) <= 1
      BY <1>5, <2>1, <2>2
    <2>4. /\ refused' = IF FreeSends(p) > 0 THEN refused ELSE refused \cup {"send"}
          /\ Under(p, k)' = Fits(p) /\ \A j \in Kinds \ {k} : Under(p, j)' = 0
          /\ \A j \in Kinds : Under(q, j)' = 0
          /\ Len(recvs'[p]) = Len(buffers) + Len(recvs[p]) /\ recvs'[q] = recvs[q]
      BY <1>1, <1>4, <1>5, <1>7, <2>1, <2>3, PostsFirst
    <2>5. unacked'[q] = unacked[q]
      BY <1>1, <1>4 DEF Post, FlowType
    <2>6. Len(recvs'[p]) = Len(recvs[p])
      BY <2>1, <2>2, <2>4
    <2>7. Under(p, "regular")' = Fits(p) /\ \A j \in Kinds \ {"regular"} : Under(p, j)' = 0
      <3>1. k = "regular"
        BY <2>1
      <3>2. \A j : j = k => Under(p, j)' = Fits(p)
        BY <2>4
      <3> QED BY <2>4, <3>1, <3>2
    <2> QED BY <2>4, <2>5, <2>6, <2>7
  <1>10. Fits(p) \in {0, 1} /\ ("send" \notin refused' => Fits(p) = 1)
    BY <1>9 DEF Fits
  <1>11. Running'
    <2>1. Under("client", "regular")' = Fits(p) /\ Under("server", "regular")' = 0
      BY <1>9 DEF p, q, Kinds
    <2>2. NoneUnder("server", {"start", "stop"})' /\ NoneUnder("client", {"start", "stop"})'
      BY <1>9 DEF p, q, NoneUnder, Kinds
    <2>3. ops'["server"] = ops'["client"] /\ ops'["server"] < TOT_NUM_OPS
      BY <1>4, <1>5, EchoConstants DEF Opening
    <2> QED BY <1>10, <2>1, <2>2, <2>3 DEF Running
  <1>12. Phases'
    BY <1>5, <1>7, <1>11 DEF Phases, p, q, Before
  <1>13. Pending(q)' = Pending(q)
    BY <1>4, <1>9 DEF Pending
  <1>14. Len(recvs'[p]) + Held(p)' = 1 /\ ~Ended(p)
    BY <1>4, <1>5, <1>8, <1>9 DEF Ended
  <1>15. Errs(p)' <= Errs(p)
    <2>1. Errs(p) \in Nat
      BY <1>1, EndsCounts DEF EndsNumbers
    <2> QED BY <1>8, <2>1
  <1>16. Waits'
    BY <1>1, <1>7, <1>8, <1>9, <1>13, <1>14, <1>15, WaitsAfter DEF p
  <1> QED BY <1>4, <1>12, <1>16

LEMMA StartServerKeeps ==
  ASSUME EchoInv, FlowInv', StartServer PROVE Phases' /\ Waits' /\ UNCHANGED ops
  <1> DEFINE p == "server"
             q == "client"
  <1>1. /\ FlowInv /\ FlowType /\ FlowType' /\ Phases /\ Waits
        /\ p \in Peers /\ q \in Peers /\ q = Other(p) /\ q # p
        /\ walk[p] = Start /\ CONCURRENT = 1
    BY TheTwo DEF EchoInv, FlowInv, FlowType
  <1>2. Positions(walk[p]) = << 0 >> /\ EndOfWalk(walk[p]) = Start
    BY <1>1, OnePosition
  <1>3. /\ peer[p] = "start" /\ Post(p, <<Message("start", 0)>>, << 0 >>)
        /\ walk' = walk /\ UNCHANGED <<cq, wc, ops>> /\ Goto(p, "echo")
    BY <1>1, <1>2 DEF StartServer, FlowType
  <1>4. /\ AllUnder = 0 /\ "send" \notin refused /\ peer[q] \notin {"send", "echo", "stop", "done"}
        /\ Len(recvs[p]) + Held(p) = 0
    BY <1>1, <1>3 DEF FlowInv, FlowStarts, FlowOf, Before
  <1>5. "echo" \in HandshakeSteps \ Before
    BY DEF HandshakeSteps, Workload, Before
  <1>6. /\ peer' \in [Peers -> HandshakeSteps] /\ peer'[p] = "echo" /\ peer'[q] = peer[q]
        /\ peer'[p] \notin Before
    BY <1>1, <1>3, <1>5, StepsOn
  <1>7. /\ \A r : Held(r)' = Held(r) /\ Errs(r)' = Errs(r)
    BY <1>3 DEF Held, Received, Errs
  <1>8. Len(recvs[p]) \in Nat /\ Held(p) \in Nat
    BY <1>1, UnderCounts DEF UnderNumbers
  <1> HIDE DEF p, q
  <1>9. /\ \A j \in Kinds \ {"start"} : Under(p, j)' = 0
        /\ Len(recvs'[p]) = 1 + Len(recvs[p]) /\ recvs'[q] = recvs[q] /\ unacked'[q] = unacked[q]
    <2>1. PICK k \in Kinds, buffers \in {<< >>, << 0 >>} :
            k = "start" /\ Len(buffers) = 1 /\ Post(p, <<Message(k, 0)>>, buffers)
      <3>1. Len(<< 0 >>) = 1 /\ "start" \in Kinds
        BY DEF Kinds
      <3> QED BY <1>3, <3>1
    <2>2. Len(buffers) + Len(recvs[p]) + Held(p) <= 1
      BY <1>4, <1>8, <2>1
    <2>3. /\ \A j \in Kinds \ {k} : Under(p, j)' = 0
          /\ Len(recvs'[p]) = Len(buffers) + Len(recvs[p]) /\ recvs'[q] = recvs[q]
      BY <1>1, <1>3, <1>4, <1>6, <2>1, <2>2, PostsFirst
    <2>4. unacked'[q] = unacked[q]
      BY <1>1, <1>3 DEF Post, FlowType
    <2> QED BY <2>1, <2>3, <2>4
  <1>10. peer[q] \in Before \cup {"wait", "send"} => Opening'
    <2> SUFFICES ASSUME peer[q] \in Before \cup {"wait", "send"} PROVE Opening'
      OBVIOUS
    <2>1. Opening
      BY <1>1 DEF Phases, q
    <2>2. NoneUnder("server", {"regular", "stop"})'
      BY <1>9 DEF NoneUnder, Kinds, p
    <2> QED BY <1>3, <1>6, <2>1, <2>2 DEF Opening, p
  <1>11. Phases'
    BY <1>4, <1>6, <1>10 DEF Phases, p, q
  <1>12. Pending(q)' = Pending(q)
    BY <1>3, <1>9 DEF Pending
  <1>13. Len(recvs'[p]) + Held(p)' = 1 /\ ~Ended(p)
    BY <1>3, <1>4, <1>7, <1>8, <1>9 DEF Ended
  <1>14. Errs(p)' <= Errs(p)
    <2>1. Errs(p) \in Nat
      BY <1>1, EndsCounts DEF EndsNumbers
    <2> QED BY <1>7, <2>1
  <1>15. Waits'
    BY <1>1, <1>6, <1>7, <1>9, <1>12, <1>13, <1>14, WaitsAfter DEF p
  <1> QED BY <1>3, <1>11, <1>15

LEMMA StartClientKeeps ==
  ASSUME EchoInv, FlowInv', StartClient PROVE Phases' /\ Waits' /\ UNCHANGED ops
  <1> DEFINE p == "client"
             q == "server"
  <1>1. /\ FlowInv /\ FlowType /\ FlowType' /\ Phases /\ Waits
        /\ p \in Peers /\ q \in Peers /\ q = Other(p) /\ q # p
    BY TheTwo DEF EchoInv, FlowInv
  <1>2. /\ UNCHANGED <<wire, unacked, refused, cq, wc, ops>>
        /\ peer[p] = "start" /\ peer'[p] = "wait" /\ peer'[q] = peer[q]
        /\ Len(recvs'[p]) = 1 /\ recvs'[q] = recvs[q]
        /\ Held(p) = 0 /\ \A r : Held(r)' = Held(r)
    BY <1>1, StartClientDoes
  <1>3. \A r : /\ \A k : Under(r, k)' = Under(r, k)
               /\ Errs(r)' = Errs(r) /\ Pending(r)' = Pending(r)
    BY <1>2 DEF Under, Wired, Received, Errs, Pending
  <1>4. Phases'
    BY <1>1, <1>2, <1>3, PhasesBefore DEF Before
  <1>5. Errs(p)' <= Errs(p)
    <2>1. Errs(p) \in Nat
      BY <1>1, EndsCounts DEF EndsNumbers
    <2> QED BY <1>3, <2>1
  <1>6. Len(recvs'[p]) + Held(p)' = 1 /\ ~Ended(p)
    BY <1>2 DEF Ended
  <1> HIDE DEF q
  <1>7. Waits'
    BY <1>1, <1>2, <1>3, <1>5, <1>6, WaitsAfter
  <1> QED BY <1>2, <1>4, <1>7

\* The handshake, and a thread that fails before it has posted anything.
LEMMA BeforeKeeps ==
  ASSUME EchoInv, FlowInv', NEW p \in Peers, NEW next \in Before \cup {"failed"},
         peer[p] \in Before, Goto(p, next), UNCHANGED queueVars
  PROVE  Phases' /\ Waits'
  <1> DEFINE q == Other(p)
  <1>1. /\ FlowInv /\ FlowType /\ FlowType' /\ Phases /\ Waits
        /\ q \in Peers /\ q = Other(p) /\ q # p /\ \A r \in Peers : r = p \/ r = q
    BY OtherPeer DEF EchoInv, FlowInv
  <1>2. UNCHANGED <<wire, recvs, unacked, cq, wc, ops, refused>>
    BY DEF queueVars
  <1>3. peer'[p] = next /\ peer'[q] = peer[q]
    BY <1>1 DEF Goto, FlowType
  <1>4. \A r : /\ \A k : Under(r, k)' = Under(r, k)
               /\ Held(r)' = Held(r) /\ Errs(r)' = Errs(r) /\ Pending(r)' = Pending(r)
    BY <1>2 DEF Under, Wired, Received, Held, Errs, Pending
  <1> HIDE DEF q
  <1>5. Phases'
    <2>1. CASE p = "client"
      <3>1. q = "server"
        BY <1>1, <2>1, TheTwo
      <3> QED BY <1>1, <1>2, <1>3, <1>4, <2>1, <3>1, PhasesBefore
    <2>2. CASE p = "server"
      <3>1. q = "client"
        BY <1>1, <2>2, TheTwo
      <3> QED BY <1>1, <1>2, <1>3, <1>4, <2>2, <3>1, PhasesBefore
    <2> QED BY <2>1, <2>2, TheTwo
  <1>6. ~Ended(p) /\ peer'[p] \notin {"wait", "send", "echo", "stop"}
    BY <1>3 DEF Ended, Before
  <1>7. Errs(p)' <= Errs(p)
    <2>1. Errs(p) \in Nat
      BY <1>1, EndsCounts DEF EndsNumbers
    <2> QED BY <1>4, <2>1
  <1>8. Waits'
    BY <1>1, <1>2, <1>3, <1>4, <1>6, <1>7, WaitsAfter
  <1> QED BY <1>5, <1>8

LEMMA StayKeeps == ASSUME EchoInv, UNCHANGED echoVars PROVE EchoInv'
  <1>1. FlowInv'
    BY FlowStays DEF EchoInv, echoVars
  <1>2. UNCHANGED <<peer, wire, recvs, unacked, cq, wc, ops, refused>>
    BY DEF echoVars, queueVars
  <1>3. CountsType' /\ Phases' /\ Waits'
    BY <1>2 DEF EchoInv, CountsType, Phases, Waits, Opening, Running, Stopping, Over, NoneUnder,
                Under, Wired, Received, Held, Errs, Pending, Ended
  <1> QED BY <1>1, <1>3 DEF EchoInv

LEMMA EchoInvStep == EchoInv /\ [EchoNext]_echoVars => EchoInv'
  <1> SUFFICES ASSUME EchoInv, [EchoNext]_echoVars PROVE EchoInv'
    OBVIOUS
  <1>1. FlowInv' /\ CountsType /\ "server" \in Peers /\ "client" \in Peers
    BY FlowStep, TheTwo DEF EchoInv
  <1>2. (Phases' /\ Waits' /\ UNCHANGED ops) => EchoInv'
    BY <1>1 DEF EchoInv, CountsType
  <1>3. (Phases' /\ Waits' /\ CountsType') => EchoInv'
    BY <1>1 DEF EchoInv
  <1>4. CASE connect_qp_server \/ connect_qp_client
    <2>1. UNCHANGED queueVars
      BY <1>4 DEF connect_qp_server, connect_qp_client, Bind, Accept, Connect, SockRead, SockWrite,
                  modify_qp_to_rts
    <2>2. PICK p \in Peers, next \in Before \cup {"failed"} :
            peer[p] \in Before /\ Goto(p, next)
      BY <1>4 DEF connect_qp_server, connect_qp_client, Bind, Accept, Connect, SockRead, SockWrite,
                  modify_qp_to_rts, Peers, Before
    <2>3. Phases' /\ Waits'
      BY <1>1, <2>1, <2>2, BeforeKeeps
    <2> QED BY <1>2, <2>1, <2>3 DEF queueVars
  <1>5. ASSUME NEW p \in Peers, ThreadFails(p) PROVE EchoInv'
    <2>1. /\ UNCHANGED queueVars /\ Goto(p, "failed") /\ peer[p] \in Before
          /\ "failed" \in Before \cup {"failed"}
      BY <1>5 DEF ThreadFails, Before
    <2>2. Phases' /\ Waits'
      BY <1>1, <2>1, BeforeKeeps
    <2> QED BY <1>2, <2>1, <2>2 DEF queueVars
  <1>6. ASSUME NEW p \in Peers, PollCq(p) \/ SendCompleted(p) \/ SendFailed(p) PROVE EchoInv'
    <2>1. Phases' /\ Waits'
      BY <1>1, <1>6, PollKeeps, SendCompletedKeeps, SendFailedKeeps
    <2> QED BY <1>2, <1>6, <2>1 DEF PollCq, SendCompleted, SendFailed
  <1>7. CASE StartServer \/ StartClient \/ StartSignalled \/ SendFirst
    BY <1>1, <1>2, <1>7, StartServerKeeps, StartClientKeeps, StartSignalledKeeps, SendFirstKeeps
  <1>8. CASE EchoServer \/ EchoClient
    BY <1>1, <1>3, <1>8, EchoServerKeeps, EchoClientKeeps
  <1>9. ASSUME NEW p \in Peers, Deliver(p) \/ Acknowledge(p) \/ GiveUp(p) PROVE EchoInv'
    <2>1. Phases' /\ Waits'
      BY <1>1, <1>9, DeliverKeeps, AcknowledgeKeeps, GiveUpKeeps
    <2> QED BY <1>2, <1>9, <2>1 DEF Deliver, Acknowledge, GiveUp
  <1>10. CASE UNCHANGED echoVars
    BY <1>10, StayKeeps
  <1>11. CASE server_thread \/ client_thread_func
    BY <1>1, <1>5, <1>6, <1>7, <1>8, <1>11 DEF server_thread, client_thread_func
  <1>12. CASE Adapters
    BY <1>9, <1>12 DEF Adapters
  <1> QED BY <1>4, <1>10, <1>11, <1>12 DEF EchoNext

LEMMA EchoInvInit == CONCURRENT = 1 /\ EchoInit => EchoInv
  <1> SUFFICES ASSUME CONCURRENT = 1, EchoInit PROVE EchoInv
    OBVIOUS
  <1>1. FlowInv /\ FlowType
    BY FlowInit DEF FlowInv
  <1>2. /\ \A p \in Peers : /\ wire[p] = << >> /\ recvs[p] = << >> /\ unacked[p] = << >>
                            /\ cq[p] = << >> /\ wc[p] = << >> /\ ops[p] = 0
        /\ peer["server"] = "bind" /\ peer["client"] = "connect"
        /\ "server" \in Peers /\ "client" \in Peers
    BY TheTwo DEF EchoInit
  <1>3. CountsType
    BY DEF EchoInit, CountsType
  <1>4. ASSUME NEW p \in Peers PROVE /\ Errs(p) = 0 /\ Held(p) = 0
                                     /\ \A k : Wired(p, k) = 0 /\ Received(p, k) = 0
    <2>1. \A S : Count(wire[p], S) = 0 /\ Count(cq[p], S) = 0 /\ Count(wc[p], S) = 0
      BY <1>2, CountNone
    <2> QED BY <2>1 DEF Errs, Held, Wired, Received
  <1>5. \A k : Under("server", k) = 0 /\ Under("client", k) = 0
    BY <1>2, <1>4, TheTwo DEF Under
  <1>6. Opening
    BY <1>2, <1>5 DEF Opening, NoneUnder
  <1>7. Phases
    BY <1>2, <1>6 DEF Phases
  <1>8. Waits
    <2>1. \A p \in Peers : peer[p] \notin {"wait", "send", "echo"}
      BY <1>2, TheTwo
    <2> QED BY <1>2, <1>4, <2>1 DEF Waits
  <1> QED BY <1>1, <1>3, <1>7, <1>8 DEF EchoInv

LEMMA EchoAlways == CONCURRENT = 1 => (EchoSpec => []EchoInv)
  <1>1. CONCURRENT = 1 /\ EchoInit => EchoInv
    BY EchoInvInit
  <1>2. EchoInv /\ [EchoNext]_echoVars => EchoInv'
    BY EchoInvStep
  <1> QED BY <1>1, <1>2, PTL DEF EchoSpec

LEMMA FlowTyped == FlowInv /\ HandshakeInv /\ CountsType => EchoType
  <1> SUFFICES ASSUME FlowInv, HandshakeInv, CountsType PROVE EchoType
    OBVIOUS
  <1>1. Mails \subseteq Messages /\ Comps \subseteq Completions /\ {0} \subseteq Int
    BY DEF Mails, Messages, Comps, Completions
  <1>2. /\ Seq(Mails) \subseteq Seq(Messages) /\ Seq(Comps) \subseteq Seq(Completions)
        /\ Seq({0}) \subseteq Seq(Int)
    BY <1>1, SeqMonotonic
  <1>3. {Start} \subseteq [ptr : Int, offset : Int]
    BY DEF Start
  <1>4. /\ wire \in [Peers -> Seq(Messages)] /\ unacked \in [Peers -> Seq(Messages)]
        /\ recvs \in [Peers -> Seq(Int)]
        /\ cq \in [Peers -> Seq(Completions)] /\ wc \in [Peers -> Seq(Completions)]
        /\ walk \in [Peers -> [ptr : Int, offset : Int]]
        /\ refused \subseteq {"send", "recv"}
    BY <1>2, <1>3 DEF FlowInv, FlowType
  <1>5. /\ peer \in [Peers -> {"bind", "accept", "connect", "get", "set", "modify",
                               "readSync", "writeSync", "done", "failed"} \cup Workload]
        /\ qp \in [Peers -> {"INIT", "RTS"}] /\ sock \in [Peers -> Seq({"info", "sync"})]
    BY DEF HandshakeInv, HandshakeType, HandshakeSteps
  <1> QED BY <1>4, <1>5 DEF EchoType, CountsType

LEMMA EchoKept == CONCURRENT = 1 => (EchoSpec => [](EchoInv /\ HandshakeInv))
  <1>1. EchoInit => HandshakeInv
    BY HandshakeInit
  <1>2. HandshakeInv /\ [EchoNext]_echoVars => HandshakeInv'
    BY HandshakeStep
  <1> QED BY <1>1, <1>2, EchoAlways, PTL DEF EchoSpec

\* What the queues and the completions hold, with one message in flight.
THEOREM EchoTypeCorrect == CONCURRENT = 1 => (EchoSpec => []EchoType)
  <1>1. EchoInv /\ HandshakeInv => EchoType
    BY FlowTyped DEF EchoInv
  <1> QED BY <1>1, EchoKept, PTL

-----------------------------------------------------------------------------
Looping == peer["client"] \in {"echo", "done"}

EchoCounted ==
  /\ Looping => /\ ops["client"] <= ops["server"] /\ ops["server"] <= ops["client"] + 1
                /\ ops["server"] <= TOT_NUM_OPS
  /\ peer["server"] \in {"stop", "done"} => ops["server"] = TOT_NUM_OPS
  /\ peer["client"] = "done" =>
       /\ ops["client"] = TOT_NUM_OPS /\ ops["server"] = TOT_NUM_OPS
       /\ peer["server"] \in {"stop", "done", "failed"}

\* What the server does while the client is in its loop.
LEMMA WhileLooping ==
  ASSUME EchoInv, Looping
  PROVE  \/ peer["client"] = "echo" /\ peer["server"] = "echo" /\ Running
         \/ peer["client"] = "echo" /\ peer["server"] \in {"stop", "done", "failed"} /\ Stopping
         \/ peer["client"] = "done" /\ Over
  <1>1. peer["server"] \notin Before \cup {"wait", "send"}
    BY DEF EchoInv, FlowInv, FlowStarts, Phases, Looping
  <1>2. peer["server"] \in {"echo", "stop", "done", "failed"}
    BY <1>1, TheTwo DEF EchoInv, FlowInv, FlowType, HandshakeSteps, Before, Workload
  <1> QED BY <1>2 DEF EchoInv, Phases, Looping

LEMMA CountsAgree == EchoInv => EchoCounted
  <1> SUFFICES ASSUME EchoInv PROVE EchoCounted
    OBVIOUS
  <1>1. /\ ops["server"] \in Nat /\ ops["client"] \in Nat /\ TOT_NUM_OPS \in Nat
    BY TheTwo, EchoConstants DEF EchoInv, CountsType
  <1>2. Looping => /\ ops["client"] <= ops["server"] /\ ops["server"] <= ops["client"] + 1
                   /\ ops["server"] <= TOT_NUM_OPS
    BY <1>1, WhileLooping DEF Running, Stopping, Over
  <1> QED BY <1>2 DEF EchoCounted, EchoInv, Phases, Over

\* With one message at a time the two programs count the same messages: while
\* the client is in its loop the counts differ by one at most, and the client
\* only ends in order when both are what was asked for, whatever is delivered,
\* acknowledged or polled first (rdma_send_recv client.c, server.c).
THEOREM EchoCountsAgree == CONCURRENT = 1 => (EchoSpec => []EchoCounted)
  <1>1. EchoInv => EchoCounted
    BY CountsAgree
  <1> QED BY <1>1, EchoAlways, PTL

-----------------------------------------------------------------------------
\* What can be done next: the conditions of Deliver, of Acknowledge and GiveUp,
\* and of the loops' polls.
Deliverable(p) ==
  /\ wire[p] # << >>
  /\ ~Ended(Other(p)) /\ qp[Other(p)] = "RTS" /\ recvs[Other(p)] # << >>
Completable(p) ==
  /\ ~Ended(p)
  /\ Len(unacked[p]) > Len(wire[p]) \/ (unacked[p] # << >> /\ Ended(Other(p)))
Pollable(p) == peer[p] \in {"echo", "stop"} /\ (wc[p] # << >> \/ cq[p] # << >>)

EchoGoesOn ==
  Looping /\ "send" \notin refused /\ ~(Ended("client") /\ Ended("server"))
    => \E p \in Peers : Deliverable(p) \/ Completable(p) \/ Pollable(p)

\* Where something is counted, there is something.
LEMMA CountedIsThere ==
  ASSUME NEW T, NEW s \in Seq(T), NEW S, Count(s, S) > 0 PROVE s # << >>
  BY CountNone

\* A message that is under way can be delivered or polled.
LEMMA UnderGoesOn ==
  ASSUME EchoInv, HandshakeInv, NEW p \in Peers, NEW q \in Peers, q = Other(p),
         peer[q] = "echo", NEW k, Under(p, k) > 0
  PROVE  Deliverable(p) \/ Pollable(q)
  <1>1. FlowInv /\ FlowType /\ UnderNumbers /\ AllSums
    BY UnderCounts, AllAddUp DEF EchoInv, FlowInv
  <1>2. wire[p] \in Seq(Mails) /\ cq[q] \in Seq(Comps) /\ wc[q] \in Seq(Comps)
        /\ recvs[q] \in Seq({0})
    BY <1>1 DEF FlowType
  <1>3. Wired(p, k) > 0 \/ Received(q, k) > 0
    <2>1. Under(p, k) = Wired(p, k) + Received(q, k)
      BY DEF Under
    <2>2. Wired(p, k) \in Nat /\ Received(q, k) \in Nat
      BY <1>1 DEF UnderNumbers
    <2> QED BY <2>1, <2>2
  <1>4. CASE Wired(p, k) > 0
    <2>1. wire[p] # << >>
      BY <1>2, <1>4, CountedIsThere DEF Wired
    <2>2. Len(wire[p]) >= 1
      BY <1>2, <2>1, EmptySeq, LenProperties
    <2>3. Held(q) = 0
      <3>1. AllUnder = (Len(wire[p]) + Held(q)) + (Len(wire[q]) + Held(p))
        BY <1>1 DEF AllSums
      <3>2. /\ Len(wire[q]) \in Nat /\ Held(p) \in Nat /\ Held(q) \in Nat /\ AllUnder <= 1
            /\ Len(wire[p]) \in Nat
        BY <1>1 DEF UnderNumbers, FlowInv, OneUnder
      <3> QED BY <2>2, <3>1, <3>2
    <2>4. Len(recvs[q]) = 1
      <3>1. Len(recvs[q]) + Held(q) = 1 /\ Len(recvs[q]) \in Nat
        BY <1>1 DEF EchoInv, Waits, UnderNumbers
      <3> QED BY <2>3, <3>1
    <2>5. recvs[q] # << >>
      BY <2>4
    <2>6. qp[q] = "RTS"
      <3>1. peer[q] \in Workload \cup {"done"}
        BY DEF Workload
      <3> QED BY <3>1, HandshakeAgrees DEF PeersAgree
    <2> QED BY <2>1, <2>5, <2>6 DEF Deliverable, Ended
  <1>5. CASE Received(q, k) > 0
    <2>1. Count(cq[q], Got(k)) > 0 \/ Count(wc[q], Got(k)) > 0
      <3>1. Count(cq[q], Got(k)) \in Nat /\ Count(wc[q], Got(k)) \in Nat
        BY <1>1, FlowNumbers
      <3> QED BY <1>5, <3>1 DEF Received
    <2>2. cq[q] # << >> \/ wc[q] # << >>
      BY <1>2, <2>1, CountedIsThere
    <2> QED BY <2>2 DEF Pollable
  <1> QED BY <1>3, <1>4, <1>5

LEMMA SomethingGoesOn == EchoInv /\ HandshakeInv => EchoGoesOn
  <1> SUFFICES ASSUME EchoInv, HandshakeInv, Looping, "send" \notin refused,
                      ~(Ended("client") /\ Ended("server"))
               PROVE  \E p \in Peers : Deliverable(p) \/ Completable(p) \/ Pollable(p)
    BY DEF EchoGoesOn
  <1>1. CASE peer["client"] = "echo" /\ peer["server"] = "echo" /\ Running
    <2>1. Under("server", "regular") > 0 \/ Under("client", "regular") > 0
      BY <1>1 DEF Running
    <2> QED BY <1>1, <2>1, UnderGoesOn, TheTwo
  <1>2. CASE peer["client"] = "echo" /\ Stopping
    <2>1. Under("server", "stop") > 0
      BY <1>2 DEF Stopping
    <2> QED BY <1>2, <2>1, UnderGoesOn, TheTwo
  <1>3. CASE peer["client"] = "done" /\ Over
    <2>1. peer["server"] = "stop" /\ Ended("client")
      BY <1>3 DEF Over, Ended
    <2>2. FlowType /\ Pending("server") > 0
      BY <2>1 DEF EchoInv, FlowInv, Waits
    <2>3. /\ unacked["server"] \in Seq(Mails) /\ cq["server"] \in Seq(Comps)
          /\ wc["server"] \in Seq(Comps)
      BY <2>2, TheTwo DEF FlowType
    <2>4. \/ Count(unacked["server"], Mail("stop")) > 0
          \/ Count(cq["server"], Ends) > 0 \/ Count(wc["server"], Ends) > 0
      <3>1. /\ Count(unacked["server"], Mail("stop")) \in Nat
            /\ Count(cq["server"], Ends) \in Nat /\ Count(wc["server"], Ends) \in Nat
        BY <2>2, TheTwo, MoreNumbers
      <3> QED BY <2>2, <3>1 DEF Pending
    <2>5. unacked["server"] # << >> \/ cq["server"] # << >> \/ wc["server"] # << >>
      BY <2>3, <2>4, CountedIsThere
    <2> QED BY <2>1, <2>5, TheTwo DEF Completable, Pollable, Ended
  <1> QED BY <1>1, <1>2, <1>3, WhileLooping

\* Neither program waits for the other in vain, unless a send is refused: from
\* when the client is in its loop until both have ended, a message can be
\* delivered, a send acknowledged or given up, or a completion polled by the
\* loop it is meant for (rdma_send_recv client.c, server.c).
THEOREM EchoNeverStuck == CONCURRENT = 1 => (EchoSpec => []EchoGoesOn)
  <1>1. EchoInv /\ HandshakeInv => EchoGoesOn
    BY SomethingGoesOn
  <1> QED BY <1>1, EchoKept, PTL

-----------------------------------------------------------------------------
\* The work that is left: a message that has not been counted is worth more
\* than all there is to be done about one that is under way.
Weight(a, b, c, d) == 3 * a + 3 * b + 2 * c + d
Left(p) == Weight(Len(wire[p]), Len(unacked[p]), Len(cq[p]), Len(wc[p]))
LeftOver == Left("server") + Left("client")
Work == 6 * (2 * TOT_NUM_OPS - ops["server"] - ops["client"]) + LeftOver

LeftNumbers ==
  /\ \A p \in Peers : /\ Len(wire[p]) \in Nat /\ Len(unacked[p]) \in Nat
                      /\ Len(cq[p]) \in Nat /\ Len(wc[p]) \in Nat /\ Left(p) \in Nat
  /\ \A p, q \in Peers : q = Other(p) => LeftOver = Left(p) + Left(q)
  /\ LeftOver \in Nat

LEMMA WeightIsNat ==
  ASSUME NEW a \in Nat, NEW b \in Nat, NEW c \in Nat, NEW d \in Nat
  PROVE  Weight(a, b, c, d) \in Nat
  BY DEF Weight

LEMMA Weighs ==
  ASSUME NEW a \in Nat, NEW b \in Nat, NEW c \in Nat, NEW d \in Nat,
         NEW e \in Nat, NEW f \in Nat, NEW g \in Nat, NEW h \in Nat
  PROVE  /\ e = a - 1 /\ f = b /\ g = c /\ h = d
              => Weight(e, f, g, h) <= Weight(a, b, c, d) - 3
         /\ e = a /\ f = b /\ g = c + 1 /\ h = d
              => Weight(e, f, g, h) <= Weight(a, b, c, d) + 2
         /\ e = a /\ f = b - 1 /\ g = c + 1 /\ h = d
              => Weight(e, f, g, h) <= Weight(a, b, c, d) - 1
         /\ e = 0 /\ f = 0 /\ b >= 1 /\ g = c + 1 /\ h = d
              => Weight(e, f, g, h) <= Weight(a, b, c, d) - 1
         /\ e = a /\ f = b /\ g = 0 /\ c >= 1 /\ h = c /\ d = 0
              => Weight(e, f, g, h) <= Weight(a, b, c, d) - 1
         /\ e = a /\ f = b /\ g = c /\ h <= d - 1
              => Weight(e, f, g, h) <= Weight(a, b, c, d) - 1
  BY DEF Weight

LEMMA AnswerWeighs ==
  ASSUME NEW b \in Nat, NEW c \in Nat, NEW d \in Nat, NEW e \in Nat, NEW f \in Nat, NEW h \in Nat,
         e = 0 \/ e = 1, f = b + e, h <= d - 1
  PROVE  Weight(e, f, c, h) <= Weight(0, b, c, d) + 5
  BY DEF Weight

LEMMA LeftCounts == FlowType => LeftNumbers
  <1> SUFFICES ASSUME FlowType PROVE LeftNumbers
    OBVIOUS
  <1>1. \A p \in Peers : /\ Len(wire[p]) \in Nat /\ Len(unacked[p]) \in Nat
                         /\ Len(cq[p]) \in Nat /\ Len(wc[p]) \in Nat
    BY FlowNumbers
  <1>2. \A p \in Peers : Left(p) \in Nat
    BY <1>1, WeightIsNat DEF Left
  <1>3. LeftOver \in Nat
    BY <1>2, TheTwo DEF LeftOver
  <1>4. ASSUME NEW p \in Peers, NEW q \in Peers, q = Other(p) PROVE LeftOver = Left(p) + Left(q)
    <2>1. Left("server") \in Nat /\ Left("client") \in Nat
      BY <1>2, TheTwo
    <2>2. CASE p = "server" /\ q = "client"
      BY <2>2 DEF LeftOver
    <2>3. CASE p = "client" /\ q = "server"
      BY <2>1, <2>3 DEF LeftOver
    <2> QED BY <1>4, <2>2, <2>3, TheTwo
  <1> QED BY <1>1, <1>2, <1>3, <1>4 DEF LeftNumbers

LEMMA LeftCountsNext == FlowType' => LeftNumbers'
  BY LeftCounts, PTL

\* What is left changes as it does at one of the programs.
LEMMA LeftWith ==
  ASSUME FlowType, FlowType', NEW p \in Peers, NEW q \in Peers, q = Other(p),
         Left(q)' = Left(q)
  PROVE  /\ Left(p)' <= Left(p) - 1 => LeftOver' <= LeftOver - 1
         /\ Left(p)' <= Left(p) + 5 => LeftOver' <= LeftOver + 5
  <1>1. LeftNumbers /\ LeftNumbers'
    BY LeftCounts, LeftCountsNext
  <1>2. /\ LeftOver = Left(p) + Left(q) /\ LeftOver' = Left(p)' + Left(q)'
        /\ Left(p) \in Nat /\ Left(q) \in Nat /\ Left(p)' \in Nat
    BY <1>1 DEF LeftNumbers
  <1> QED BY <1>2

LEMMA DeliverUses ==
  ASSUME FlowType, FlowType', NEW p \in Peers, Deliver(p) PROVE LeftOver' <= LeftOver - 1
  <1> DEFINE q == Other(p)
  <1>1. LeftNumbers /\ LeftNumbers' /\ q \in Peers /\ q = Other(p) /\ q # p
    BY LeftCounts, LeftCountsNext, OtherPeer
  <1>2. UNCHANGED <<unacked, wc>>
    BY DEF Deliver
  <1>3. /\ wire'[q] = wire[q] /\ cq'[p] = cq[p]
        /\ Len(wire'[p]) = Len(wire[p]) - 1 /\ Len(cq'[q]) = Len(cq[q]) + 1
    BY <1>1, DeliverDoes
  <1> HIDE DEF q
  <1>4. /\ Len(wire[p]) \in Nat /\ Len(unacked[p]) \in Nat /\ Len(cq[p]) \in Nat /\ Len(wc[p]) \in Nat
        /\ Len(wire[q]) \in Nat /\ Len(unacked[q]) \in Nat /\ Len(cq[q]) \in Nat /\ Len(wc[q]) \in Nat
    BY <1>1 DEF LeftNumbers
  <1>5. Left(p)' <= Left(p) - 3
    <2>1. Len(wire'[p]) \in Nat
      BY <1>1 DEF LeftNumbers
    <2> QED BY <1>2, <1>3, <1>4, <2>1, Weighs DEF Left
  <1>6. Left(q)' <= Left(q) + 2
    <2>1. Len(cq'[q]) \in Nat
      BY <1>1 DEF LeftNumbers
    <2> QED BY <1>2, <1>3, <1>4, <2>1, Weighs DEF Left
  <1>7. /\ LeftOver = Left(p) + Left(q) /\ LeftOver' = Left(p)' + Left(q)'
        /\ Left(p) \in Nat /\ Left(q) \in Nat /\ Left(p)' \in Nat /\ Left(q)' \in Nat
    BY <1>1 DEF LeftNumbers
  <1> QED BY <1>5, <1>6, <1>7

LEMMA QuietUses ==
  ASSUME FlowType, FlowType', NEW p \in Peers,
         Acknowledge(p) \/ GiveUp(p) \/ PollCq(p) \/ SendCompleted(p) \/ SendFailed(p)
  PROVE  LeftOver' <= LeftOver - 1
  <1> DEFINE q == Other(p)
  <1>1. LeftNumbers /\ LeftNumbers' /\ q \in Peers /\ q = Other(p) /\ q # p
    BY LeftCounts, LeftCountsNext, OtherPeer
  <1> HIDE DEF q
  <1>2. /\ Len(wire[p]) \in Nat /\ Len(unacked[p]) \in Nat /\ Len(cq[p]) \in Nat /\ Len(wc[p]) \in Nat
        /\ Len(wire'[p]) \in Nat /\ Len(unacked'[p]) \in Nat /\ Len(cq'[p]) \in Nat
        /\ Len(wc'[p]) \in Nat /\ Left(p) \in Nat
    BY <1>1 DEF LeftNumbers
  <1>3. CASE Acknowledge(p)
    <2>1. UNCHANGED <<wire, wc>>
      BY <1>3 DEF Acknowledge
    <2>2. /\ Len(unacked'[p]) = Len(unacked[p]) - 1 /\ Len(cq'[p]) = Len(cq[p]) + 1
          /\ cq'[q] = cq[q] /\ unacked'[q] = unacked[q]
      BY <1>1, <1>3, AcknowledgeDoes
    <2>3. Left(p)' <= Left(p) - 1
      BY <1>2, <2>1, <2>2, Weighs DEF Left
    <2>4. Left(q)' = Left(q)
      BY <2>1, <2>2 DEF Left
    <2> QED BY <1>1, <2>3, <2>4, LeftWith
  <1>4. CASE GiveUp(p)
    <2>1. UNCHANGED wc
      BY <1>4 DEF GiveUp
    <2>2. /\ Len(wire'[p]) = 0 /\ Len(unacked'[p]) = 0 /\ Len(unacked[p]) >= 1
          /\ Len(cq'[p]) = Len(cq[p]) + 1
          /\ cq'[q] = cq[q] /\ unacked'[q] = unacked[q] /\ wire'[q] = wire[q]
      BY <1>1, <1>4, GiveUpDoes
    <2>3. Left(p)' <= Left(p) - 1
      BY <1>2, <2>1, <2>2, Weighs DEF Left
    <2>4. Left(q)' = Left(q)
      BY <2>1, <2>2 DEF Left
    <2> QED BY <1>1, <2>3, <2>4, LeftWith
  <1>5. CASE PollCq(p)
    <2>1. UNCHANGED <<wire, unacked>>
      BY <1>5 DEF PollCq
    <2>2. /\ Len(cq[p]) >= 1 /\ Len(cq'[p]) = 0 /\ Len(wc[p]) = 0 /\ Len(wc'[p]) = Len(cq[p])
          /\ cq'[q] = cq[q] /\ wc'[q] = wc[q]
      BY <1>1, <1>5, PollDoes
    <2>3. Left(p)' <= Left(p) - 1
      BY <1>2, <2>1, <2>2, Weighs DEF Left
    <2>4. Left(q)' = Left(q)
      BY <2>1, <2>2 DEF Left
    <2> QED BY <1>1, <2>3, <2>4, LeftWith
  <1>6. CASE SendCompleted(p) \/ SendFailed(p)
    <2>1. UNCHANGED <<wire, unacked, cq>> /\ wc[p] # << >>
          /\ (Handled(p) \/ wc' = [wc EXCEPT ![p] = << >>])
      BY <1>6 DEF SendCompleted, SendFailed, LeaveLoop, NextWc
    <2>2. Len(wc'[p]) <= Len(wc[p]) - 1 /\ wc'[q] = wc[q]
      BY <1>1, <2>1, TakenDoes
    <2>3. Left(p)' <= Left(p) - 1
      BY <1>2, <2>1, <2>2, Weighs DEF Left
    <2>4. Left(q)' = Left(q)
      BY <2>1, <2>2 DEF Left
    <2> QED BY <1>1, <2>3, <2>4, LeftWith
  <1> QED BY <1>3, <1>4, <1>5, <1>6

\* An answer is worth less than the message it counts.
LEMMA AnswerUses ==
  ASSUME FlowInv, FlowType', NEW p \in Peers, NEW q \in Peers, q = Other(p),
         wc[p] # << >>, NEW c, c = Head(wc[p]), c.op = "recv", UNCHANGED <<cq, walk>>,
         Handled(p) \/ wc' = [wc EXCEPT ![p] = << >>], NEW k \in Kinds,
         NEW buffers \in {<< >>, << 0 >>}, Post(p, <<Message(k, 0)>>, buffers),
         peer' \in [Peers -> HandshakeSteps], peer'[p] \notin Before, peer'[q] = peer[q]
  PROVE  LeftOver' <= LeftOver + 5
  <1>1. FlowType /\ LeftNumbers /\ LeftNumbers' /\ q # p
    BY LeftCounts, LeftCountsNext, OtherPeer DEF FlowInv
  <1>2. /\ Len(wire[p]) \in Nat /\ Len(unacked[p]) \in Nat /\ Len(cq[p]) \in Nat /\ Len(wc[p]) \in Nat
        /\ Len(wc'[p]) \in Nat
    BY <1>1 DEF LeftNumbers
  <1>3. Len(wire[p]) = 0
    BY TakesMessage
  <1>4. /\ FlowInv /\ q = Other(p) /\ wc[p] # << >> /\ c = Head(wc[p]) /\ c.op = "recv"
        /\ UNCHANGED <<cq, walk>> /\ (Handled(p) \/ wc' = [wc EXCEPT ![p] = << >>])
        /\ Post(p, <<Message(k, 0)>>, buffers)
        /\ peer' \in [Peers -> HandshakeSteps] /\ peer'[p] \notin Before /\ peer'[q] = peer[q]
    OBVIOUS
  <1>5. Len(wc'[p]) <= Len(wc[p]) - 1 /\ wc'[q] = wc[q]
    BY <1>1, TakenAll
  <1>6. /\ wire'[q] = wire[q] /\ unacked'[q] = unacked[q]
        /\ Len(wire'[p]) = Fits(p) /\ Len(unacked'[p]) = Len(unacked[p]) + Fits(p)
    <2>1. wire'[q] = wire[q]
      BY <1>4, AnswersMessage
    <2>2. unacked'[q] = unacked[q]
      BY <1>4, AnswersMessage
    <2>3. Len(wire'[p]) = Fits(p)
      BY <1>4, AnswersMessage
    <2>4. Len(unacked'[p]) = Len(unacked[p]) + Fits(p)
      BY <1>4, AnswersMessage
    <2> QED BY <2>1, <2>2, <2>3, <2>4
  <1>7. Fits(p) = 0 \/ Fits(p) = 1
    BY DEF Fits
  <1>8. Left(p)' <= Left(p) + 5
    <2>1. Len(wire'[p]) \in Nat /\ Len(unacked'[p]) \in Nat
      BY <1>1 DEF LeftNumbers
    <2>2. Left(p)' = Weight(Len(wire'[p]), Len(unacked'[p]), Len(cq[p]), Len(wc'[p]))
      BY DEF Left
    <2>3. Left(p) = Weight(Len(wire[p]), Len(unacked[p]), Len(cq[p]), Len(wc[p]))
      BY DEF Left
    <2>4. Weight(Len(wire'[p]), Len(unacked'[p]), Len(cq[p]), Len(wc'[p]))
            <= Weight(0, Len(unacked[p]), Len(cq[p]), Len(wc[p])) + 5
      <3>1. Len(wire'[p]) = 0 \/ Len(wire'[p]) = 1
        BY <1>6, <1>7
      <3>2. Len(unacked'[p]) = Len(unacked[p]) + Len(wire'[p])
        BY <1>6
      <3> QED BY <1>2, <1>5, <2>1, <3>1, <3>2, AnswerWeighs
    <2> QED BY <1>3, <2>2, <2>3, <2>4
  <1>9. Left(q)' = Left(q)
    BY <1>5, <1>6 DEF Left
  <1> QED BY <1>1, <1>8, <1>9, LeftWith

-----------------------------------------------------------------------------
LEMMA WorkIsNat ==
  ASSUME FlowType, EchoConstants, NEW os \in Nat, NEW oc \in Nat, os <= TOT_NUM_OPS, oc <= TOT_NUM_OPS,
         ops["server"] = os, ops["client"] = oc
  PROVE  Work \in Nat
  <1>1. LeftOver \in Nat
    BY LeftCounts DEF LeftNumbers
  <1>2. TOT_NUM_OPS \in Nat
    BY DEF EchoConstants
  <1> QED BY <1>1, <1>2 DEF Work

WorkCounts == Work \in Nat

LEMMA LoopingWorks == EchoInv /\ Looping => WorkCounts
  <1> SUFFICES ASSUME EchoInv, Looping PROVE Work \in Nat
    BY DEF WorkCounts
  <1>1. FlowType /\ CountsType /\ EchoCounted
    BY CountsAgree DEF EchoInv, FlowInv
  <1>2. ops["server"] \in Nat /\ ops["client"] \in Nat /\ TOT_NUM_OPS \in Nat
    BY <1>1, TheTwo, EchoConstants DEF CountsType
  <1>3. ops["server"] <= TOT_NUM_OPS /\ ops["client"] <= ops["server"]
    BY <1>1 DEF EchoCounted
  <1>4. ops["client"] <= TOT_NUM_OPS
    BY <1>2, <1>3
  <1> QED BY <1>1, <1>2, <1>3, <1>4, WorkIsNat, EchoConstants

LEMMA LoopingWorksNext == EchoInv' /\ Looping' => WorkCounts'
  BY LoopingWorks, PTL

\* Nothing is counted, but something done.
LEMMA LessLeft ==
  ASSUME EchoInv, Looping, FlowType', UNCHANGED ops, LeftOver' <= LeftOver - 1
  PROVE  Work' \in Nat /\ Work' < Work
  <1>1. FlowType /\ CountsType /\ EchoCounted
    BY CountsAgree DEF EchoInv, FlowInv
  <1>2. ops["server"] \in Nat /\ ops["client"] \in Nat /\ TOT_NUM_OPS \in Nat
    BY <1>1, TheTwo, EchoConstants DEF CountsType
  <1>3. ops["server"] <= TOT_NUM_OPS /\ ops["client"] <= ops["server"]
    BY <1>1 DEF EchoCounted
  <1>4. LeftOver \in Nat /\ LeftOver' \in Nat
    BY <1>1, LeftCounts, LeftCountsNext DEF LeftNumbers
  <1>5. ops'["server"] = ops["server"] /\ ops'["client"] = ops["client"]
    OBVIOUS
  <1>6. PICK n \in Nat : n = 2 * TOT_NUM_OPS - ops["server"] - ops["client"]
    BY <1>2, <1>3
  <1>7. PICK m \in Nat : m = 6 * n
    OBVIOUS
  <1>8. Work = m + LeftOver /\ Work' = m + LeftOver'
    BY <1>5, <1>6, <1>7 DEF Work
  <1>9. m + LeftOver' \in Nat /\ m + LeftOver' < m + LeftOver
    <2>1. LeftOver' <= LeftOver - 1 /\ m \in Nat
      BY <1>7
    <2>2. \A a, b, i \in Nat : b <= a - 1 => i + b \in Nat /\ i + b < i + a
      OBVIOUS
    <2> QED BY <1>4, <2>1, <2>2
  <1> QED BY <1>8, <1>9

\* A message is counted.
LEMMA OneMoreCounted ==
  ASSUME CountsType, FlowType, FlowType', LeftOver' <= LeftOver + 5,
         \/ ops'["server"] = ops["server"] + 1 /\ ops'["client"] = ops["client"]
         \/ ops'["client"] = ops["client"] + 1 /\ ops'["server"] = ops["server"]
  PROVE  Work' < Work
  <1>1. ops["server"] \in Nat /\ ops["client"] \in Nat /\ TOT_NUM_OPS \in Nat
    BY TheTwo, EchoConstants DEF CountsType
  <1>2. LeftOver \in Nat /\ LeftOver' \in Nat
    BY LeftCounts, LeftCountsNext DEF LeftNumbers
  <1>3. ops'["server"] + ops'["client"] = ops["server"] + ops["client"] + 1
        /\ ops'["server"] \in Nat /\ ops'["client"] \in Nat
    BY <1>1
  <1> QED BY <1>1, <1>2, <1>3 DEF Work

LEMMA EchoServerWorks ==
  ASSUME EchoInv, EchoInv', Looping, EchoServer PROVE Work' \in Nat /\ Work' < Work
  <1> DEFINE p == "server"
             q == "client"
             c == Head(wc[p])
             step == IF FreeSends(p) > 0 THEN "stop" ELSE "failed"
  <1>1. /\ FlowInv /\ FlowType /\ FlowType' /\ CountsType
        /\ p \in Peers /\ q \in Peers /\ q = Other(p) /\ q # p
    BY TheTwo DEF EchoInv, FlowInv
  <1>2. /\ peer[p] = "echo" /\ wc[p] # << >> /\ c.op = "recv" /\ UNCHANGED <<cq, walk>>
        /\ ops' = [ops EXCEPT ![p] = @ + 1]
    BY DEF EchoServer, NextWc
  <1>3. c.buf = 0
    BY <1>1, <1>2, TakesMessage
  <1>4. \/ Post(p, <<Message("stop", 0)>>, << >>) /\ LeaveLoop(p, step)
        \/ Post(p, <<Message("regular", 0)>>, << 0 >>) /\ Handled(p) /\ UNCHANGED peer
    BY <1>3 DEF EchoServer
  <1>5. Handled(p) \/ wc' = [wc EXCEPT ![p] = << >>]
    BY <1>4 DEF LeaveLoop
  <1>6. /\ "stop" \in Kinds /\ "regular" \in Kinds
        /\ << >> \in {<< >>, << 0 >>} /\ << 0 >> \in {<< >>, << 0 >>}
    BY DEF Kinds
  <1>7. PICK k \in Kinds, buffers \in {<< >>, << 0 >>} : Post(p, <<Message(k, 0)>>, buffers)
    BY <1>4, <1>6
  <1>8. /\ peer' \in [Peers -> HandshakeSteps] /\ peer'[p] \notin Before /\ peer'[q] = peer[q]
    <2>1. CASE UNCHANGED peer
      BY <1>1, <1>2, <2>1 DEF FlowType, Before
    <2>2. CASE Goto(p, step)
      <3>1. step \in HandshakeSteps /\ step \notin Before
        BY DEF HandshakeSteps, Workload, Before
      <3> QED BY <1>1, <2>2, <3>1, StepsOn
    <2> QED BY <1>4, <2>1, <2>2 DEF LeaveLoop
  <1>9. ops'[p] = ops[p] + 1 /\ ops'[q] = ops[q]
    BY <1>1, <1>2 DEF CountsType
  <1>10. Looping'
    BY <1>8 DEF Looping
  <1> HIDE DEF p, q
  <1>11. LeftOver' <= LeftOver + 5
    BY <1>1, <1>2, <1>5, <1>7, <1>8, AnswerUses
  <1>12. Work' < Work
    BY <1>1, <1>9, <1>11, OneMoreCounted DEF p, q
  <1> QED BY <1>10, <1>12, LoopingWorksNext DEF WorkCounts

LEMMA EchoClientWorks ==
  ASSUME EchoInv, EchoInv', Looping, EchoClient PROVE Work' \in Nat /\ Work' < Work
  <1> DEFINE p == "client"
             q == "server"
             c == Head(wc[p])
  <1>1. /\ FlowInv /\ FlowType /\ FlowType' /\ CountsType
        /\ p \in Peers /\ q \in Peers /\ q = Other(p) /\ q # p
    BY TheTwo DEF EchoInv, FlowInv
  <1>2. /\ peer[p] = "echo" /\ wc[p] # << >> /\ c.op = "recv" /\ UNCHANGED cq
        /\ ops' = [ops EXCEPT ![p] = @ + 1]
    BY DEF EchoClient, NextWc
  <1>3. c.buf = 0
    BY <1>1, <1>2, TakesMessage
  <1>4. ops'[p] = ops[p] + 1 /\ ops'[q] = ops[q]
    BY <1>1, <1>2 DEF CountsType
  <1>5. CASE c.kind = "stop"
    <2>1. /\ UNCHANGED <<wire, unacked>>
          /\ wc' = [wc EXCEPT ![p] = << >>] /\ Goto(p, "done")
      BY <1>5 DEF EchoClient, LeaveLoop
    <2>2. Looping'
      BY <1>1, <2>1 DEF Looping, Goto, FlowType
    <2> HIDE DEF p, q
    <2>3. Len(wc'[p]) <= Len(wc[p]) - 1 /\ wc'[q] = wc[q]
      BY <1>1, <1>2, <2>1, TakenDoes
    <2>4. /\ Len(wire[p]) \in Nat /\ Len(unacked[p]) \in Nat /\ Len(cq[p]) \in Nat
          /\ Len(wc[p]) \in Nat /\ Len(wc'[p]) \in Nat /\ Left(p)' \in Nat /\ Left(p) \in Nat
      BY <1>1, LeftCounts, LeftCountsNext DEF LeftNumbers
    <2>5. Left(p)' <= Left(p) - 1
      BY <1>2, <2>1, <2>3, <2>4, Weighs DEF Left
    <2>6. Left(q)' = Left(q)
      BY <1>2, <2>1, <2>3 DEF Left
    <2>7. LeftOver' <= LeftOver + 5
      <3>1. Left(p)' <= Left(p) + 5
        BY <2>4, <2>5
      <3> QED BY <1>1, <2>6, <3>1, LeftWith
    <2>8. Work' < Work
      BY <1>1, <1>4, <2>7, OneMoreCounted DEF p, q
    <2> QED BY <2>2, <2>8, LoopingWorksNext DEF WorkCounts
  <1>6. CASE c.kind # "stop"
    <2>1. /\ Post(p, <<Message("regular", 0)>>, <<walk[p].ptr>>)
          /\ walk' = [walk EXCEPT ![p] = Advance(@)] /\ Handled(p) /\ UNCHANGED peer
      BY <1>3, <1>6 DEF EchoClient
    <2>2. walk[p] = Start /\ walk[p].ptr = 0 /\ Advance(walk[p]) = Start
      BY <1>1, AdvanceStays DEF Start, FlowType
    <2>3. Post(p, <<Message("regular", 0)>>, << 0 >>) /\ walk' = walk
      BY <1>1, <2>1, <2>2 DEF FlowType
    <2>4. "regular" \in Kinds /\ << 0 >> \in {<< >>, << 0 >>}
      BY DEF Kinds
    <2>5. PICK k \in Kinds, buffers \in {<< >>, << 0 >>} : Post(p, <<Message(k, 0)>>, buffers)
      BY <2>3, <2>4
    <2>6. /\ peer' \in [Peers -> HandshakeSteps] /\ peer'[p] \notin Before /\ peer'[q] = peer[q]
      BY <1>1, <1>2, <2>1 DEF FlowType, Before
    <2>7. Looping'
      BY <2>1 DEF Looping
    <2> HIDE DEF p, q
    <2>8. LeftOver' <= LeftOver + 5
      BY <1>1, <1>2, <2>1, <2>3, <2>5, <2>6, AnswerUses
    <2>9. Work' < Work
      BY <1>1, <1>4, <2>8, OneMoreCounted DEF p, q
    <2> QED BY <2>7, <2>9, LoopingWorksNext DEF WorkCounts
  <1> QED BY <1>5, <1>6

LEMMA StepWorks ==
  ASSUME EchoInv, EchoInv', Looping, EchoNext PROVE Work' \in Nat /\ Work' < Work
  <1>1. FlowType /\ FlowType' /\ FlowInv
    BY DEF EchoInv, FlowInv
  <1>2. ASSUME NEW p \in Peers, Deliver(p) PROVE Work' \in Nat /\ Work' < Work
    <2>1. UNCHANGED ops
      BY <1>2 DEF Deliver
    <2> QED BY <1>1, <1>2, <2>1, DeliverUses, LessLeft
  <1>3. ASSUME NEW p \in Peers,
               Acknowledge(p) \/ GiveUp(p) \/ PollCq(p) \/ SendCompleted(p) \/ SendFailed(p)
        PROVE  Work' \in Nat /\ Work' < Work
    <2>1. UNCHANGED ops
      BY <1>3 DEF Acknowledge, GiveUp, PollCq, SendCompleted, SendFailed
    <2> QED BY <1>1, <1>3, <2>1, QuietUses, LessLeft
  <1>4. peer["client"] \in {"echo", "done"} /\ peer["server"] \in {"echo", "stop", "done", "failed"}
    BY WhileLooping DEF Looping, Over
  <1>5. /\ ~connect_qp_server /\ ~connect_qp_client /\ ~StartServer /\ ~StartClient
        /\ ~StartSignalled /\ ~SendFirst /\ ~ThreadFails("server") /\ ~ThreadFails("client")
    BY <1>4 DEF connect_qp_server, connect_qp_client, Bind, Accept, Connect, SockRead, SockWrite,
                modify_qp_to_rts, StartServer, StartClient, StartSignalled, NextWc, SendFirst,
                ThreadFails
  <1>6. CASE server_thread
    BY <1>3, <1>5, <1>6, EchoServerWorks, TheTwo DEF server_thread
  <1>7. CASE client_thread_func
    BY <1>3, <1>5, <1>7, EchoClientWorks, TheTwo DEF client_thread_func
  <1>8. CASE Adapters
    BY <1>2, <1>3, <1>8 DEF Adapters
  <1> QED BY <1>5, <1>6, <1>7, <1>8 DEF EchoNext

EchoWorks == Looping => Work' \in Nat /\ Work' < Work

\* Whatever is done once the client is in its loop uses up some of a fixed
\* amount of work, sends refused or not: the echo cannot go on for ever, and
\* together with EchoNeverStuck it stops only where a send is refused or both
\* programs have ended (rdma_send_recv client.c, server.c).
THEOREM EchoUsesUpWork == CONCURRENT = 1 => (EchoSpec => [][EchoWorks]_echoVars)
  <1>1. EchoInv /\ EchoInv' /\ [EchoNext]_echoVars => [EchoWorks]_echoVars
    BY StepWorks DEF EchoWorks
  <1> QED BY <1>1, EchoAlways, PTL DEF EchoSpec

=============================================================================
