-------------------------- MODULE HeartbeatSender --------------------------
(***************************************************************************)
(* The heartbeat senders (send_heartbeat.c, send_pkt.c) and the mbufs they *)
(* share with the receive core of the same program: one pool feeds both,   *)
(* the driver takes an mbuf over at rte_eth_tx_burst and frees it later,   *)
(* and takes a fresh one for the receive ring when a packet is polled.     *)
(*                                                                         *)
(* There are three kinds of sender: those that allocate an mbuf for every  *)
(* heartbeat, those that allocate one at the start and send it again and   *)
(* again, and, of the latter, those of the evaluation, which do not        *)
(* receive but lose messages, replay a trace, and end.  copy holds what    *)
(* tells the program that runs apart.  NIC and driver are modelled from    *)
(* how the code uses them.                                                 *)
(***************************************************************************)
EXTENDS Integers, Sequences, SequencesExt, FiniteSets

CONSTANTS
  Mbuf,             \* the mbufs of the pool
  RX_RING, TX_RING, \* descriptors of the rings
  CRASH_TIME,       \* heartbeat after which an evaluation sender ends
  Copies,           \* the senders considered
  MaxIds            \* bound on the heartbeats

\* fresh     an mbuf is allocated for every heartbeat
\* receives  a receive core runs in the same program
\* numbered  the payload carries the number of the heartbeat
\* first     number of the first heartbeat
\* loses     a heartbeat may be left out, to simulate its loss
\* ends      heartbeat after which the program ends, 0 for never
chen_fd_sender ==
  [fresh |-> TRUE, receives |-> TRUE, numbered |-> TRUE, first |-> 1,
   loses |-> FALSE, ends |-> 0]
chen_fd_107_sender == chen_fd_sender
chen_fd_110_sender == chen_fd_sender
chen_fd_nyu_server_sender == chen_fd_sender

tensroflow_sender == [chen_fd_sender EXCEPT !.fresh = FALSE]
updated_chen_fd_sender == tensroflow_sender
fd_lstm_sender == tensroflow_sender
chen_eval_sender == tensroflow_sender
bertier_sender == tensroflow_sender
bertier_profile_sender == tensroflow_sender
mlfd_perf_eval_sender == tensroflow_sender
mlfd_profile_sender == tensroflow_sender

\* The number is increased before the heartbeat is sent.
dpdk_send ==
  [tensroflow_sender EXCEPT !.receives = FALSE, !.first = 2, !.loses = TRUE,
                            !.ends = CRASH_TIME]
\* Ends with the file.
dpdk_send_trace == [dpdk_send EXCEPT !.first = 1, !.loses = FALSE]

send_recv == [chen_fd_sender EXCEPT !.numbered = FALSE]
send_recv_ip_only == send_recv
send_recv_mac_only == send_recv

ASSUME SenderConstants ==
  /\ RX_RING \in Nat \ {0} /\ TX_RING \in Nat \ {0} /\ MaxIds \in Nat
  /\ IsFiniteSet(Mbuf) /\ Cardinality(Mbuf) > RX_RING + TX_RING + 1
ASSUME CopiesNumbered == \A c \in Copies : c.first \in Nat \ {0}

VARIABLES
  copy,
  pool,      \* free mbufs, in the order they are handed out
  rx_ring,   \* mbufs the NIC may write received packets to
  filled,    \* received and not yet polled
  polled,    \* with the receive core
  held,      \* the mbuf the sender refers to, << >> before it has one
  tx_ring,   \* mbufs the NIC has still to send
  sent,      \* sent, and not yet freed by the driver
  content,   \* what is in each mbuf: whose packet, and the number in it
  hb_id,     \* number of the next heartbeat
  sender,    \* the next step of the sender
  frame      \* the last packet on the wire

senderVars ==
  <<copy, pool, rx_ring, filled, polled, held, tx_ring, sent, content, hb_id,
    sender, frame>>
receiveVars == <<rx_ring, filled, polled>>
transmitVars == <<tx_ring, sent, frame>>

\* The setup of a copy that uses one mbuf: headers are written here only.
\* In every copy the driver has filled the receive ring from the pool.
SenderInit ==
  /\ copy \in Copies
  /\ LET order == SetToSeq(Mbuf)
         once == IF copy.fresh THEN 0 ELSE 1
     IN /\ rx_ring = SubSeq(order, 1, RX_RING)
        /\ held = SubSeq(order, RX_RING + 1, RX_RING + once)
        /\ pool = SubSeq(order, RX_RING + once + 1, Len(order))
  /\ filled = << >> /\ polled = << >> /\ tx_ring = << >> /\ sent = << >>
  /\ content = [m \in Mbuf |-> [ours |-> held = <<m>>, id |-> 0]]
  /\ hb_id = copy.first
  /\ sender = "next"
  /\ frame = [ours |-> TRUE, id |-> 0]

-----------------------------------------------------------------------------

\* rte_pktmbuf_alloc_bulk; its result is ignored, so that with an empty pool
\* the sender would write through an uninitialised pointer.
Allocate ==
  /\ sender = "next" /\ copy.fresh /\ hb_id <= MaxIds
  /\ IF pool = << >>
     THEN sender' = "wild" /\ UNCHANGED <<pool, held>>
     ELSE /\ held' = <<Head(pool)>> /\ pool' = Tail(pool)
          /\ sender' = "write"
  /\ UNCHANGED <<copy, receiveVars, transmitVars, content, hb_id>>

\* The mbuf of the setup, whoever owns it by now.
Reuse ==
  /\ sender = "next" /\ ~copy.fresh /\ hb_id <= MaxIds
  /\ sender' = "write"
  /\ UNCHANGED <<copy, pool, held, receiveVars, transmitVars, content, hb_id>>

\* The evaluation draws a random number for every heartbeat.
Lose ==
  /\ sender = "next" /\ copy.loses /\ hb_id <= MaxIds
  /\ sender' = IF hb_id = copy.ends THEN "ended" ELSE "next"
  /\ hb_id' = hb_id + 1
  /\ UNCHANGED <<copy, pool, held, receiveVars, transmitVars, content, frame>>

\* Mutant: the headers are written at the start only in every copy.
WriteNumberOnly ==
  /\ sender = "write"
  /\ content' = [content EXCEPT ![held[1]].id = IF copy.numbered THEN hb_id ELSE 0]
  /\ sender' = "burst"
  /\ UNCHANGED <<copy, pool, held, receiveVars, transmitVars, hb_id>>

\* Headers and payload in a fresh mbuf, the number alone in one used before.
Write ==
  /\ sender = "write"
  /\ content' = [content EXCEPT ![held[1]] =
       [ours |-> copy.fresh \/ @.ours, id |-> IF copy.numbered THEN hb_id ELSE 0]]
  /\ sender' = "burst"
  /\ UNCHANGED <<copy, pool, held, receiveVars, transmitVars, hb_id>>

\* Mutant: an mbuf the ring has no room for is not freed.
BurstKeepsUnsent ==
  /\ sender = "burst"
  /\ sent' = << >>
  /\ IF Len(tx_ring) < TX_RING
     THEN /\ tx_ring' = Append(tx_ring, held[1])
          /\ pool' = pool \o sent
     ELSE /\ tx_ring' = tx_ring
          /\ pool' = pool \o sent
  /\ held' = IF copy.fresh THEN << >> ELSE held
  /\ sender' = IF hb_id = copy.ends THEN "ended" ELSE "next"
  /\ hb_id' = hb_id + 1
  /\ UNCHANGED <<copy, receiveVars, content, frame>>

\* rte_eth_tx_burst: the driver first frees what has been sent.  An mbuf the
\* ring has no room for is freed by the sender.
Burst ==
  /\ sender = "burst"
  /\ sent' = << >>
  /\ IF Len(tx_ring) < TX_RING
     THEN /\ tx_ring' = Append(tx_ring, held[1])
          /\ pool' = pool \o sent
     ELSE /\ tx_ring' = tx_ring
          /\ pool' = pool \o sent \o held
  /\ held' = IF copy.fresh THEN << >> ELSE held
  /\ sender' = IF hb_id = copy.ends THEN "ended" ELSE "next"
  /\ hb_id' = hb_id + 1
  /\ UNCHANGED <<copy, receiveVars, content, frame>>

\* The NIC reads the mbuf when it sends it.
Transmit ==
  /\ tx_ring # << >>
  /\ frame' = content[Head(tx_ring)]
  /\ sent' = Append(sent, Head(tx_ring))
  /\ tx_ring' = Tail(tx_ring)
  /\ UNCHANGED <<copy, pool, held, receiveVars, content, hb_id, sender>>

\* A packet of the peer arrives.
FillMbuf ==
  /\ rx_ring # << >>
  /\ content' = [content EXCEPT ![Head(rx_ring)] = [ours |-> FALSE, id |-> 0]]
  /\ filled' = Append(filled, Head(rx_ring))
  /\ rx_ring' = Tail(rx_ring)
  /\ UNCHANGED <<copy, pool, held, polled, transmitVars, hb_id, sender>>

\* rte_eth_rx_burst: the driver puts a fresh mbuf in the place of each packet.
PollPacket ==
  /\ copy.receives /\ filled # << >> /\ polled = << >>
  /\ polled' = <<Head(filled)>>
  /\ filled' = Tail(filled)
  /\ IF pool = << >> THEN UNCHANGED <<pool, rx_ring>>
     ELSE rx_ring' = Append(rx_ring, Head(pool)) /\ pool' = Tail(pool)
  /\ UNCHANGED <<copy, held, transmitVars, content, hb_id, sender>>

\* rte_pktmbuf_free at the end of the receive loop.
FreePacket ==
  /\ polled # << >>
  /\ pool' = pool \o polled
  /\ polled' = << >>
  /\ UNCHANGED <<copy, held, rx_ring, filled, transmitVars, content, hb_id, sender>>

SenderNext ==
  \/ Allocate \/ Reuse \/ Lose \/ Write \/ Burst \/ Transmit
  \/ FillMbuf \/ PollPacket \/ FreePacket

SenderSpec == SenderInit /\ [][SenderNext]_senderVars

-----------------------------------------------------------------------------

SenderType ==
  /\ copy \in Copies /\ hb_id \in Nat
  /\ sender \in {"next", "write", "burst", "ended", "wild"}
  /\ \A q \in {pool, rx_ring, filled, polled, held, tx_ring, sent} : q \in Seq(Mbuf)
  /\ content \in [Mbuf -> [ours : BOOLEAN, id : Nat]]
  /\ frame \in [ours : BOOLEAN, id : Nat]

Everywhere == pool \o rx_ring \o filled \o polled \o held \o tx_ring \o sent

\* In the copies that allocate, an mbuf is in one place at a time and never
\* lost, whichever way the sender, the receive core, and the driver take
\* turns and however often the ring is full; so the pool is never empty when
\* the sender allocates without looking at the result.
MbufHasOneOwner ==
  copy.fresh =>
    /\ IsInjective(Everywhere) /\ ToSet(Everywhere) = Mbuf
    /\ sender # "wild"

\* What goes out is a heartbeat of this program, whatever the receive core does
\* with the pool.  In the copies that allocate the numbers go up from frame to
\* frame.  In those that write to an mbuf they have given away they do not go
\* back, and this only as long as no receive core takes it from the pool.
SendsHeartbeats ==
  [][Len(sent') > Len(sent) =>
       /\ copy.fresh => frame'.ours /\ (copy.numbered => frame.id < frame'.id)
       /\ ~copy.fresh /\ ~copy.receives => frame'.ours /\ frame.id <= frame'.id
    ]_senderVars

=============================================================================
