------------------------------ MODULE RdmaEcho ------------------------------
(***************************************************************************)
(* The RDMA echo (rdma_send_recv): a server and a client exchange the      *)
(* numbers of their queue pairs over a socket, bring the queue pairs up,   *)
(* synchronise, and then send one another messages until the server has    *)
(* counted TOT_NUM_OPS of them.                                            *)
(*                                                                         *)
(* One atomic step is one call on the socket, one poll of the completions, *)
(* one completion handled with what is posted for it, or one thing the     *)
(* adapters do.  These are external.  A reliable connection delivers in    *)
(* order what is posted and waits for a receive to be posted however long  *)
(* (rnr_retry 7); that a message has come in the sender learns at any      *)
(* later time, after answers to it as well, or never if the other is gone. *)
(* Buffers are positions in ib_buf, in units of msg_size.                  *)
(***************************************************************************)
EXTENDS Integers, Sequences, FiniteSets

CONSTANTS
  CONCURRENT,       \* num_concurr_msgs, 1
  MAX_WR,           \* max_send_wr and max_recv_wr, 2
  TOT_NUM_OPS       \* 5000000

ASSUME EchoConstants ==
  MAX_WR \in Nat /\ CONCURRENT \in 1 .. MAX_WR /\ TOT_NUM_OPS \in Nat \ {0}

VARIABLES
  peer,      \* next step of each program
  qp,        \* state of its queue pair
  sock,      \* what it wrote to the socket and the other has not read
  wire,      \* its posted sends that the other has not received
  recvs,     \* buffers of its posted receives
  unacked,   \* its posted sends that are not acknowledged, wire the last of them
  cq,        \* its completions
  wc,        \* those it has polled and not handled
  walk,      \* buf_ptr and buf_offset
  ops,       \* ops_count
  refused    \* for the properties: the kinds of request that were ever refused

queueVars == <<wire, recvs, unacked, cq, wc, walk, ops, refused>>
echoVars == <<peer, qp, sock, queueVars>>

Peers == {"server", "client"}
Other(p) == IF p = "server" THEN "client" ELSE "server"

Workload == {"start", "wait", "send", "echo", "stop"}

EchoInit ==
  /\ peer = [p \in Peers |-> IF p = "server" THEN "bind" ELSE "connect"]
  /\ qp = [p \in Peers |-> "INIT"]
  /\ sock = [p \in Peers |-> << >>] /\ wire = [p \in Peers |-> << >>]
  /\ recvs = [p \in Peers |-> << >>] /\ unacked = [p \in Peers |-> << >>]
  /\ cq = [p \in Peers |-> << >>] /\ wc = [p \in Peers |-> << >>]
  /\ walk = [p \in Peers |-> [ptr |-> 0, offset |-> 0]]
  /\ ops = [p \in Peers |-> 0]
  /\ refused = {}

Goto(p, step) == peer' = [peer EXCEPT ![p] = step]

-----------------------------------------------------------------------------
\* The handshake.  A program that fails closes its socket and ends; one that
\* starts its workload has closed the socket, too.

Closed(p) == peer[p] \in Workload \cup {"failed", "done"}

\* sock_read: less than was asked for only at the end of the stream.
SockRead(p, step, next) ==
  /\ peer[p] = step
  /\ \/ /\ sock[Other(p)] # << >>
        /\ sock' = [sock EXCEPT ![Other(p)] = Tail(@)]
        /\ Goto(p, next)
     \/ /\ sock[Other(p)] = << >> /\ Closed(Other(p))
        /\ UNCHANGED sock
        /\ Goto(p, "failed")
  /\ UNCHANGED <<qp, queueVars>>

\* sock_write: a write to a socket the other end has closed may still succeed.
SockWrite(p, step, message, next) ==
  /\ peer[p] = step
  /\ \/ sock' = [sock EXCEPT ![p] = Append(@, message)] /\ Goto(p, next)
     \/ Closed(Other(p)) /\ UNCHANGED sock /\ Goto(p, "failed")
  /\ UNCHANGED <<qp, queueVars>>

\* The set-up of the device and of the socket can fail, connecting only works
\* while the server listens.
Bind ==
  /\ peer["server"] = "bind"
  /\ Goto("server", "accept") \/ Goto("server", "failed")
  /\ UNCHANGED <<qp, sock, queueVars>>

Accept ==
  /\ peer["server"] = "accept" /\ peer["client"] \in {"set", "get"}
  /\ Goto("server", "get")
  /\ UNCHANGED <<qp, sock, queueVars>>

Connect ==
  /\ peer["client"] = "connect"
  /\ (peer["server"] = "accept" /\ Goto("client", "set")) \/ Goto("client", "failed")
  /\ UNCHANGED <<qp, sock, queueVars>>

\* The driver may refuse.  (It does as the code stands, which gives none of
\* the attributes RTR needs: they are commented out.)
modify_qp_to_rts(p, next) ==
  /\ peer[p] = "modify"
  /\ \/ qp' = [qp EXCEPT ![p] = "RTS"] /\ Goto(p, next)
     \/ UNCHANGED qp /\ Goto(p, "failed")
  /\ UNCHANGED <<sock, queueVars>>

connect_qp_server ==
  \/ Bind \/ Accept
  \/ SockRead("server", "get", "set")
  \/ SockWrite("server", "set", "info", "modify")
  \/ modify_qp_to_rts("server", "readSync")
  \/ SockRead("server", "readSync", "writeSync")
  \/ SockWrite("server", "writeSync", "sync", "start")

\* Mutant: the client synchronises before its queue pair is up.
connect_qp_client_SyncsFirst ==
  \/ Connect
  \/ SockWrite("client", "set", "info", "get")
  \/ SockRead("client", "get", "writeSync")
  \/ SockWrite("client", "writeSync", "sync", "readSync")
  \/ SockRead("client", "readSync", "modify")
  \/ modify_qp_to_rts("client", "start")

connect_qp_client ==
  \/ Connect
  \/ SockWrite("client", "set", "info", "get")
  \/ SockRead("client", "get", "modify")
  \/ modify_qp_to_rts("client", "writeSync")
  \/ SockWrite("client", "writeSync", "sync", "readSync")
  \/ SockRead("client", "readSync", "start")

-----------------------------------------------------------------------------
\* Posting.  A slot of a queue is free again when its completion is polled.

Completed(p, op) == Cardinality({i \in DOMAIN cq[p] : cq[p][i].op = op})
FreeSends(p) == MAX_WR - Len(unacked[p]) - Completed(p, "send")
FreeRecvs(p) == MAX_WR - Len(recvs[p]) - Completed(p, "recv")

\* post_send and post_recv, request by request: one that does not fit is
\* refused.  The loops do not look whether it was.
Fitting(requests, free) ==
  SubSeq(requests, 1, IF Len(requests) <= free THEN Len(requests) ELSE free)

Post(p, sends, buffers) ==
  LET sent == Fitting(sends, FreeSends(p))
      posted == Fitting(buffers, FreeRecvs(p))
  IN /\ wire' = [wire EXCEPT ![p] = @ \o sent]
     /\ unacked' = [unacked EXCEPT ![p] = @ \o sent]
     /\ recvs' = [recvs EXCEPT ![p] = @ \o posted]
     /\ refused' = refused \cup {op \in {"send", "recv"} :
                                 IF op = "send" THEN sent # sends ELSE posted # buffers}

Message(kind, buf) == [kind |-> kind, buf |-> buf]

\* buf_ptr goes on by the offset, not by the size of a message: it stays in
\* the buffer as long as that holds one message.
Advance(w) ==
  LET offset == (w.offset + 1) % CONCURRENT
  IN [ptr |-> w.ptr + offset, offset |-> offset]

WalkFrom(w) ==
  LET at[i \in 0 .. CONCURRENT] == IF i = 0 THEN w ELSE Advance(at[i - 1]) IN at

\* The first receives, and the first messages of the client.
Positions(w) == [i \in 1 .. CONCURRENT |-> WalkFrom(w)[i - 1].ptr]
EndOfWalk(w) == WalkFrom(w)[CONCURRENT]

-----------------------------------------------------------------------------
\* The workloads.

\* The thread may fail before it has posted anything.
ThreadFails(p) ==
  /\ peer[p] = "start"
  /\ Goto(p, "failed")
  /\ UNCHANGED <<qp, sock, queueVars>>

\* What is posted first is checked, and always fits the empty queues.
StartServer ==
  /\ peer["server"] = "start"
  /\ Post("server", <<Message("start", 0)>>, Positions(walk["server"]))
  /\ walk' = [walk EXCEPT !["server"] = EndOfWalk(@)]
  /\ Goto("server", "echo")
  /\ UNCHANGED <<qp, sock, cq, wc, ops>>

StartClient ==
  /\ peer["client"] = "start"
  /\ Post("client", << >>, Positions(walk["client"]))
  /\ walk' = [walk EXCEPT !["client"] = EndOfWalk(@)]
  /\ Goto("client", "wait")
  /\ UNCHANGED <<qp, sock, cq, wc, ops>>

\* ibv_poll_cq takes all there is: wc is larger than both queues.
PollCq(p) ==
  /\ peer[p] \in {"wait", "echo", "stop"} /\ wc[p] = << >> /\ cq[p] # << >>
  /\ wc' = [wc EXCEPT ![p] = cq[p]]
  /\ cq' = [cq EXCEPT ![p] = << >>]
  /\ UNCHANGED <<peer, qp, sock, wire, recvs, unacked, walk, ops, refused>>

\* Completions are handled one by one, in order.
NextWc(p, step, op) == peer[p] = step /\ wc[p] # << >> /\ Head(wc[p]).op = op
Handled(p) == wc' = [wc EXCEPT ![p] = Tail(@)]
\* A loop that is left leaves the rest of what it has polled.
LeaveLoop(p, step) == wc' = [wc EXCEPT ![p] = << >>] /\ Goto(p, step)

\* Nothing is done for a completed send, but for the last of the server, and
\* nothing for a message that comes in while the server waits for that.
SendCompleted(p) ==
  /\ \/ \E step \in {"wait", "echo", "stop"} : NextWc(p, step, "send")
     \/ NextWc(p, "stop", "recv")
  /\ LET stop == peer[p] = "stop" /\ Head(wc[p]).op = "send"
                                 /\ Head(wc[p]).kind = "stop"
     IN IF stop THEN LeaveLoop(p, "done") ELSE Handled(p) /\ UNCHANGED peer
  /\ UNCHANGED <<qp, sock, wire, recvs, unacked, cq, walk, ops, refused>>

\* No loop goes on after a completion with an error.
SendFailed(p) ==
  /\ \E step \in {"wait", "echo", "stop"} : NextWc(p, step, "error")
  /\ LeaveLoop(p, "failed")
  /\ UNCHANGED <<qp, sock, wire, recvs, unacked, cq, walk, ops, refused>>

StartSignalled ==
  /\ NextWc("client", "wait", "recv")
  /\ Post("client", << >>, <<walk["client"].ptr>>)
  /\ walk' = [walk EXCEPT !["client"] = Advance(@)]
  /\ IF Head(wc["client"]).kind = "start"
     THEN LeaveLoop("client", "send") ELSE Handled("client") /\ UNCHANGED peer
  /\ UNCHANGED <<qp, sock, cq, ops>>

\* Mutant: one message too many.
SendFirstOneMore ==
  LET from == [walk["client"] EXCEPT !.ptr = 0]
      once == [i \in 1 .. CONCURRENT |-> Message("regular", Positions(from)[i])]
  IN /\ peer["client"] = "send"
     /\ Post("client", once \o <<Message("regular", EndOfWalk(from).ptr)>>, << >>)
     /\ walk' = [walk EXCEPT !["client"] = EndOfWalk(from)]
     /\ Goto("client", "echo")
     /\ UNCHANGED <<qp, sock, cq, wc, ops>>

\* As with the first receives, the check never finds one refused.
SendFirst ==
  LET from == [walk["client"] EXCEPT !.ptr = 0]
  IN /\ peer["client"] = "send"
     /\ Post("client", [i \in 1 .. CONCURRENT |-> Message("regular", Positions(from)[i])],
             << >>)
     /\ walk' = [walk EXCEPT !["client"] = EndOfWalk(from)]
     /\ Goto("client", "echo")
     /\ UNCHANGED <<qp, sock, cq, wc, ops>>

\* The server echoes a message and posts a receive in the same buffer; the
\* last one it does not echo but answers with the order to stop, and fails if
\* that is refused.
EchoServer ==
  LET last == ops["server"] + 1 = TOT_NUM_OPS
      buf == Head(wc["server"]).buf
  IN /\ NextWc("server", "echo", "recv")
     /\ ops' = [ops EXCEPT !["server"] = @ + 1]
     /\ IF last
        THEN /\ Post("server", <<Message("stop", 0)>>, << >>)
             /\ LeaveLoop("server", IF FreeSends("server") > 0 THEN "stop" ELSE "failed")
        ELSE /\ Post("server", <<Message("regular", buf)>>, <<buf>>)
             /\ Handled("server") /\ UNCHANGED peer
     /\ UNCHANGED <<qp, sock, cq, walk>>

\* Mutant: the order to stop is counted and taken for a message.
EchoClientIgnoresStop ==
  /\ NextWc("client", "echo", "recv")
  /\ ops' = [ops EXCEPT !["client"] = @ + 1]
  /\ Post("client", <<Message("regular", Head(wc["client"]).buf)>>,
          <<walk["client"].ptr>>)
  /\ walk' = [walk EXCEPT !["client"] = Advance(@)]
  /\ Handled("client")
  /\ UNCHANGED <<qp, sock, cq, peer>>

\* The client posts its receives along the buffer.
EchoClient ==
  /\ NextWc("client", "echo", "recv")
  /\ ops' = [ops EXCEPT !["client"] = @ + 1]
  /\ IF Head(wc["client"]).kind = "stop"
     THEN /\ LeaveLoop("client", "done")
          /\ UNCHANGED <<wire, recvs, unacked, walk, refused>>
     ELSE /\ Post("client", <<Message("regular", Head(wc["client"]).buf)>>,
                  <<walk["client"].ptr>>)
          /\ walk' = [walk EXCEPT !["client"] = Advance(@)]
          /\ Handled("client") /\ UNCHANGED peer
  /\ UNCHANGED <<qp, sock, cq>>

server_thread ==
  \/ StartServer \/ ThreadFails("server")
  \/ PollCq("server") \/ SendCompleted("server") \/ SendFailed("server") \/ EchoServer

client_thread_func ==
  \/ StartClient \/ ThreadFails("client") \/ StartSignalled \/ SendFirst
  \/ PollCq("client") \/ SendCompleted("client") \/ SendFailed("client") \/ EchoClient

-----------------------------------------------------------------------------
\* The adapters.

Ended(p) == peer[p] \in {"failed", "done"}

Completion(op, message) == [op |-> op, kind |-> message.kind, buf |-> message.buf]

\* A message from p needs a posted receive of the other.
Deliver(p) ==
  LET q == Other(p) IN
  /\ wire[p] # << >> /\ ~Ended(q) /\ qp[q] = "RTS" /\ recvs[q] # << >>
  /\ wire' = [wire EXCEPT ![p] = Tail(@)]
  /\ cq' = [cq EXCEPT ![q] = Append(@,
              Completion("recv", Message(Head(wire[p]).kind, Head(recvs[q]))))]
  /\ recvs' = [recvs EXCEPT ![q] = Tail(@)]
  /\ UNCHANGED <<peer, qp, sock, unacked, wc, walk, ops, refused>>

\* p learns that the other has received the first message it does not know
\* about, however long ago that was.
Acknowledge(p) ==
  /\ ~Ended(p) /\ Len(unacked[p]) > Len(wire[p])
  /\ unacked' = [unacked EXCEPT ![p] = Tail(@)]
  /\ cq' = [cq EXCEPT ![p] = Append(@, Completion("send", Head(unacked[p])))]
  /\ UNCHANGED <<peer, qp, sock, wire, recvs, wc, walk, ops, refused>>

\* The queue pair of the other is gone: the retries are used up, be the
\* message lost or its acknowledgement.
GiveUp(p) ==
  /\ ~Ended(p) /\ unacked[p] # << >> /\ Ended(Other(p))
  /\ wire' = [wire EXCEPT ![p] = << >>]
  /\ unacked' = [unacked EXCEPT ![p] = << >>]
  /\ cq' = [cq EXCEPT ![p] = Append(@, Completion("error", Head(unacked[p])))]
  /\ UNCHANGED <<peer, qp, sock, recvs, wc, walk, ops, refused>>

Adapters == \E p \in Peers : Deliver(p) \/ Acknowledge(p) \/ GiveUp(p)

-----------------------------------------------------------------------------

EchoNext ==
  connect_qp_server \/ connect_qp_client \/ server_thread \/ client_thread_func \/ Adapters

\* Each program runs on, and the adapters deliver, acknowledge or give up.
EchoFairness ==
  /\ WF_echoVars(connect_qp_server) /\ WF_echoVars(connect_qp_client)
  /\ WF_echoVars(server_thread) /\ WF_echoVars(client_thread_func)
  /\ WF_echoVars(Adapters)

EchoSpec == EchoInit /\ [][EchoNext]_echoVars /\ EchoFairness

-----------------------------------------------------------------------------

Kinds == {"start", "regular", "stop"}
Messages == [kind : Kinds, buf : Int]
Completions == [op : {"send", "recv", "error"}, kind : Kinds, buf : Int]

EchoType ==
  /\ peer \in [Peers -> {"bind", "accept", "connect", "get", "set", "modify", "readSync",
                         "writeSync", "done", "failed"} \cup Workload]
  /\ qp \in [Peers -> {"INIT", "RTS"}]
  /\ sock \in [Peers -> Seq({"info", "sync"})]
  /\ wire \in [Peers -> Seq(Messages)] /\ unacked \in [Peers -> Seq(Messages)]
  /\ recvs \in [Peers -> Seq(Int)]
  /\ cq \in [Peers -> Seq(Completions)] /\ wc \in [Peers -> Seq(Completions)]
  /\ walk \in [Peers -> [ptr : Int, offset : Int]]
  /\ ops \in [Peers -> Nat] /\ refused \subseteq {"send", "recv"}

\* A program starts its workload only when the queue pairs of both are up,
\* although each brings up its own and neither reads the state of the other.
PeersAgree ==
  \A p \in Peers : peer[p] \in Workload \cup {"done"} => \A q \in Peers : qp[q] = "RTS"

\* A message is echoed from the buffer it came in while a receive is posted in
\* the same one: the receives always fit their queue, whose refusals the loops
\* ignore, they stay inside ib_buf, and no message can come in over one that
\* has still to go out, however late the acknowledgements are.
BuffersKept ==
  /\ "recv" \notin refused
  /\ \A p \in Peers :
       /\ \A i \in DOMAIN recvs[p] : recvs[p][i] \in 0 .. CONCURRENT - 1
       /\ recvs[p] # << >> /\ wire[Other(p)] # << >>
          => \A i \in DOMAIN wire[p] : wire[p][i] # Message("regular", Head(recvs[p]))

\* Of the sends the loops ignore the refusals, too, and these do happen, when
\* acknowledgements are late.  The echo is over then: no message is under way
\* any more, in either direction, although both programs poll on.
RefusedEchoIsOver ==
  "send" \in refused =>
    \A p \in Peers :
      /\ wire[p] = << >>
      /\ \A i \in DOMAIN cq[p] : cq[p][i].op # "recv"
      /\ \A i \in DOMAIN wc[p] : wc[p][i].op # "recv"

\* Once both loops run, and unless a send is refused, both come to an end,
\* having counted as many messages: the client in order, the server in order
\* or, if it does not hear of the end of the client, with an error.
EchoEnds ==
  peer["server"] = "echo" /\ peer["client"] = "echo"
    ~> \/ /\ peer["client"] = "done" /\ peer["server"] \in {"done", "failed"}
          /\ ops["server"] = TOT_NUM_OPS /\ ops["client"] = TOT_NUM_OPS
       \/ "send" \in refused

=============================================================================
