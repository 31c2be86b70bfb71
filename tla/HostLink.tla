------------------------------ MODULE HostLink ------------------------------
(***************************************************************************)
(* A graph and a host: host_com.cpp, with which the events example lets a   *)
(* host in Python (send_events.py) send events to the nodes of its graph    *)
(* and receive theirs.                                                      *)
(*                                                                         *)
(* Three parties: the nodes, whose threads send; the network thread, which  *)
(* serves one connection after the other and both receives and sends; and   *)
(* the hosts, which connect, send, read and go away when they like.  A      *)
(* connection is two streams of units (PackedEvents), cut anywhere; the     *)
(* socket of the network thread does not block.                             *)
(***************************************************************************)
EXTENDS PackedEvents, FiniteSetsExt

CONSTANTS Nodes,           \* the identifiers that get_scheduler_node() knows
          HostEvents,      \* for each connection, what the host sends in turn
          GraphEvents,     \* and what the nodes send
          Clients,         \* connections served before the server closes (5)
          MaxHostMsgs,     \* MAX_NB_HOST_MSGS (50)
          Room,            \* what the kernel holds for a host that does not read
          Chunks           \* how much at most one send() or recv() may move

ASSUME HostLinkAssumption ==
  /\ Clients \in Nat \ {0} /\ MaxHostMsgs \in Nat \ {0} /\ Room \in Nat \ {0}
  /\ Chunks \subseteq Nat \ {0} /\ Chunks # {}

Connections == 1..Clients
INVALID     == 0                   \* INVALID_SOCKET
NoLen       == -1                  \* msg_len is None

VARIABLES
  pc,              \* the network thread
  back,            \* where clean_queue() or process_queue() returns to
  server_fd,       \* is the server open?
  nbClients,       \* connections accepted
  client_socket,   \* the one that is served
  buffer,          \* its MessageReceiver
  msg_to_host,     \* messages that wait for the network thread
  frame, sent,     \* the one that is sent, and how much of it is gone
  up, down,        \* the streams of each connection
  host,            \* each host: "new", "open", "closed"
  reset,           \* connections that a host has answered with a reset
  msg_len, received, \* recv_messages() of each host
  sentUp, gotUp,   \* history: events of a host, events pushed to the queue
  sentDown, gotDown, \* history: events of the nodes, messages read by a host
  garbled,         \* history: connections with a frame abandoned on its way
  whole            \* history: frames sent whole before any was abandoned so

network == <<pc, back, nbClients, client_socket, buffer, msg_to_host,
             frame, sent>>
streams == <<up, down, reset>>
clients == <<host, msg_len, received>>
frames  == <<garbled, whole>>
logs    == <<sentUp, gotUp, sentDown, gotDown, frames>>
vars    == <<network, server_fd, streams, clients, logs>>

Each(x) == [c \in Connections |-> x]

Init ==
  /\ pc = "accept" /\ back = "accept" /\ server_fd = TRUE
  /\ nbClients = 0 /\ client_socket = INVALID
  /\ buffer = <<>> /\ msg_to_host = <<>> /\ frame = <<>> /\ sent = 0
  /\ up = Each(<<>>) /\ down = Each(<<>>) /\ reset = {}
  /\ host = Each("new") /\ msg_len = Each(NoLen) /\ received = Each(<<>>)
  /\ sentUp = Each(<<>>) /\ gotUp = Each(<<>>)
  /\ sentDown = Each(<<>>) /\ gotDown = Each(<<>>)
  /\ garbled = {} /\ whole = Each(0)
-----------------------------------------------------------------------------
(* Frames: the length of the message in four bytes, as two units of two,    *)
(* then the message.  A length has 32 bits, whatever units it is read from. *)
Half      == 65536
Framed(m) == <<Len(m) % Half, (Len(m) \div Half) % Half>> \o m
Length(s) == (s[1] % Half) + Half * (s[2] % Half)
Rest(s, n) == SubSeq(s, n + 1, Len(s))

(* Mutant of Complete: a message waits for the unit after it.               *)
CompleteLate(s) == Len(s) >= 2 /\ Len(s) > 2 + Length(s)

(* receiveMessages(): is there a whole message at the head of the buffer?   *)
Complete(s) == Len(s) >= 2 /\ Len(s) >= 2 + Length(s)

(* What one call of send() or recv() may move of n units.                   *)
Moves(n) == {Min({n, q}) : q \in Chunks} \ {0}
-----------------------------------------------------------------------------
(* The nodes: send_event_to_host() packs and, under the mutex, queues the   *)
(* message if a host is there and the queue has room.                       *)
MutexFree == pc \notin {"drain", "send"}

GSend ==
  /\ pc # "killed" /\ MutexFree
  /\ client_socket # INVALID
  /\ Len(sentDown[client_socket]) < Len(GraphEvents[client_socket])
  /\ LET e == GraphEvents[client_socket][Len(sentDown[client_socket]) + 1] IN
       /\ sentDown' = [sentDown EXCEPT ![client_socket] = Append(@, e)]
       /\ msg_to_host' = IF Len(msg_to_host) < MaxHostMsgs
                         THEN Append(msg_to_host, CppPack(e)) ELSE msg_to_host
  /\ UNCHANGED <<pc, back, nbClients, client_socket, buffer, frame, sent,
                 server_fd, streams, clients, sentUp, gotUp, gotDown, frames>>

(* close_host(), from main().                                               *)
CloseHost ==
  /\ server_fd /\ server_fd' = FALSE
  /\ UNCHANGED <<network, streams, clients, logs>>
-----------------------------------------------------------------------------
(* The network thread: listen_to_host().  A connection is accepted in the   *)
(* order of arrival, even when its host has gone.                           *)
NAccept ==
  /\ pc = "accept" /\ nbClients < Clients /\ server_fd
  /\ host[nbClients + 1] # "new"
  /\ nbClients' = nbClients + 1
  /\ client_socket' = nbClients'
  /\ buffer' = <<>>
  /\ pc' = "clean" /\ back' = "recv"
  /\ UNCHANGED <<msg_to_host, frame, sent, server_fd, streams, clients, logs>>

(* Enough hosts, or accept() fails on a closed socket.                      *)
NEnd ==
  /\ pc = "accept" /\ (nbClients = Clients \/ ~server_fd)
  /\ pc' = "done" /\ server_fd' = FALSE
  /\ UNCHANGED <<back, nbClients, client_socket, buffer, msg_to_host, frame, sent,
                 streams, clients, logs>>

(* Mutant of Cleaned: the test of the loop is inverted, and nothing goes.   *)
CleanedOfNone(q) == q

Cleaned(q) == <<>>

(* clean_queue(), after accept() and after the connection is closed.        *)
NClean ==
  /\ pc = "clean"
  /\ msg_to_host' = Cleaned(msg_to_host)
  /\ pc' = back
  /\ UNCHANGED <<back, nbClients, client_socket, buffer, frame, sent, server_fd,
                 streams, clients, logs>>

(* recv() returns what has arrived.                                         *)
NRecv ==
  /\ pc = "recv"
  /\ \E k \in Moves(Len(up[client_socket])) :
       /\ buffer' = buffer \o SubSeq(up[client_socket], 1, k)
       /\ up' = [up EXCEPT ![client_socket] = Rest(@, k)]
  /\ pc' = "parse"
  /\ UNCHANGED <<back, nbClients, client_socket, msg_to_host, frame, sent,
                 server_fd, down, reset, clients, logs>>

(* Nothing has arrived: EAGAIN.                                             *)
NRecvNothing ==
  /\ pc = "recv" /\ up[client_socket] = <<>> /\ host[client_socket] = "open"
  /\ pc' = "process" /\ back' = "recv"
  /\ UNCHANGED <<nbClients, client_socket, buffer, msg_to_host, frame, sent,
                 server_fd, streams, clients, logs>>

(* The host has closed, and perhaps reset the connection before all that it *)
(* sent has been read.                                                      *)
NRecvEnd ==
  /\ pc = "recv" /\ host[client_socket] = "closed"
  /\ up[client_socket] = <<>> \/ client_socket \in reset
  /\ pc' = "close"
  /\ UNCHANGED <<back, nbClients, client_socket, buffer, msg_to_host, frame, sent,
                 server_fd, streams, clients, logs>>

(* handleMessage(): an event for a node that exists goes to the queue.      *)
NHandle ==
  /\ pc = "parse" /\ Complete(buffer)
  /\ LET e == CppUnpack(SubSeq(buffer, 3, 2 + Length(buffer))) IN
       gotUp' = IF e.node \in Nodes
                THEN [gotUp EXCEPT ![client_socket] = Append(@, SaidCpp(e))]
                ELSE gotUp
  /\ buffer' = Rest(buffer, 2 + Length(buffer))
  /\ pc' = "process" /\ back' = "parse"
  /\ UNCHANGED <<nbClients, client_socket, msg_to_host, frame, sent, server_fd,
                 streams, clients, sentUp, sentDown, gotDown, frames>>

(* No whole message any more: receiveMessages() returns.                    *)
NParsed ==
  /\ pc = "parse" /\ ~Complete(buffer)
  /\ pc' = "process" /\ back' = "recv"
  /\ UNCHANGED <<nbClients, client_socket, buffer, msg_to_host, frame, sent,
                 server_fd, streams, clients, logs>>

(* process_queue(): it enters the mutex at "process" and keeps it until the *)
(* queue is empty.                                                          *)
NTake ==
  /\ pc \in {"process", "drain"} /\ msg_to_host # <<>>
  /\ frame' = Framed(Head(msg_to_host)) /\ sent' = 0
  /\ msg_to_host' = Tail(msg_to_host)
  /\ pc' = "send"
  /\ UNCHANGED <<back, nbClients, client_socket, buffer, server_fd, streams,
                 clients, logs>>

NDrained ==
  /\ pc \in {"process", "drain"} /\ msg_to_host = <<>>
  /\ pc' = back
  /\ UNCHANGED <<back, nbClients, client_socket, buffer, msg_to_host, frame,
                 sent, server_fd, streams, clients, logs>>

(* send_all(): send() takes a part of what is left, also of a frame that    *)
(* follows one abandoned on the same socket.                                *)
NSend ==
  /\ pc = "send" /\ host[client_socket] = "open"
  /\ \E k \in Moves(Min({Len(frame) - sent, Room - Len(down[client_socket])})) :
       /\ sent' = sent + k
       /\ down' = [down EXCEPT ![client_socket] =
                                 @ \o SubSeq(frame, sent + 1, sent')]
  /\ pc' = IF sent' = Len(frame) THEN "drain" ELSE "send"
  /\ whole' = IF sent' = Len(frame) /\ client_socket \notin garbled
              THEN [whole EXCEPT ![client_socket] = @ + 1] ELSE whole
  /\ UNCHANGED <<back, nbClients, client_socket, buffer, msg_to_host, frame,
                 server_fd, up, reset, clients, sentUp, gotUp, sentDown, gotDown,
                 garbled>>

(* The host has closed: the kernel takes what it is given, and the answer   *)
(* is a reset.                                                              *)
NSendClosed ==
  /\ pc = "send" /\ host[client_socket] = "closed" /\ client_socket \notin reset
  /\ reset' = reset \cup {client_socket}
  /\ pc' = "drain"
  /\ UNCHANGED <<back, nbClients, client_socket, buffer, msg_to_host, frame,
                 sent, server_fd, up, down, clients, logs>>

(* send() fails, the kernel's buffer being full or the connection reset:    *)
(* the rest of the message is abandoned, and the queue goes on with the     *)
(* next.  If a part was sent, the frames after it complete the message that *)
(* its length announced, and the host is out of step.                       *)
NSendFails ==
  /\ pc = "send"
  /\ \/ host[client_socket] = "open" /\ Len(down[client_socket]) = Room
     \/ client_socket \in reset
  /\ garbled' = IF sent > 0 THEN garbled \cup {client_socket} ELSE garbled
  /\ pc' = "drain"
  /\ UNCHANGED <<back, nbClients, client_socket, buffer, msg_to_host, frame,
                 sent, server_fd, streams, clients, sentUp, gotUp, sentDown,
                 gotDown, whole>>

(* On posix, a send() on a connection that was reset raises SIGPIPE, which  *)
(* nobody handles: the program ends.                                        *)
NKilled ==
  /\ pc = "send" /\ client_socket \in reset
  /\ pc' = "killed"
  /\ UNCHANGED <<back, nbClients, client_socket, buffer, msg_to_host, frame,
                 sent, server_fd, streams, clients, logs>>

NClose ==
  /\ pc = "close"
  /\ client_socket' = INVALID
  /\ pc' = "clean" /\ back' = "accept"
  /\ UNCHANGED <<nbClients, buffer, msg_to_host, frame, sent, server_fd,
                 streams, clients, logs>>

Network ==
  \/ NAccept \/ NEnd \/ NClean \/ NRecv \/ NRecvNothing \/ NRecvEnd
  \/ NHandle \/ NParsed \/ NTake \/ NDrained
  \/ NSend \/ NSendClosed \/ NSendFails \/ NKilled \/ NClose
-----------------------------------------------------------------------------
(* A host: send_events.py.  It may connect while another is served.         *)
CConnect(c) ==
  /\ server_fd /\ host[c] = "new"
  /\ c > 1 => host[c - 1] # "new"
  /\ host' = [host EXCEPT ![c] = "open"]
  /\ UNCHANGED <<network, server_fd, streams, msg_len, received, logs>>

(* sendMsg()                                                                *)
CSend(c) ==
  /\ host[c] = "open" /\ Len(sentUp[c]) < Len(HostEvents[c])
  /\ LET e == HostEvents[c][Len(sentUp[c]) + 1] IN
       /\ up' = [up EXCEPT ![c] = @ \o Framed(PyPack(e))]
       /\ sentUp' = [sentUp EXCEPT ![c] = Append(@, e)]
  /\ UNCHANGED <<network, server_fd, down, reset, clients, gotUp, sentDown,
                 gotDown, frames>>

(* recv_messages(): the length is taken off the buffer before the message   *)
(* is there, and sock.recv() is called when the buffer has no message.      *)
HasMessage(c) == msg_len[c] # NoLen /\ Len(received[c]) >= msg_len[c]

Buffered(c, len, units) ==
  LET header == len = NoLen /\ Len(units) >= 2 IN
  /\ msg_len' = [msg_len EXCEPT ![c] = IF header THEN Length(units) ELSE len]
  /\ received' = [received EXCEPT ![c] = IF header THEN Rest(units, 2) ELSE units]

CRecv(c) ==
  /\ host[c] = "open" /\ ~HasMessage(c)
  /\ \E k \in Moves(Len(down[c])) :
       /\ Buffered(c, msg_len[c], received[c] \o SubSeq(down[c], 1, k))
       /\ down' = [down EXCEPT ![c] = Rest(@, k)]
  /\ UNCHANGED <<network, server_fd, up, reset, host, logs>>

(* The message is yielded as it came; read_msg() unpacks it.                *)
CYield(c) ==
  /\ host[c] = "open" /\ HasMessage(c)
  /\ gotDown' = [gotDown EXCEPT ![c] =
                    Append(@, SubSeq(received[c], 1, msg_len[c]))]
  /\ Buffered(c, NoLen, Rest(received[c], msg_len[c]))
  /\ UNCHANGED <<network, server_fd, streams, host, sentUp, gotUp, sentDown,
                 frames>>

(* The host ends; what it has not read resets the connection.               *)
CClose(c) ==
  /\ host[c] = "open"
  /\ host' = [host EXCEPT ![c] = "closed"]
  /\ reset' = IF down[c] = <<>> THEN reset ELSE reset \cup {c}
  /\ UNCHANGED <<network, server_fd, up, down, msg_len, received, logs>>

Host(c) ==
  \/ CConnect(c) \/ CSend(c) \/ CRecv(c) \/ CYield(c)
  \/ CClose(c)

Next ==
  \/ Network
  \/ CloseHost
  \/ GSend
  \/ \E c \in Connections : Host(c)

(* The network thread is scheduled; nothing is asked of the others.         *)
Spec == Init /\ [][Next]_vars /\ WF_vars(Network)
-----------------------------------------------------------------------------
(* The values that both sides read.  C++ reads neither the strings nor the   *)
(* wide integers and tensors of Python, and Python loses the last byte of a  *)
(* raw buffer.  A list of C++ has room for CG_MAX_VALUES.                    *)
PyReadable ==
  {PyNone}
    \cup [type : {"int"}, of : {Tag.kNone}, dims : {<<>>}, body : [1..1 -> Int32]]
    \cup [type : {"float"}, of : {Tag.kNone}, dims : {<<>>}, body : [1..1 -> Int]]
    \cup [type : {"bytes"}, of : {Tag.kNone}, dims : {<<>>}, body : Seq(Int)]

CppReadable ==
  {CppNone}
    \cup [kind : Scalars, of : {Tag.kNone}, dims : {<<>>}, body : [1..1 -> Int]]
    \cup [kind : {SharedKind}, of : {Tag.kNone}, dims : {<<>>},
          body : [1..2 -> Int]]
    \cup [kind : {Tag.kStr}, of : {Tag.kNone}, dims : {<<>>}, body : Seq(Int)]
    \cup [kind : {Tag.kTensor}, of : Scalars,
          dims : {d \in Seq(Int) : Len(d) <= CG_TENSOR_NB_DIMS},
          body : Seq(Int)]

Events(values) ==
  [node : Int, id : Int, data : {d \in Seq(values) : Len(d) <= CG_MAX_VALUES}]

(* The length of a message goes into its 32 bits, with that of the header.  *)
Fits(m) == Len(m) \div Half < Half - 1

Readable ==
  /\ HostEvents \in
       [Connections -> Seq({e \in Events(PyReadable) : Fits(PyPack(e))})]
  /\ GraphEvents \in
       [Connections -> Seq({e \in Events(CppReadable) : Fits(CppPack(e))})]

(* The events a host sent to nodes that exist, as they should be heard.     *)
Told(events) ==
  FlattenSeq([i \in DOMAIN events |->
    IF events[i].node \in Nodes THEN <<Said(events[i])>> ELSE <<>>])

Expected(c) == Told(sentUp[c])

(* What the nodes are told on behalf of a connection is what its host sent, *)
(* each event once and in order, wherever the stream is cut and whatever    *)
(* the queue for the host does meanwhile (MessageReceiver, Unpack of        *)
(* cg_pack.hpp against Pack of events.py).                                  *)
GraphHearsHost ==
  \A c \in Connections : IsPrefix(gotUp[c], Expected(c))

(* The messages of a host that no abandoned frame can have touched: all that *)
(* it has read, or as many as were sent whole before the first such frame.  *)
Intact(c) ==
  IF c \in garbled THEN Min({whole[c], Len(gotDown[c])}) ELSE Len(gotDown[c])

(* A host reads events that were sent while it was connected and no other:  *)
(* in order, each at most once, and never a message left by the host before *)
(* (clean_queue(), process_queue(), Unpack of events.py against Pack of     *)
(* cg_pack.hpp).  The exception is what it reads from a frame on that       *)
(* send_all() abandoned in the middle, on which nothing is required: the    *)
(* first message there is that frame, completed with the bytes of the next  *)
(* ones.                                                                    *)
HostHearsGraph ==
  \A c \in Connections :
    \E from \in [1..Intact(c) -> DOMAIN sentDown[c]] :
      /\ \A i, j \in DOMAIN from : i < j => from[i] < from[j]
      /\ \A i \in DOMAIN from :
           PyUnpack(gotDown[c][i]) = SaidCpp(sentDown[c][from[i]])

(* An event sent by the host that is served reaches the queue of events,    *)
(* unless that host or the program goes away: no message stays in the       *)
(* receiver, and the messages for a host that does not read do not hold up  *)
(* those that it sends (receiveMessages(), process_queue()).                *)
EventsArrive ==
  \A c \in Connections : \A n \in 1..Len(Told(HostEvents[c])) :
    client_socket = c /\ Len(Expected(c)) >= n
      ~> Len(gotUp[c]) >= n \/ host[c] = "closed" \/ pc = "killed"
=============================================================================
