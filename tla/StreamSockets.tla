---------------------------- MODULE StreamSockets ----------------------------
(***************************************************************************)
(* The TCP sockets of one chat server as both telnet servers see them, and *)
(* the telnet client at the other end.  The kernel is not in the           *)
(* repository: its part is modelled from how the servers call it (accept,  *)
(* recv, send, close, the readiness that poll and select report).          *)
(* The client side is UnixTelnetClient.c: one thread writes lines, another *)
(* reads until the server goes away.                                       *)
(***************************************************************************)
EXTENDS Integers, Sequences, FiniteSets

CONSTANTS
    Clients,     \* client processes; each connects at most once
    NoClient,    \* no client: the socket is closed
    Fds,         \* the descriptor numbers the server process may use
    Listener,    \* the descriptor of the listening socket
    Backlog,     \* length of the accept queue, the argument of listen()
    MaxMsgs,     \* bound: messages one client writes
    SockBuf      \* bound: messages a connection holds before send() blocks

ASSUME ClientsAssumption == NoClient \notin Clients
ASSUME FdsAssumption == Fds \subseteq Nat /\ Listener \in Fds
ASSUME BoundsAssumption ==
    Backlog \in Nat \ {0} /\ MaxMsgs \in Nat /\ SockBuf \in Nat \ {0}

VARIABLES
    queue,       \* connections the kernel completed and nobody accepted yet
    sock,        \* fd -> the client at the other end, NoClient if fd is closed
    peer,        \* client -> state of its end of the connection
    sent,        \* client -> messages it has written
    read,        \* client -> how many of those the server has received
    stream,      \* client -> every message the server passed to send() for it
    unread       \* client -> how many of those it has not received yet

netVars == <<queue, sock, peer, sent, read, stream, unread>>

\* "fin": the client closed having read everything; "err": it closed with data
\* unread, or died, and its kernel sent a reset; "pipe": the server has met the
\* reset, and the next send() raises SIGPIPE.
PeerStates == {"off", "up", "fin", "err", "pipe"}

\* The author of a message and its number; a server may use numbers below 1
\* for texts of its own.
Messages == Clients \X Int

SocketsTypeOK ==
    /\ queue \in Seq(Clients)
    /\ sock \in [Fds -> Clients \union {NoClient}]
    /\ peer \in [Clients -> PeerStates]
    /\ sent \in [Clients -> 0..MaxMsgs]
    /\ read \in [Clients -> 0..MaxMsgs]
    /\ stream \in [Clients -> Seq(Messages)]
    /\ unread \in [Clients -> Nat]

SocketsInit ==
    /\ queue = <<>>
    /\ sock = [f \in Fds |-> NoClient]
    /\ peer = [c \in Clients |-> "off"]
    /\ sent = [c \in Clients |-> 0]
    /\ read = [c \in Clients |-> 0]
    /\ stream = [c \in Clients |-> <<>>]
    /\ unread = [c \in Clients |-> 0]

-----------------------------------------------------------------------------
(* What the server sees of a descriptor. *)

Open(f) == sock[f] # NoClient
OpenFds == {f \in Fds : Open(f)}
FreeFds == {f \in Fds \ {Listener} : ~Open(f)}
Accepted(c) == \E f \in Fds : sock[f] = c
Membership(c) ==
    IF Accepted(c) THEN "in"
    ELSE IF peer[c] = "off" \/ \E p \in DOMAIN queue : queue[p] = c THEN "out"
    ELSE "left"

\* recv() on f returns at once: data, end of stream, or an error.
Readable(f) == Open(f) /\ (sent[sock[f]] > read[sock[f]] \/ peer[sock[f]] # "up")

\* The messages lo+1 .. hi of client c, as one recv() returns them: TCP keeps
\* no message boundaries, so several may arrive in one buffer.
Chunk(c, lo, hi) == [k \in 1..(hi - lo) |-> <<c, lo + k>>]

\* A connection is one descriptor and is accepted once; a descriptor or a place
\* in the accept queue belongs to a client that did connect; the server has not
\* received more than was written.
OneToOne ==
    /\ \A f, g \in Fds : (Open(f) /\ sock[f] = sock[g]) => f = g
    /\ \A f \in Fds : Open(f) => peer[sock[f]] # "off"
    /\ \A p, q \in DOMAIN queue : queue[p] = queue[q] => p = q
    /\ \A p \in DOMAIN queue : peer[queue[p]] # "off" /\ ~Accepted(queue[p])
    /\ \A c \in Clients : read[c] <= sent[c]

-----------------------------------------------------------------------------
(* The telnet client. *)

\* connect(): the kernel completes the handshake while the backlog has room.
ClientConnect(c) ==
    /\ peer[c] = "off"
    /\ Len(queue) < Backlog
    /\ queue' = Append(queue, c)
    /\ peer' = [peer EXCEPT ![c] = "up"]
    /\ UNCHANGED <<sock, sent, read, stream, unread>>

\* fgets() a line and send() it.
ClientSend(c) ==
    /\ peer[c] = "up"
    /\ sent[c] < MaxMsgs
    /\ sent' = [sent EXCEPT ![c] = @ + 1]
    /\ UNCHANGED <<queue, sock, peer, read, stream, unread>>

\* thread_read: receive and print one message.
ClientRecv(c) ==
    /\ peer[c] = "up"
    /\ unread[c] > 0
    /\ unread' = [unread EXCEPT ![c] = @ - 1]
    /\ UNCHANGED <<queue, sock, peer, sent, read, stream>>

\* The client process ends: its kernel sends FIN, or RST when data is unread.
ClientExit(c) ==
    /\ peer[c] = "up"
    /\ peer' = [peer EXCEPT ![c] = IF unread[c] > 0 THEN "err" ELSE "fin"]
    /\ UNCHANGED <<queue, sock, sent, read, stream, unread>>

ClientStep(c) ==
    ClientConnect(c) \/ ClientSend(c) \/ ClientRecv(c) \/ ClientExit(c)

-----------------------------------------------------------------------------
(* System calls of the server; each leaves some of netVars to its caller. *)

\* accept(): the oldest connection, on the lowest free descriptor.
SysAccept(f) ==
    /\ queue # <<>>
    /\ f \in FreeFds
    /\ \A g \in FreeFds : f <= g
    /\ sock' = [sock EXCEPT ![f] = Head(queue)]
    /\ queue' = Tail(queue)
    /\ UNCHANGED <<peer, sent, read, stream, unread>>

\* recv() > 0: some of the data that has arrived.
SysRecvData(f, hi) ==
    LET author == sock[f] IN
    /\ Open(f)
    /\ hi \in (read[author] + 1)..sent[author]
    /\ read' = [read EXCEPT ![author] = hi]
    /\ UNCHANGED <<queue, sock, peer, sent, stream, unread>>

\* No data left and the other end is gone: recv() = 0 after an orderly close,
\* -1 once after a reset.
AtEnd(f) == Open(f) /\ sent[sock[f]] = read[sock[f]] /\ peer[sock[f]] # "up"

\* send() on c's connection.  "up" accepts the data when there is room (a
\* blocking socket waits for room); "fin" accepts it and may be answered with a
\* reset; "err" reports the reset with -1.  On "pipe" the call raises SIGPIPE.
SysSend(c, msg) ==
    /\ \/ /\ peer[c] = "up"
          /\ unread[c] < SockBuf
          /\ unread' = [unread EXCEPT ![c] = @ + Len(msg)]
          /\ UNCHANGED peer
       \/ /\ peer[c] \in {"fin", "err"}
          /\ \E p \in {"pipe"} \union ({"fin"} \intersect {peer[c]}) :
                peer' = [peer EXCEPT ![c] = p]
          /\ UNCHANGED unread
    /\ stream' = [stream EXCEPT ![c] = @ \o msg]
    /\ UNCHANGED <<queue, sock, sent, read>>

SysClose(f) ==
    /\ sock' = [sock EXCEPT ![f] = NoClient]
    /\ UNCHANGED <<queue, peer, sent, read, stream, unread>>
=============================================================================
