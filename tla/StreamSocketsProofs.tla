-------------------------- MODULE StreamSocketsProofs --------------------------
(***************************************************************************)
(* What each step of a client and each system call of a server preserves.  *)
(* Both servers' proofs rest on these lemmas.                              *)
(***************************************************************************)
EXTENDS StreamSockets, SequenceTheorems, TLAPS

LEMMA NoMessages == <<>> \in Seq(Messages)
  OBVIOUS

\* What one recv() returns is a sequence of messages, numbered from 1 up.
LEMMA ChunkType ==
  ASSUME NEW c \in Clients, NEW lo \in Nat, NEW hi \in Nat, lo < hi
  PROVE  Chunk(c, lo, hi) \in Seq(Messages) /\ Chunk(c, lo, hi)[1][2] = lo + 1
  <1>1. hi - lo \in Nat /\ 1 \in 1..(hi - lo)
    OBVIOUS
  <1>2. Chunk(c, lo, hi) \in [1..(hi - lo) -> Messages]
    BY DEF Chunk, Messages
  <1>3. Chunk(c, lo, hi)[1] = <<c, lo + 1>>
    BY <1>1 DEF Chunk
  <1>4. Chunk(c, lo, hi) \in Seq(Messages)
    BY <1>1, <1>2, SeqDef
  <1> QED
    BY <1>3, <1>4

\* What waits in the accept queue, and at the other end of a socket, are clients.
LEMMA Ends ==
  ASSUME SocketsTypeOK
  PROVE  /\ \A p \in DOMAIN queue : queue[p] \in Clients
         /\ \A g \in Fds : Open(g) => sock[g] \in Clients
  <1>1. queue \in [1..Len(queue) -> Clients]
    BY DEF SocketsTypeOK
  <1>2. \A p \in DOMAIN queue : queue[p] \in Clients
    BY <1>1
  <1>3. \A g \in Fds : Open(g) => sock[g] \in Clients
    BY DEF SocketsTypeOK, Open
  <1> QED
    BY <1>2, <1>3

\* A client's step keeps the sockets right, leaves the server's descriptors
\* alone, and never takes back an event that poll() or select() has reported.
LEMMA ClientSockets ==
  ASSUME SocketsTypeOK, NEW c \in Clients, ClientStep(c)
  PROVE  /\ SocketsTypeOK'
         /\ sock' = sock
         /\ queue # <<>> => queue' # <<>>
         /\ OneToOne => OneToOne' /\ (\A f \in Fds : Readable(f) => Readable(f)')
  <1> USE ClientsAssumption, BoundsAssumption DEF SocketsTypeOK, PeerStates
  <1>1. CASE ClientConnect(c)
    <2>1. /\ queue' = Append(queue, c) /\ sock' = sock /\ read' = read /\ sent' = sent
          /\ peer' = [peer EXCEPT ![c] = "up"] /\ peer[c] = "off"
      BY <1>1 DEF ClientConnect
    <2>2. SocketsTypeOK' /\ queue' # <<>>
      <3>1. queue' \in Seq(Clients) /\ Len(queue') = Len(queue) + 1 /\ Len(queue) \in Nat
        BY <2>1, AppendProperties
      <3>2. queue' # <<>>
        BY <3>1
      <3>3. peer' \in [Clients -> PeerStates]
        BY <2>1
      <3> QED
        BY <1>1, <2>1, <3>1, <3>2, <3>3 DEF ClientConnect
    <2>3. ASSUME OneToOne PROVE OneToOne'
      <3> DEFINE n == Len(queue)
      <3>1. /\ DOMAIN queue' = 1..(n + 1) /\ DOMAIN queue = 1..n /\ n \in Nat
            /\ \A p \in 1..n : queue'[p] = queue[p] /\ queue[p] \in Clients
            /\ queue'[n + 1] = c
        BY <2>1
      <3>2. \A d \in Clients : d # c => peer'[d] = peer[d]
        BY <2>1
      <3>3. peer'[c] = "up" /\ peer[c] = "off"
        BY <2>1
      <3>4. \A f \in Fds : Open(f) => sock[f] \in Clients
        BY DEF Open
      <3> HIDE DEF SocketsTypeOK, n
      <3>5. \A p \in 1..n : /\ peer[queue[p]] # "off"
                            /\ \A f \in Fds : sock[f] # queue[p]
        BY <2>3, <3>1 DEF OneToOne, Accepted
      <3>6. \A f \in Fds : sock[f] # c
        BY <2>3, <3>3, <3>4, ClientsAssumption DEF OneToOne, Open
      <3>7. \A p \in 1..(n + 1) : p \in 1..n \/ p = n + 1
        BY <3>1
      <3>8. \A p \in 1..n : queue[p] # c
        BY <3>3, <3>5
      <3>9. \A p, q \in 1..n : queue[p] = queue[q] => p = q
        BY <2>3, <3>1 DEF OneToOne
      <3>10. \A p, q \in DOMAIN queue' : queue'[p] = queue'[q] => p = q
        BY <3>1, <3>7, <3>8, <3>9
      <3>11. \A p \in DOMAIN queue' : /\ peer'[queue'[p]] # "off"
                                      /\ \A f \in Fds : sock'[f] # queue'[p]
        BY <2>1, <3>1, <3>2, <3>3, <3>5, <3>6, <3>7
      <3>12. \A f \in Fds : sock[f] # NoClient => peer'[sock[f]] # "off"
        BY <2>3, <3>2, <3>3, <3>4, <3>6 DEF OneToOne, Open
      <3>13. /\ \A f, g \in Fds : (sock[f] # NoClient /\ sock[f] = sock[g]) => f = g
             /\ \A d \in Clients : read[d] <= sent[d]
        BY <2>3 DEF OneToOne, Open
      <3> QED
        BY <2>1, <3>10, <3>11, <3>12, <3>13 DEF OneToOne, Open, Accepted
    <2>4. ASSUME OneToOne, NEW f \in Fds, Readable(f) PROVE Readable(f)'
      BY <2>1, <2>4 DEF OneToOne, Readable, Open
    <2> QED
      BY <2>1, <2>2, <2>3, <2>4
  <1>2. CASE ClientSend(c)
    <2>1. /\ sent' = [sent EXCEPT ![c] = sent[c] + 1] /\ sent[c] < MaxMsgs
          /\ UNCHANGED <<queue, sock, peer, read, stream, unread>>
      BY <1>2 DEF ClientSend
    <2>2. SocketsTypeOK'
      <3>1. sent[c] + 1 \in 0..MaxMsgs
        BY <2>1
      <3>2. sent' \in [Clients -> 0..MaxMsgs]
        BY <2>1, <3>1
      <3> QED
        BY <2>1, <3>2
    <2>3. \A d \in Clients : /\ sent'[d] >= sent[d] /\ sent[d] \in Nat
                             /\ sent'[d] \in Nat /\ read[d] \in Nat
      BY <2>1
    <2>4. OneToOne => OneToOne'
      <3> HIDE DEF SocketsTypeOK
      <3>1. OneToOne => \A d \in Clients : read[d] <= sent'[d]
        BY <2>3 DEF OneToOne
      <3> QED
        BY <2>1, <3>1 DEF OneToOne, Open, Accepted
    <2>5. ASSUME NEW f \in Fds, Readable(f) PROVE Readable(f)'
      BY <2>1, <2>2, <2>3, <2>5 DEF Readable, Open
    <2> QED
      BY <2>1, <2>2, <2>4, <2>5
  <1>3. CASE ClientRecv(c)
    BY <1>3 DEF ClientRecv, OneToOne, Open, Accepted, Readable
  <1>4. CASE ClientExit(c)
    <2>1. /\ \E p \in {"fin", "err"} : peer' = [peer EXCEPT ![c] = p]
          /\ UNCHANGED <<queue, sock, sent, read, stream, unread>>
      BY <1>4 DEF ClientExit
    <2>2. SocketsTypeOK'
      BY <2>1
    <2>3. \A d \in Clients : peer[d] \notin {"off", "up"} => peer'[d] \notin {"off", "up"}
      BY <2>1
    <2>4. \A d \in Clients : peer[d] # "off" => peer'[d] # "off"
      BY <2>1
    <2>5. OneToOne => OneToOne'
      BY <2>1, <2>4 DEF OneToOne, Open, Accepted
    <2>6. ASSUME OneToOne, NEW f \in Fds, Readable(f) PROVE Readable(f)'
      BY <2>1, <2>3, <2>6 DEF OneToOne, Readable, Open
    <2> QED
      BY <2>1, <2>2, <2>5, <2>6
  <1> QED
    BY <1>1, <1>2, <1>3, <1>4 DEF ClientStep

\* accept() gives a free descriptor to a client that has none.
LEMMA AcceptSockets ==
  ASSUME SocketsTypeOK, NEW f \in FreeFds, SysAccept(f)
  PROVE  /\ SocketsTypeOK'
         /\ Head(queue) \in Clients
         /\ sock' = [sock EXCEPT ![f] = Head(queue)]
         /\ OneToOne => OneToOne'
  <1> USE ClientsAssumption, FdsAssumption DEF SocketsTypeOK
  <1>1. /\ queue # <<>> /\ queue' = Tail(queue)
        /\ sock' = [sock EXCEPT ![f] = Head(queue)] /\ f \in Fds
        /\ UNCHANGED <<peer, sent, read, stream, unread>>
    BY DEF SysAccept, FreeFds
  <1>2. /\ Len(queue) \in Nat \ {0} /\ DOMAIN queue = 1..Len(queue)
        /\ Head(queue) = queue[1] /\ queue[1] \in Clients /\ queue' \in Seq(Clients)
        /\ DOMAIN queue' = 1..(Len(queue) - 1)
        /\ \A p \in 1..(Len(queue) - 1) : queue'[p] = queue[p + 1]
    BY <1>1
  <1>3. SocketsTypeOK'
    BY <1>1, <1>2
  <1>4. ASSUME OneToOne PROVE OneToOne'
    <2> DEFINE n == Len(queue) - 1
    <2>1. /\ n \in Nat /\ DOMAIN queue' = 1..n
          /\ \A p \in 1..n : queue'[p] = queue[p + 1]
          /\ \A p \in 1..n : p + 1 \in DOMAIN queue /\ p + 1 # 1
          /\ 1 \in DOMAIN queue
      <3>1. n \in Nat /\ DOMAIN queue' = 1..n /\ DOMAIN queue = 1..(n + 1)
        BY <1>2
      <3>2. \A p \in 1..n : queue'[p] = queue[p + 1]
        BY <1>2
      <3> HIDE DEF n, SocketsTypeOK
      <3> QED
        BY <3>1, <3>2
    <2>2. sock'[f] = queue[1] /\ \A g \in Fds : g # f => sock'[g] = sock[g]
      BY <1>1, <1>2
    <2>3. queue[1] # NoClient
      BY <1>2
    <2> HIDE DEF SocketsTypeOK, n
    <2>4. /\ \A p, q \in DOMAIN queue : queue[p] = queue[q] => p = q
          /\ \A p \in DOMAIN queue : /\ peer[queue[p]] # "off"
                                    /\ \A g \in Fds : sock[g] # queue[p]
          /\ \A g, h \in Fds : (sock[g] # NoClient /\ sock[g] = sock[h]) => g = h
          /\ \A g \in Fds : sock[g] # NoClient => peer[sock[g]] # "off"
          /\ \A d \in Clients : read[d] <= sent[d]
      BY <1>4 DEF OneToOne, Open, Accepted
    <2>5. \A p \in 1..n : queue[p + 1] # queue[1]
      BY <2>1, <2>4
    <2>6. \A p, q \in 1..n : queue'[p] = queue'[q] => p = q
      <3>1. \A p, q \in 1..n : p + 1 = q + 1 => p = q
        BY <2>1
      <3> QED
        BY <2>1, <2>4, <3>1
    <2>7. \A p \in 1..n : /\ peer[queue'[p]] # "off"
                          /\ \A g \in Fds : sock'[g] # queue'[p]
      BY <2>1, <2>2, <2>4, <2>5
    <2>8. \A g, h \in Fds : (sock'[g] # NoClient /\ sock'[g] = sock'[h]) => g = h
      <3>1. \A g \in Fds : g # f => sock'[g] # sock'[f]
        BY <2>1, <2>2, <2>4
      <3> QED
        BY <2>2, <2>4, <3>1
    <2>9. \A g \in Fds : sock'[g] # NoClient => peer[sock'[g]] # "off"
      BY <2>1, <2>2, <2>4
    <2> QED
      BY <1>1, <2>1, <2>4, <2>6, <2>7, <2>8, <2>9 DEF OneToOne, Open, Accepted
  <1> QED
    BY <1>1, <1>2, <1>3, <1>4

\* recv() takes what is there and touches no other connection.
LEMMA RecvSockets ==
  ASSUME SocketsTypeOK, NEW f \in Fds, NEW hi \in 1..MaxMsgs, SysRecvData(f, hi)
  PROVE  /\ SocketsTypeOK'
         /\ sock[f] \in Clients
         /\ read[sock[f]] \in Nat /\ read[sock[f]] < hi
         /\ UNCHANGED <<sock, queue>>
         /\ OneToOne => OneToOne' /\ \A g \in Fds \ {f} : Readable(g) => Readable(g)'
  <1> USE ClientsAssumption, BoundsAssumption DEF SocketsTypeOK
  <1> DEFINE c == sock[f]
  <1>1. c \in Clients
    BY DEF SysRecvData, Open
  <1>2. /\ read' = [read EXCEPT ![c] = hi] /\ read[c] < hi /\ hi <= sent[c]
        /\ read[c] \in Nat /\ sent[c] \in Nat
        /\ UNCHANGED <<queue, sock, peer, sent, stream, unread>>
    BY <1>1 DEF SysRecvData
  <1>3. SocketsTypeOK'
    BY <1>1, <1>2
  <1>4. OneToOne => OneToOne'
    BY <1>1, <1>2, <1>3 DEF OneToOne, Open, Accepted
  <1>5. ASSUME OneToOne, NEW g \in Fds \ {f}, Readable(g) PROVE Readable(g)'
    <2>1. sock[g] # c
      BY <1>1, <1>5 DEF OneToOne, Readable, Open
    <2> QED
      BY <1>1, <1>2, <1>5, <2>1 DEF Readable, Open
  <1> QED
    BY <1>1, <1>2, <1>3, <1>4, <1>5

\* send() may learn of a reset but never makes a dead connection look alive.
LEMMA SendSockets ==
  ASSUME SocketsTypeOK, NEW c \in Clients, NEW msg \in Seq(Messages), SysSend(c, msg)
  PROVE  /\ SocketsTypeOK'
         /\ UNCHANGED <<sock, queue>>
         /\ OneToOne => OneToOne'
         /\ \A g \in Fds : Readable(g) => Readable(g)'
  <1> USE ClientsAssumption, BoundsAssumption DEF SocketsTypeOK, PeerStates
  <1>1. /\ stream' = [stream EXCEPT ![c] = stream[c] \o msg]
        /\ UNCHANGED <<queue, sock, sent, read>>
    BY DEF SysSend
  <1>2. stream' \in [Clients -> Seq(Messages)]
    BY <1>1
  <1>3. unread' \in [Clients -> Nat]
    <2>1. unread' = unread \/ unread' = [unread EXCEPT ![c] = unread[c] + Len(msg)]
      BY DEF SysSend
    <2>2. unread[c] + Len(msg) \in Nat
      OBVIOUS
    <2> QED
      BY <2>1, <2>2
  <1>4. \/ peer' = peer
        \/ peer[c] \in {"fin", "err"} /\ \E p \in {"pipe", "fin"} : peer' = [peer EXCEPT ![c] = p]
    BY DEF SysSend
  <1>5. /\ peer' \in [Clients -> PeerStates]
        /\ \A d \in Clients : peer[d] # "off" => peer'[d] # "off"
        /\ \A d \in Clients : peer[d] # "up" => peer'[d] # "up"
    BY <1>4
  <1>6. SocketsTypeOK'
    BY <1>1, <1>2, <1>3, <1>5
  <1>7. OneToOne => OneToOne'
    BY <1>1, <1>5 DEF OneToOne, Open, Accepted
  <1>8. ASSUME NEW g \in Fds, Readable(g) PROVE Readable(g)'
    BY <1>1, <1>5, <1>8 DEF Readable, Open
  <1> QED
    BY <1>1, <1>6, <1>7, <1>8

LEMMA CloseSockets ==
  ASSUME SocketsTypeOK, NEW f \in Fds, SysClose(f)
  PROVE  /\ SocketsTypeOK'
         /\ sock' = [sock EXCEPT ![f] = NoClient]
         /\ queue' = queue
         /\ OneToOne => OneToOne'
         /\ \A g \in Fds \ {f} : Readable(g) => Readable(g)'
  BY ClientsAssumption
  DEF SocketsTypeOK, SysClose, OneToOne, Open, Accepted, Readable

-----------------------------------------------------------------------------
(* Who is a member of the room: what each step does to Membership, the part *)
(* both servers' refinement mappings have in common.                        *)

Queued(c) == \E p \in DOMAIN queue : queue[p] = c

\* A client that connects only gets into the accept queue.
LEMMA ClientMembership ==
  ASSUME SocketsTypeOK, OneToOne, NEW c \in Clients, ClientStep(c)
  PROVE  \A d \in Clients : Membership(d)' = Membership(d)
  <1>1. CASE ClientConnect(c)
    <2> DEFINE n == Len(queue)
    <2>1. /\ queue' = Append(queue, c) /\ sock' = sock /\ peer[c] = "off"
          /\ \A d \in Clients : d # c => peer'[d] = peer[d]
      BY <1>1 DEF ClientConnect, SocketsTypeOK
    <2>2. /\ DOMAIN queue' = 1..(n + 1) /\ DOMAIN queue = 1..n /\ n \in Nat
          /\ \A p \in 1..n : queue'[p] = queue[p]
          /\ queue'[n + 1] = c
      BY <2>1 DEF SocketsTypeOK
    <2> HIDE DEF n
    <2>3. \A p \in 1..(n + 1) : p \in 1..n \/ p = n + 1
      BY <2>2
    <2>4. \A p \in 1..n : p \in 1..(n + 1)
      BY <2>2
    <2>5. n + 1 \in 1..(n + 1)
      BY <2>2
    <2>6. \A d \in Clients \ {c} : Queued(d)' <=> Queued(d)
      BY <2>2, <2>3, <2>4 DEF Queued
    <2>7. Queued(c)'
      BY <2>2, <2>5 DEF Queued
    <2>8. ~Accepted(c)
      BY <2>1, ClientsAssumption DEF OneToOne, Accepted, Open
    <2>9. \A d \in Clients : Accepted(d)' <=> Accepted(d)
      BY <2>1 DEF Accepted
    <2> QED
      BY <2>1, <2>6, <2>7, <2>8, <2>9 DEF Membership, Queued
  <1>2. CASE ClientSend(c) \/ ClientRecv(c)
    BY <1>2 DEF ClientSend, ClientRecv, Membership, Accepted
  <1>3. CASE ClientExit(c)
    <2>1. /\ UNCHANGED <<queue, sock>>
          /\ \A d \in Clients : peer'[d] = "off" <=> peer[d] = "off"
      BY <1>3 DEF ClientExit, SocketsTypeOK
    <2> QED
      BY <2>1 DEF Membership, Accepted
  <1> QED
    BY <1>1, <1>2, <1>3 DEF ClientStep

\* accept() takes one client from outside in.
LEMMA AcceptMembership ==
  ASSUME SocketsTypeOK, OneToOne, NEW f \in FreeFds, SysAccept(f),
         NEW c \in Clients, c = Head(queue)
  PROVE  /\ Membership(c) = "out" /\ Membership(c)' = "in"
         /\ \A d \in Clients \ {c} : Membership(d)' = Membership(d)
  <1> DEFINE n == Len(queue) - 1
  <1>1. /\ queue # <<>> /\ queue' = Tail(queue) /\ peer' = peer
        /\ sock' = [sock EXCEPT ![f] = Head(queue)] /\ f \in Fds /\ sock[f] = NoClient
    BY DEF SysAccept, FreeFds, Open
  <1>2. /\ n \in Nat /\ DOMAIN queue = 1..(n + 1) /\ DOMAIN queue' = 1..n
        /\ c = queue[1]
        /\ \A p \in 1..n : queue'[p] = queue[p + 1]
    BY <1>1 DEF SocketsTypeOK
  <1>3. sock'[f] = c /\ \A g \in Fds : g # f => sock'[g] = sock[g]
    BY <1>1, <1>2 DEF SocketsTypeOK
  <1> HIDE DEF n
  <1>4. 1 \in DOMAIN queue
    BY <1>2
  <1>5. ~Accepted(c) /\ Queued(c)
    BY <1>4 DEF OneToOne, Queued
  <1>6. Accepted(c)'
    BY <1>1, <1>3 DEF Accepted
  <1>7. ASSUME NEW d \in Clients \ {c} PROVE Accepted(d)' <=> Accepted(d)
    <2>1. sock[f] # d /\ sock'[f] # d
      BY <1>1, <1>3, ClientsAssumption
    <2> QED
      BY <1>3, <2>1 DEF Accepted
  <1>8. \A d \in Clients \ {c} : Queued(d)' <=> Queued(d)
    <2>1. /\ \A p \in 1..(n + 1) : p # 1 => \E q \in 1..n : q + 1 = p
          /\ \A q \in 1..n : q + 1 \in 1..(n + 1)
      <3>1. ASSUME NEW p \in 1..(n + 1), p # 1 PROVE \E q \in 1..n : q + 1 = p
        <4>1. p - 1 \in 1..n /\ (p - 1) + 1 = p
          BY <1>2, <3>1
        <4> QED
          BY <4>1
      <3> QED
        BY <1>2, <3>1
    <2> SUFFICES ASSUME NEW d \in Clients \ {c} PROVE Queued(d)' <=> Queued(d)
      OBVIOUS
    <2>2. ASSUME NEW p \in 1..(n + 1), queue[p] = d PROVE \E q \in 1..n : queue'[q] = d
      BY <1>2, <2>1, <2>2
    <2>3. ASSUME NEW q \in 1..n, queue'[q] = d PROVE \E p \in 1..(n + 1) : queue[p] = d
      BY <1>2, <2>1, <2>3
    <2> QED
      BY <1>2, <2>2, <2>3 DEF Queued
  <1> QED
    BY <1>1, <1>2, <1>5, <1>6, <1>7, <1>8 DEF Membership, Queued

\* recv() and send() change no membership: send() may learn of a reset, but a
\* client that was connected never becomes one that was not.
LEMMA DataMembership ==
  ASSUME UNCHANGED <<queue, sock>>,
         \A d \in Clients : peer'[d] = "off" <=> peer[d] = "off"
  PROVE  \A d \in Clients : Membership(d)' = Membership(d)
  BY DEF Membership, Accepted

LEMMA SendPeers ==
  ASSUME SocketsTypeOK, NEW c \in Clients, NEW msg, SysSend(c, msg)
  PROVE  /\ stream' = [stream EXCEPT ![c] = stream[c] \o msg]
         /\ UNCHANGED <<queue, sock, sent, read>>
         /\ \A d \in Clients : peer'[d] = "off" <=> peer[d] = "off"
  BY DEF SysSend, SocketsTypeOK

\* close() makes a member one that has left.
LEMMA CloseMembership ==
  ASSUME SocketsTypeOK, OneToOne, NEW f \in Fds, Open(f), SysClose(f),
         NEW c \in Clients, c = sock[f]
  PROVE  /\ Membership(c) = "in" /\ Membership(c)' = "left"
         /\ \A d \in Clients \ {c} : Membership(d)' = Membership(d)
  <1> USE ClientsAssumption
  <1>1. /\ sock[f] # NoClient /\ UNCHANGED <<queue, peer>>
        /\ sock'[f] = NoClient /\ \A g \in Fds : g # f => sock'[g] = sock[g]
    BY DEF Open, SysClose, SocketsTypeOK
  <1>2. c # NoClient
    BY <1>1
  <1>3. Accepted(c) /\ peer[c] # "off"
    BY <1>1, <1>2 DEF OneToOne, Open, Accepted
  <1>4. ~Queued(c)
    BY <1>3 DEF OneToOne, Queued
  <1>5. \A g \in Fds : g # f => sock[g] # c
    BY <1>2 DEF OneToOne, Open
  <1>6. \A g \in Fds : sock'[g] # c
    BY <1>1, <1>2, <1>5
  <1>7. ASSUME NEW d \in Clients \ {c} PROVE Accepted(d)' <=> Accepted(d)
    <2>1. sock[f] # d /\ sock'[f] # d
      BY <1>1
    <2> QED
      BY <1>1, <2>1 DEF Accepted
  <1>8. peer' = peer /\ queue' = queue
    BY <1>1
  <1>9. Membership(c) = "in"
    BY <1>3 DEF Membership
  <1>10. ~(\E g \in Fds : sock'[g] = c) /\ ~(\E p \in DOMAIN queue : queue[p] = c)
    BY <1>4, <1>6 DEF Queued
  <1>11. Membership(c)' = "left"
    BY <1>3, <1>8, <1>10 DEF Membership, Accepted
  <1>12. \A d \in Clients \ {c} : Membership(d)' = Membership(d)
    BY <1>7, <1>8 DEF Membership
  <1> QED
    BY <1>9, <1>11, <1>12
===============================================================================
