--------------------------- MODULE PollServerProofs ---------------------------
(***************************************************************************)
(* For any number of clients and descriptors, any initial size and any     *)
(* junk in unused slots: the descriptor table of the poll server is right, *)
(* the server implements the chat room, and a stale POLLIN stays where it  *)
(* does no harm.                                                           *)
(***************************************************************************)
EXTENDS PollServer, StreamSocketsProofs

\* Neither part is inductive alone: that pfds stays a function on 0..fd_size-1
\* needs fd_count <= fd_size, and the table facts need the types.
IInv == TypeOK /\ TableInv

USE DEF NoFd, Slot, Revents, Live, OpenFds, FreeFds, Open

\* The initial table, with only the listener in it.
LEMMA InitIInv == Init => IInv
  <1> USE ClientsAssumption, FdsAssumption, BoundsAssumption, PollAssumption
  <1> SUFFICES ASSUME Init PROVE IInv
    OBVIOUS
  <1>1. SocketsTypeOK
    BY DEF Init, SocketsInit, SocketsTypeOK, PeerStates, Messages
  <1>2. PICK junk \in [0..(InitSize - 1) -> JunkSlots] :
           pfds = [junk EXCEPT ![0].fd = Listener]
    BY DEF Init
  <1>3. pfds \in [0..(fd_size - 1) -> Slot] /\ pfds[0].fd = Listener
    <2>1. fd_size = InitSize /\ InitSize \in Nat /\ 0 \in 0..(InitSize - 1)
      BY DEF Init
    <2>2. junk[0] \in Slot /\ [junk[0] EXCEPT !.fd = Listener] \in Slot
      BY <2>1
    <2>3. pfds = [junk EXCEPT ![0] = [junk[0] EXCEPT !.fd = Listener]]
      BY <1>2
    <2>4. pfds \in [0..(InitSize - 1) -> Slot]
      BY <2>1, <2>2, <2>3
    <2> QED
      BY <2>1, <2>2, <2>3, <2>4
  <1>4. TypeOK
    BY <1>1, <1>3 DEF Init, TypeOK
  <1>5. TableInv
    BY <1>3 DEF Init, SocketsInit, TableInv
  <1> QED
    BY <1>4, <1>5 DEF IInv

\* A client never touches the server's descriptors.
LEMMA ClientTable ==
  ASSUME IInv, NEW c \in Clients, Client(c)
  PROVE  IInv'
  <1> USE ClientsAssumption, FdsAssumption, BoundsAssumption, PollAssumption
  <1>1. UNCHANGED serverVars /\ ClientStep(c)
    BY DEF Client
  <1>2. sock' = sock
    BY <1>1 DEF ClientStep, ClientConnect, ClientSend, ClientRecv, ClientExit
  <1>3. SocketsTypeOK'
    <2> USE DEF IInv, TypeOK, SocketsTypeOK, PeerStates
    <2>1. CASE ClientConnect(c)
      BY <2>1 DEF ClientConnect
    <2>2. CASE ClientSend(c)
      BY <2>2, SMTT(60) DEF ClientSend
    <2>3. CASE ClientRecv(c)
      BY <2>3 DEF ClientRecv
    <2>4. CASE ClientExit(c)
      BY <2>4 DEF ClientExit
    <2> QED
      BY <1>1, <2>1, <2>2, <2>3, <2>4 DEF ClientStep
  <1>4. TypeOK' /\ TableInv'
    BY <1>1, <1>2, <1>3 DEF IInv, TypeOK, TableInv, serverVars
  <1> QED
    BY <1>4 DEF IInv

\* add_to_pfds: the new connection gets the slot after the last live one.
LEMMA AcceptTable ==
  ASSUME IInv, AcceptClient
  PROVE  IInv'
  <1> USE ClientsAssumption, FdsAssumption, BoundsAssumption, PollAssumption
  <1> USE DEF IInv, TypeOK
  <1>1. PICK newFd \in FreeFds : SysAccept(newFd) /\ AddToPfds(newFd)
    BY DEF AcceptClient
  <1> DEFINE size == IF fd_count = fd_size THEN 2 * fd_size ELSE fd_size
  <1>2. PICK junk \in [fd_size..(size - 1) -> JunkSlots] :
           pfds' = [[k \in 0..(size - 1) |-> IF k < fd_size THEN pfds[k] ELSE junk[k]]
                       EXCEPT ![fd_count].fd = newFd]
    BY <1>1 DEF AddToPfds
  <1>3. fd_size' = size /\ fd_count' = fd_count + 1
    BY <1>1 DEF AddToPfds
  <1>4. size \in Nat /\ fd_size <= size /\ fd_count < size /\ fd_count >= 1
    BY DEF TableInv
  <1>5. pfds' \in [0..(size - 1) -> Slot]
    <2>1. \A k \in 0..(size - 1) :
             (IF k < fd_size THEN pfds[k] ELSE junk[k]) \in Slot
      BY <1>4
    <2> DEFINE grown == [k \in 0..(size - 1) |-> IF k < fd_size THEN pfds[k] ELSE junk[k]]
    <2>2. grown \in [0..(size - 1) -> Slot]
      BY <2>1
    <2>3. fd_count \in 0..(size - 1)
      BY <1>4
    <2>4. [grown[fd_count] EXCEPT !.fd = newFd] \in Slot
      BY <2>2, <2>3, ZenonT(60)
    <2>5. pfds' = [grown EXCEPT ![fd_count] = [grown[fd_count] EXCEPT !.fd = newFd]]
      BY <1>2
    <2> HIDE DEF grown, size, Slot
    <2> QED
      BY <2>2, <2>3, <2>4, <2>5
  <1>6. /\ \A k \in 0..(fd_count - 1) : pfds'[k] = pfds[k]
        /\ pfds'[fd_count].fd = newFd
    <2>1. \A k \in 0..(fd_count - 1) : k \in 0..(size - 1) /\ k < fd_size /\ k # fd_count
      BY <1>4 DEF TableInv
    <2>2. fd_count \in 0..(size - 1)
      BY <1>4
    <2>3. \A k \in 0..(size - 1) :
             (IF k < fd_size THEN pfds[k] ELSE junk[k]) \in Slot
      BY <1>4
    <2> QED
      BY <1>2, <2>1, <2>2, <2>3
  <1>7. sock' = [sock EXCEPT ![newFd] = Head(queue)] /\ queue # <<>> /\ queue' = Tail(queue)
    BY <1>1 DEF SysAccept
  <1>8. Head(queue) \in Clients /\ queue' \in Seq(Clients)
    BY <1>7 DEF SocketsTypeOK
  <1>9. SocketsTypeOK'
    BY <1>1, <1>7, <1>8, SMTT(60) DEF SocketsTypeOK, SysAccept
  <1>10. TypeOK'
    BY <1>3, <1>4, <1>5, <1>9 DEF AcceptClient
  <1>11. OpenFds' = OpenFds \union {newFd} /\ newFd \notin OpenFds /\ newFd # Listener
    BY <1>7, <1>8, SMTT(60) DEF SocketsTypeOK
  <1>12. TableInv'
    <2>1. 1 <= fd_count' /\ fd_count' <= fd_size' /\ pfds'[0].fd = Listener
      BY <1>3, <1>4, <1>6 DEF TableInv
    <2>2. Live' = Live \union {fd_count}
      BY <1>3, <1>4
    <2>3. \A k \in Live : pfds'[k].fd = pfds[k].fd
      BY <1>6, <1>4
    <2>4. pfds'[fd_count].fd = newFd
      BY <1>6
    <2> HIDE DEF Live, OpenFds, FreeFds, Slot
    <2>5. \A k \in Live' : pfds'[k].fd \in OpenFds' \ {Listener}
      BY <1>11, <2>2, <2>3, <2>4 DEF TableInv
    <2>6. \A k, l \in Live' : pfds'[k].fd = pfds'[l].fd => k = l
      BY <1>11, <2>2, <2>3, <2>4 DEF TableInv
    <2>7. \A f \in OpenFds' : \E k \in Live' : pfds'[k].fd = f
      BY <1>11, <2>2, <2>3, <2>4 DEF TableInv
    <2> QED
      BY <2>1, <2>5, <2>6, <2>7 DEF TableInv
  <1> QED
    BY <1>10, <1>12

\* close() and del_pfds: the last live slot moves into the one given up, so the
\* live descriptors are the old ones without the closed one, each once.
LEMMA RecvEndTable ==
  ASSUME IInv, RecvEnd
  PROVE  IInv'
  <1> USE ClientsAssumption, FdsAssumption, BoundsAssumption, PollAssumption
  <1> USE DEF IInv, TypeOK
  <1> DEFINE f == pfds[i].fd   last == fd_count - 1
  <1>1. i \in Live /\ last \in Live /\ fd_count > 1
    BY DEF RecvEnd, AtRecv, Scanning, TableInv
  <1>2. /\ pfds' = [pfds EXCEPT ![i] = pfds[last]]
        /\ fd_count' = last /\ fd_size' = fd_size
        /\ sock' = [sock EXCEPT ![f] = NoClient]
    BY DEF RecvEnd, DelPfds, SysClose
  <1>3. i \in 0..(fd_size - 1) /\ last \in 0..(fd_size - 1) /\ 0 \in 0..(fd_size - 1)
    BY <1>1 DEF TableInv
  <1>4. SocketsTypeOK'
    BY <1>2 DEF RecvEnd, SysClose, SocketsTypeOK
  <1>5. TypeOK'
    BY <1>1, <1>2, <1>3, <1>4 DEF RecvEnd
  <1>6. OpenFds' = OpenFds \ {f}
    BY <1>2 DEF SocketsTypeOK
  <1>7. Live' = Live \ {last}
    <2>1. fd_count' = fd_count - 1 /\ fd_count \in Nat
      BY <1>2
    <2> QED
      BY <2>1
  <1>8. /\ \A k \in 0..(fd_size - 1) : k # i => pfds'[k] = pfds[k]
        /\ pfds'[i] = pfds[last]
    BY <1>2, <1>3
  <1>9. Live \subseteq 0..(fd_size - 1)
    BY DEF TableInv
  <1>10. TableInv'
    <2>1. 1 <= fd_count' /\ fd_count' <= fd_size' /\ pfds'[0].fd = Listener
      BY <1>1, <1>2, <1>3, <1>8 DEF TableInv
    <2>2. \A k \in Live : pfds[k].fd \in OpenFds \ {Listener}
      BY DEF TableInv
    <2>3. \A k, l \in Live : pfds[k].fd = pfds[l].fd => k = l
      BY DEF TableInv
    <2>4. \A g \in OpenFds : \E k \in Live : pfds[k].fd = g
      BY DEF TableInv
    <2> HIDE DEF Live, OpenFds, FreeFds, Slot, last
    <2>5. \A k \in Live' : pfds'[k].fd \in OpenFds' \ {Listener}
      BY <1>1, <1>6, <1>7, <1>8, <1>9, <2>2, <2>3
    <2>6. \A k, l \in Live' : pfds'[k].fd = pfds'[l].fd => k = l
      BY <1>1, <1>7, <1>8, <1>9, <2>3
    <2>7. ASSUME NEW g \in OpenFds'
          PROVE  \E k \in Live' : pfds'[k].fd = g
      <3>1. PICK k \in Live : pfds[k].fd = g
        BY <1>6, <2>4
      <3>2. k # i
        BY <1>6, <3>1
      <3>3. CASE k = last
        BY <1>1, <1>7, <1>8, <3>1, <3>2, <3>3
      <3>4. CASE k # last
        BY <1>7, <1>8, <1>9, <3>1, <3>2, <3>4
      <3> QED
        BY <3>3, <3>4
    <2> QED
      BY <2>1, <2>5, <2>6, <2>7 DEF TableInv
  <1> QED
    BY <1>5, <1>10

\* poll() rewrites revents and nothing else.
LEMMA PollTable ==
  ASSUME IInv, Poll
  PROVE  IInv'
  <1> USE ClientsAssumption, FdsAssumption, BoundsAssumption, PollAssumption
  <1> USE DEF IInv, TypeOK
  <1>1. \A k \in 0..(fd_size - 1) :
           EventsOf(pfds[k].fd) \in Revents
    BY DEF EventsOf
  <1>2. pfds' = [k \in 0..(fd_size - 1) |->
                    [pfds[k] EXCEPT !.revents = EventsOf(pfds[k].fd)]]
    BY DEF Poll
  <1>3. ASSUME NEW k \in 0..(fd_size - 1)
        PROVE  pfds'[k].fd = pfds[k].fd
    <2> DEFINE event == EventsOf(pfds[k].fd)
    <2>1. pfds'[k] = [pfds[k] EXCEPT !.revents = event]
      BY <1>2
    <2>2. pfds[k] \in Slot
      OBVIOUS
    <2> HIDE DEF event
    <2> QED
      BY <2>1, <2>2
  <1>4. pfds' \in [0..(fd_size - 1) -> Slot]
    BY <1>1, <1>2, SMTT(60)
  <1>5. UNCHANGED <<netVars, fd_count, fd_size, i, j, msg>> /\ pc' = "scan"
    BY DEF Poll
  <1>6. SocketsTypeOK' /\ OpenFds' = OpenFds
    BY <1>5 DEF SocketsTypeOK, netVars
  <1>7. TypeOK'
    BY <1>4, <1>5, <1>6
  <1>8. 0 \in 0..(fd_size - 1) /\ Live' = Live /\ Live \subseteq 0..(fd_size - 1)
    BY <1>5 DEF TableInv
  <1>9. TableInv'
    <2>1. \A k \in 0..(fd_size - 1) : pfds'[k].fd = pfds[k].fd
      BY <1>3
    <2>2. fd_count' = fd_count /\ fd_size' = fd_size
      BY <1>5
    <2>3. TableInv
      BY DEF IInv
    <2> HIDE DEF Live, OpenFds, Slot, IInv, TypeOK
    <2>4. \A k \in Live : pfds'[k].fd = pfds[k].fd
      BY <1>8, <2>1
    <2>5. pfds'[0].fd = Listener
      BY <1>8, <2>1, <2>3 DEF TableInv
    <2> QED
      BY <1>6, <1>8, <2>2, <2>3, <2>4, <2>5 DEF TableInv
  <1> QED
    BY <1>7, <1>9

\* recv() and send() move data: the table and the set of open descriptors stay.
LEMMA DataTable ==
  ASSUME IInv, RecvData \/ Send
  PROVE  IInv'
  <1> USE ClientsAssumption, FdsAssumption, BoundsAssumption, PollAssumption
  <1> USE DEF IInv, TypeOK
  <1>1. UNCHANGED <<pfds, fd_count, fd_size, sock>>
    BY DEF RecvData, Send, SysRecvData, SysSend
  <1>2. TypeOK'
    <2>1. CASE RecvData
      <3> DEFINE c == sock[pfds[i].fd]
      <3>1. PICK hi \in 1..MaxMsgs :
               SysRecvData(pfds[i].fd, hi) /\ msg' = Chunk(c, read[c], hi)
        BY <2>1 DEF RecvData
      <3>2. i \in Live /\ c \in Clients
        <4>1. i \in Live
          BY <2>1 DEF RecvData, AtRecv, Scanning, TableInv
        <4>2. pfds[i].fd \in OpenFds
          BY <4>1 DEF TableInv
        <4> QED
          BY <4>1, <4>2 DEF SocketsTypeOK
      <3>3. msg' \in Seq(Messages)
        <4>1. hi \in Nat /\ read[c] \in Nat /\ read[c] < hi
          BY <3>1, <3>2 DEF SysRecvData, SocketsTypeOK
        <4>2. Chunk(c, read[c], hi) \in Seq(Messages)
          BY <3>2, <4>1, ChunkType
        <4> QED
          BY <3>1, <4>2
      <3>4. SocketsTypeOK'
        BY <3>1, <3>2, SMTT(60) DEF SysRecvData, SocketsTypeOK
      <3> QED
        BY <1>1, <2>1, <3>3, <3>4 DEF RecvData
    <2>2. CASE Send
      <3> DEFINE c == sock[pfds[j].fd]
      <3>1. SysSend(c, msg) /\ j' = j + 1 /\ UNCHANGED <<pc, i, msg>>
        BY <2>2 DEF Send
      <3>2. stream' \in [Clients -> Seq(Messages)]
        <4>1. stream' = [stream EXCEPT ![c] = stream[c] \o msg]
          BY <3>1 DEF SysSend
        <4>2. c \in Clients => stream[c] \o msg \in Seq(Messages)
          BY DEF SocketsTypeOK
        <4> QED
          BY <4>1, <4>2 DEF SocketsTypeOK
      <3>3. unread' \in [Clients -> Nat] /\ peer' \in [Clients -> PeerStates]
        <4>1. Len(msg) \in Nat
          OBVIOUS
        <4>2. unread' \in [Clients -> Nat]
          <5>1. unread' = unread \/ unread' = [unread EXCEPT ![c] = unread[c] + Len(msg)]
            BY <3>1 DEF SysSend
          <5>2. c \in Clients => unread[c] + Len(msg) \in Nat
            BY <4>1, SMTT(60) DEF SocketsTypeOK
          <5> QED
            BY <5>1, <5>2 DEF SocketsTypeOK
        <4>3. peer' \in [Clients -> PeerStates]
          <5>1. peer' = peer \/ \E p \in {"pipe", "fin"} : peer' = [peer EXCEPT ![c] = p]
            BY <3>1 DEF SysSend
          <5> QED
            BY <5>1 DEF SocketsTypeOK, PeerStates
        <4> QED
          BY <4>2, <4>3
      <3>4. SocketsTypeOK'
        BY <3>1, <3>2, <3>3 DEF SysSend, SocketsTypeOK
      <3> QED
        BY <1>1, <3>1, <3>4
    <2> QED
      BY <2>1, <2>2
  <1>3. TableInv'
    BY <1>1 DEF TableInv
  <1> QED
    BY <1>2, <1>3

\* The steps that only move the loop counters.
LEMMA LoopTable ==
  ASSUME IInv,
         EndOfPass \/ Skip \/ AcceptFails \/ SkipDestination \/ SigPipe \/ EndOfBroadcast
  PROVE  IInv'
  <1>1. UNCHANGED <<netVars, pfds, fd_count, fd_size>>
    BY DEF EndOfPass, Skip, AcceptFails, SkipDestination, SigPipe, EndOfBroadcast
  <1>2. /\ pc' \in {"poll", "scan", "bcast", "dead"}
        /\ i' \in Nat /\ j' \in Nat /\ msg' \in Seq(Messages)
    <2> USE DEF IInv, TypeOK
    <2>1. CASE EndOfPass \/ SigPipe
      BY <2>1 DEF EndOfPass, SigPipe
    <2>2. CASE Skip \/ AcceptFails
      BY <2>2 DEF Skip, AcceptFails, Scanning
    <2>3. CASE SkipDestination
      BY <2>3 DEF SkipDestination
    <2>4. CASE EndOfBroadcast
      <3>1. <<>> \in Seq(Messages)
        OBVIOUS
      <3> QED
        BY <2>4, <3>1 DEF EndOfBroadcast
    <2> QED
      BY <2>1, <2>2, <2>3, <2>4
  <1>3. SocketsTypeOK' /\ TableInv'
    BY <1>1 DEF IInv, TypeOK, TableInv, SocketsTypeOK, netVars
  <1> QED
    BY <1>1, <1>2, <1>3 DEF IInv, TypeOK

LEMMA StepIInv == IInv /\ [Next]_vars => IInv'
  <1> SUFFICES ASSUME IInv, [Next]_vars PROVE IInv'
    OBVIOUS
  <1>1. CASE Server
    BY <1>1, PollTable, AcceptTable, RecvEndTable, DataTable, LoopTable DEF Server
  <1>2. ASSUME NEW c \in Clients, Client(c) PROVE IInv'
    BY <1>2, ClientTable
  <1>3. CASE Over \/ UNCHANGED vars
    BY <1>3, ZenonT(60) DEF Over, vars, netVars, serverVars, IInv, TypeOK, TableInv, SocketsTypeOK
  <1> QED
    BY <1>1, <1>2, <1>3 DEF Next

\* The state of the server and of its sockets keeps its type: in particular
\* pollFileDescriptors always has fd_size entries.
THEOREM TypeCorrect == Spec => []TypeOK
  <1>1. IInv => TypeOK
    BY DEF IInv
  <1> QED
    BY <1>1, InitIInv, StepIInv, PTL DEF Spec

\* Every connection that was accepted and not closed is in exactly one live slot,
\* and every live slot holds such a connection, for any number of clients.
THEOREM TableCorrect == Spec => []TableInv
  <1>1. IInv => TableInv
    BY DEF IInv
  <1> QED
    BY <1>1, InitIInv, StepIInv, PTL DEF Spec

HIDE DEF NoFd, Slot, Revents, Live, OpenFds, FreeFds, Open

-----------------------------------------------------------------------------
(* The server implements the room.                                          *)

\* One descriptor, one client: the part of the sockets' state that the table
\* says nothing of, and the mapping of a broadcast needs.
RoomIInv == IInv /\ OneToOne

LEMMA RoomIInvInductive ==
  /\ Init => RoomIInv
  /\ RoomIInv /\ [Next]_vars => RoomIInv'
  <1>1. Init => OneToOne
    BY ClientsAssumption DEF Init, SocketsInit, OneToOne, Open, Accepted
  <1>2. RoomIInv /\ [Next]_vars => OneToOne'
    <2> SUFFICES ASSUME RoomIInv, [Next]_vars PROVE OneToOne'
      OBVIOUS
    <2>1. SocketsTypeOK /\ OneToOne /\ TableInv /\ TypeOK
      BY DEF RoomIInv, IInv, TypeOK
    <2>2. ASSUME NEW c \in Clients, Client(c) PROVE OneToOne'
      BY <2>1, <2>2, ClientSockets DEF Client
    <2>3. CASE AcceptClient
      BY <2>1, <2>3, AcceptSockets DEF AcceptClient
    <2>4. CASE RecvData
      <3>1. pfds[i].fd \in Fds
        BY <2>1, <2>4 DEF RecvData, AtRecv, Scanning, TableInv, Live, OpenFds, TypeOK
      <3> QED
        BY <2>1, <2>4, <3>1, RecvSockets DEF RecvData
    <2>5. CASE RecvEnd
      <3>1. pfds[i].fd \in Fds
        BY <2>1, <2>5 DEF RecvEnd, AtRecv, Scanning, TableInv, Live, OpenFds, TypeOK
      <3> QED
        BY <2>1, <2>5, <3>1, CloseSockets DEF RecvEnd
    <2>6. CASE Send
      <3>1. j \in Live
        BY <2>1, <2>6 DEF Send, IsDestination, TableInv, TypeOK, Live
      <3>2. sock[pfds[j].fd] \in Clients /\ msg \in Seq(Messages)
        BY <2>1, <3>1, Ends DEF TableInv, OpenFds, TypeOK
      <3> QED
        BY <2>1, <2>6, <3>2, SendSockets DEF Send
    <2>7. CASE UNCHANGED netVars
      BY <2>1, <2>7 DEF netVars, OneToOne, Open, Accepted
    <2> QED
      BY <2>2, <2>3, <2>4, <2>5, <2>6, <2>7
      DEF Next, Server, Over, vars, Poll, EndOfPass, Skip, AcceptFails,
          SkipDestination, SigPipe, EndOfBroadcast
  <1> QED
    BY <1>1, <1>2, InitIInv, StepIInv DEF RoomIInv

\* What the mapping says a client has heard.
Heard(c) == stream[c] \o Pending(c)

LEMMA HeardType ==
  ASSUME TypeOK, NEW c \in Clients
  PROVE  Pending(c) \in Seq(Messages) /\ Heard(c) \in Seq(Messages)
  <1>1. Pending(c) \in Seq(Messages)
    BY NoMessages DEF Pending, TypeOK
  <1>2. stream[c] \in Seq(Messages)
    BY DEF TypeOK, SocketsTypeOK
  <1> QED
    BY <1>1, <1>2, ConcatProperties DEF Heard

\* Outside a broadcast nothing is pending.
LEMMA HeardIdle ==
  ASSUME TypeOK, NEW c \in Clients, pc \in {"poll", "scan"} \/ j >= fd_count
  PROVE  Pending(c) = <<>> /\ Heard(c) = stream[c]
  <1>1. Pending(c) = <<>>
    BY DEF Pending, TypeOK
  <1>2. stream[c] \in Seq(Messages)
    BY DEF TypeOK, SocketsTypeOK
  <1> QED
    BY <1>1, <1>2, ConcatEmptySeq DEF Heard

(* Each step of the room, in terms of what the mapping reads.               *)

LEMMA MapsToStutter ==
  ASSUME \A d \in Clients : Membership(d)' = Membership(d) /\ Heard(d)' = Heard(d),
         read' = read
  PROVE  UNCHANGED Room!vars
  BY DEF Room!vars, Heard

LEMMA MapsToJoin ==
  ASSUME TypeOK, NEW c \in Clients,
         Membership(c) = "out", Membership(c)' = "in",
         \A d \in Clients \ {c} : Membership(d)' = Membership(d),
         \A d \in Clients : Heard(d)' = Heard(d),
         read' = read
  PROVE  Room!Join(c)
  <1>1. \A d \in Clients : Heard(d) \o <<>> = Heard(d)
    BY HeardType, ConcatEmptySeq
  <1>2. Room!Broadcast(c, <<>>)
    BY <1>1 DEF Room!Broadcast, Heard
  <1> QED
    BY <1>2 DEF Room!Join, Room!Announce

LEMMA MapsToLeave ==
  ASSUME TypeOK, NEW c \in Clients,
         Membership(c) = "in", Membership(c)' = "left",
         \A d \in Clients \ {c} : Membership(d)' = Membership(d),
         \A d \in Clients : Heard(d)' = Heard(d),
         read' = read
  PROVE  Room!Leave(c)
  <1>1. \A d \in Clients : Heard(d) \o <<>> = Heard(d)
    BY HeardType, ConcatEmptySeq
  <1>2. Room!Broadcast(c, <<>>)
    BY <1>1 DEF Room!Broadcast, Heard
  <1> QED
    BY <1>2 DEF Room!Leave, Room!Announce

LEMMA MapsToSay ==
  ASSUME TypeOK, NEW c \in Clients, NEW hi \in (read[c] + 1)..MaxMsgs,
         Membership(c) = "in",
         \A d \in Clients : Membership(d)' = Membership(d),
         read' = [read EXCEPT ![c] = hi],
         \A d \in Clients :
            Heard(d)' = IF Membership(d) = "in" /\ d # c
                        THEN Heard(d) \o Chunk(c, read[c], hi) ELSE Heard(d)
  PROVE  Room!Say(c)
  <1>1. Room!Broadcast(c, Chunk(c, read[c], hi))
    BY DEF Room!Broadcast, Heard
  <1> QED
    BY <1>1 DEF Room!Say, Chunk

(* Each step of the server is a step of the room, or a stutter.             *)

LEMMA InitMaps == Init => Room!Init
  <1> SUFFICES ASSUME Init PROVE Room!Init
    OBVIOUS
  <1>1. \A c \in Clients : Membership(c) = "out"
    BY ClientsAssumption DEF Init, SocketsInit, Membership, Accepted
  <1>2. \A c \in Clients : stream[c] \o Pending(c) = <<>>
    BY DEF Init, SocketsInit, Pending
  <1>3. read = [c \in Clients |-> 0]
    BY DEF Init, SocketsInit
  <1> QED
    BY <1>1, <1>2, <1>3 DEF Room!Init

LEMMA ClientMaps ==
  ASSUME RoomIInv, NEW c \in Clients, Client(c)
  PROVE  UNCHANGED Room!vars
  <1>1. \A d \in Clients : Membership(d)' = Membership(d)
    BY ClientMembership DEF Client, RoomIInv, IInv, TypeOK
  <1>2. UNCHANGED serverVars /\ UNCHANGED <<sock, read, stream>>
    BY DEF Client, ClientStep, ClientConnect, ClientSend, ClientRecv, ClientExit
  <1>3. \A d \in Clients : Heard(d)' = Heard(d)
    BY <1>2 DEF Heard, Pending, IsDestination, serverVars
  <1> QED
    BY <1>1, <1>2, <1>3, MapsToStutter

\* accept(): the client joins, unannounced.
LEMMA AcceptMaps ==
  ASSUME RoomIInv, AcceptClient
  PROVE  Room!Next
  <1>1. PICK f \in FreeFds : SysAccept(f)
    BY DEF AcceptClient
  <1>2. PICK d \in Clients : d = Head(queue)
    BY <1>1, AcceptSockets DEF RoomIInv, IInv, TypeOK
  <1>3. /\ Membership(d) = "out" /\ Membership(d)' = "in"
        /\ \A e \in Clients \ {d} : Membership(e)' = Membership(e)
    BY <1>1, <1>2, AcceptMembership DEF RoomIInv, IInv, TypeOK
  <1>4. /\ pc = "scan" /\ pc' = pc /\ stream' = stream /\ read' = read
    BY <1>1 DEF AcceptClient, Scanning, SysAccept
  <1>5. TypeOK /\ TypeOK'
    BY RoomIInvInductive DEF RoomIInv, IInv, Next, Server
  <1>6. \A e \in Clients : Heard(e)' = Heard(e)
    BY <1>4 DEF Heard, Pending
  <1>7. Room!Join(d)
    BY <1>3, <1>4, <1>5, <1>6, MapsToJoin
  <1> QED
    BY <1>7 DEF Room!Next

\* recv() > 0: everybody in the room but the author will be sent the buffer.
LEMMA RecvDataMaps ==
  ASSUME RoomIInv, RecvData
  PROVE  Room!Next
  <1>1. PICK f \in Fds : f = pfds[i].fd /\ f # Listener /\ Open(f) /\ i \in Live
    <2>1. i \in Live
      BY DEF RoomIInv, IInv, TypeOK, RecvData, AtRecv, Scanning, TableInv, Live
    <2> QED
      BY <2>1 DEF RoomIInv, IInv, TableInv, OpenFds
  <1>2. PICK c \in Clients : c = sock[f] /\ c # NoClient
    BY <1>1, Ends DEF RoomIInv, IInv, TypeOK, Open
  <1>3. PICK hi \in 1..MaxMsgs : SysRecvData(f, hi) /\ msg' = Chunk(c, read[c], hi)
    BY <1>1, <1>2 DEF RecvData
  <1>4. /\ read' = [read EXCEPT ![c] = hi] /\ hi \in (read[c] + 1)..sent[c]
        /\ UNCHANGED <<queue, sock, peer, sent, stream>>
    BY <1>2, <1>3 DEF SysRecvData
  <1>5. hi \in (read[c] + 1)..MaxMsgs
    BY <1>4, BoundsAssumption DEF RoomIInv, IInv, TypeOK, SocketsTypeOK
  <1>6. \A d \in Clients : Membership(d)' = Membership(d)
    BY <1>4, DataMembership
  <1>7. Membership(c) = "in"
    BY <1>2 DEF Membership, Accepted
  <1>8. pc = "scan" /\ pc' = "bcast" /\ j' = 0 /\ UNCHANGED <<pfds, fd_count, i>>
    BY DEF RecvData, AtRecv, Scanning
  <1>9. ASSUME NEW d \in Clients
        PROVE  Heard(d)' = IF Membership(d) = "in" /\ d # c
                           THEN Heard(d) \o Chunk(c, read[c], hi) ELSE Heard(d)
    <2>1. Heard(d) = stream[d] /\ stream[d] \in Seq(Messages)
      BY <1>8, HeardIdle DEF RoomIInv, IInv, TypeOK, SocketsTypeOK
    <2>2. Membership(d) = "in" <=> \E g \in Fds : sock[g] = d
      BY DEF Membership, Accepted
    <2>3. (\E k \in 0..(fd_count - 1) : IsDestination(k) /\ sock[pfds[k].fd] = d)
             <=> (Membership(d) = "in" /\ d # c)
      <3>1. ASSUME NEW g \in Fds, sock[g] = d, d # c
            PROVE  \E k \in 0..(fd_count - 1) : IsDestination(k) /\ sock[pfds[k].fd] = d
        <4>1. g \in OpenFds /\ g # f
          BY <1>2, <3>1, ClientsAssumption DEF OpenFds, Open
        <4>2. PICK k \in Live : pfds[k].fd = g
          BY <4>1 DEF RoomIInv, IInv, TableInv
        <4>3. k \in 0..(fd_count - 1) /\ g # Listener
          BY <4>2 DEF Live, RoomIInv, IInv, TableInv
        <4> QED
          BY <1>1, <3>1, <4>1, <4>2, <4>3 DEF IsDestination
      <3>2. ASSUME NEW k \in 0..(fd_count - 1), IsDestination(k), sock[pfds[k].fd] = d
            PROVE  (\E g \in Fds : sock[g] = d) /\ d # c
        <4>1. pfds[k].fd # Listener /\ pfds[k].fd # f
          BY <1>1, <3>2 DEF IsDestination
        <4>2. k \in Live
          <5>1. k # 0
            BY <4>1 DEF RoomIInv, IInv, TableInv
          <5> QED
            BY <5>1 DEF Live, RoomIInv, IInv, TypeOK
        <4>3. pfds[k].fd \in Fds
          BY <4>2 DEF RoomIInv, IInv, TableInv, OpenFds
        <4> QED
          BY <1>1, <1>2, <3>2, <4>1, <4>3 DEF RoomIInv, OneToOne, Open
      <3> QED
        BY <2>2, <3>1, <3>2
    <2>4. Pending(d)' = IF Membership(d) = "in" /\ d # c THEN msg' ELSE <<>>
      BY <1>4, <1>8, <2>3 DEF Pending, IsDestination
    <2>5. stream[d] \o <<>> = stream[d]
      BY <2>1, ConcatEmptySeq
    <2>6. Heard(d)' = stream[d] \o Pending(d)'
      BY <1>4 DEF Heard
    <2> QED
      BY <1>3, <2>1, <2>4, <2>5, <2>6
  <1>10. Room!Say(c)
    BY <1>4, <1>5, <1>6, <1>7, <1>9, MapsToSay DEF RoomIInv, IInv
  <1> QED
    BY <1>10 DEF Room!Next

\* recv() <= 0 and close(): the client leaves, unannounced.
LEMMA RecvEndMaps ==
  ASSUME RoomIInv, RecvEnd
  PROVE  Room!Next
  <1>1. PICK f \in Fds : f = pfds[i].fd /\ Open(f) /\ SysClose(f)
    <2>1. i \in Live
      BY DEF RoomIInv, IInv, TypeOK, RecvEnd, AtRecv, Scanning, TableInv, Live
    <2> QED
      BY <2>1 DEF RecvEnd, RoomIInv, IInv, TableInv, OpenFds
  <1>2. PICK c \in Clients : c = sock[f]
    BY <1>1, Ends DEF RoomIInv, IInv, TypeOK
  <1>3. /\ Membership(c) = "in" /\ Membership(c)' = "left"
        /\ \A d \in Clients \ {c} : Membership(d)' = Membership(d)
    BY <1>1, <1>2, CloseMembership DEF RoomIInv, IInv, TypeOK
  <1>4. /\ pc = "scan" /\ pc' = pc /\ stream' = stream /\ read' = read
    BY <1>1 DEF RecvEnd, AtRecv, Scanning, SysClose
  <1>5. \A d \in Clients : Heard(d)' = Heard(d)
    BY <1>4 DEF Heard, Pending
  <1>6. Room!Leave(c)
    BY <1>3, <1>4, <1>5, MapsToLeave DEF RoomIInv, IInv
  <1> QED
    BY <1>6 DEF Room!Next

\* One send(): what was pending for that client is now in its stream.
LEMMA SendMaps ==
  ASSUME RoomIInv, Send
  PROVE  UNCHANGED Room!vars
  <1>1. j \in Live /\ j \in 0..(fd_count - 1) /\ j' = j + 1
    BY DEF Send, IsDestination, RoomIInv, IInv, TypeOK, TableInv, Live
  <1>2. PICK f \in Fds : f = pfds[j].fd /\ Open(f)
    BY <1>1 DEF RoomIInv, IInv, TableInv, OpenFds
  <1>3. PICK c \in Clients : c = sock[f] /\ c # NoClient
    BY <1>2, Ends DEF RoomIInv, IInv, TypeOK, Open
  <1>4. /\ stream' = [stream EXCEPT ![c] = stream[c] \o msg]
        /\ UNCHANGED <<queue, sock, sent, read>>
        /\ \A d \in Clients : peer'[d] = "off" <=> peer[d] = "off"
    BY <1>2, <1>3, SendPeers DEF Send, RoomIInv, IInv, TypeOK
  <1>5. /\ pc = "bcast" /\ IsDestination(j)
        /\ UNCHANGED <<pfds, fd_count, pc, i, msg>>
    BY DEF Send
  <1>6. \A d \in Clients : Membership(d)' = Membership(d)
    BY <1>4, DataMembership
  <1>7. \A k \in j..(fd_count - 1) : k = j \/ k \in (j + 1)..(fd_count - 1)
    BY <1>1
  <1>8. \A k \in (j + 1)..(fd_count - 1) : k \in Live /\ k # j /\ k \in j..(fd_count - 1)
    BY <1>1 DEF Live, RoomIInv, IInv, TypeOK
  <1>9. ASSUME NEW d \in Clients PROVE Heard(d)' = Heard(d)
    <2>1. stream[d] \in Seq(Messages) /\ msg \in Seq(Messages)
      BY DEF RoomIInv, IInv, TypeOK, SocketsTypeOK
    <2>2. Pending(d)' = IF \E k \in (j + 1)..(fd_count - 1) :
                               IsDestination(k) /\ sock[pfds[k].fd] = d
                        THEN msg ELSE <<>>
      BY <1>1, <1>4, <1>5 DEF Pending, IsDestination
    <2>3. CASE d = c
      <3>1. Pending(d) = msg
        BY <1>1, <1>2, <1>3, <1>5, <2>3 DEF Pending, RoomIInv, IInv, TypeOK
      <3>2. \A k \in (j + 1)..(fd_count - 1) : sock[pfds[k].fd] # d
        BY <1>1, <1>2, <1>3, <1>8, <2>3 DEF RoomIInv, IInv, TableInv, OneToOne, OpenFds, Open
      <3>3. Pending(d)' = <<>>
        BY <2>2, <3>2
      <3>4. stream'[d] = stream[d] \o msg
        BY <1>4, <2>3 DEF RoomIInv, IInv, TypeOK, SocketsTypeOK
      <3>5. (stream[d] \o msg) \o <<>> = stream[d] \o msg
        BY <2>1, ConcatProperties, ConcatEmptySeq
      <3> QED
        BY <3>1, <3>3, <3>4, <3>5 DEF Heard
    <2>4. CASE d # c
      <3>1. Pending(d)' = Pending(d)
        BY <1>2, <1>3, <1>5, <1>7, <1>8, <2>2, <2>4 DEF Pending
      <3>2. stream'[d] = stream[d]
        BY <1>4, <2>4 DEF RoomIInv, IInv, TypeOK, SocketsTypeOK
      <3> QED
        BY <3>1, <3>2 DEF Heard
    <2> QED
      BY <2>3, <2>4
  <1> QED
    BY <1>4, <1>6, <1>9, MapsToStutter

\* The steps that leave the sockets alone change nothing in the room.
LEMMA LoopMaps ==
  ASSUME RoomIInv,
         \/ Poll \/ EndOfPass \/ Skip \/ AcceptFails
         \/ SkipDestination \/ SigPipe \/ EndOfBroadcast \/ Over \/ UNCHANGED vars
  PROVE  UNCHANGED Room!vars
  <1>1. UNCHANGED netVars
    BY DEF Poll, EndOfPass, Skip, AcceptFails, SkipDestination, SigPipe,
       EndOfBroadcast, Over, vars
  <1>2. \A d \in Clients : Membership(d)' = Membership(d)
    BY <1>1 DEF netVars, Membership, Accepted
  <1>3. ASSUME NEW d \in Clients PROVE Pending(d)' = Pending(d)
    <2>1. CASE Poll \/ EndOfPass \/ Skip \/ AcceptFails
      BY <2>1 DEF Poll, EndOfPass, Skip, AcceptFails, Scanning, Pending
    <2>2. CASE SkipDestination
      <3>1. /\ pc = "bcast" /\ j < fd_count /\ ~IsDestination(j) /\ j' = j + 1
            /\ UNCHANGED <<pfds, fd_count, pc, i, msg, sock>>
        BY <2>2 DEF SkipDestination, netVars
      <3>2. \A k \in j..(fd_count - 1) : k = j \/ k \in (j + 1)..(fd_count - 1)
        BY DEF RoomIInv, IInv, TypeOK
      <3>3. \A k \in (j + 1)..(fd_count - 1) : k \in j..(fd_count - 1)
        BY DEF RoomIInv, IInv, TypeOK
      <3> QED
        BY <3>1, <3>2, <3>3 DEF Pending, IsDestination
    <2>3. CASE SigPipe
      BY <2>3 DEF SigPipe, netVars, Pending, IsDestination
    <2>4. CASE EndOfBroadcast
      <3>1. Pending(d) = <<>>
        BY <2>4, HeardIdle DEF EndOfBroadcast, RoomIInv, IInv
      <3> QED
        BY <2>4, <3>1 DEF EndOfBroadcast, Pending
    <2>5. CASE Over \/ UNCHANGED vars
      BY <2>5 DEF Over, vars, netVars, serverVars, Pending, IsDestination
    <2> QED
      BY <2>1, <2>2, <2>3, <2>4, <2>5
  <1> QED
    BY <1>1, <1>2, <1>3, MapsToStutter DEF netVars, Heard

\* The server's array, its loops and its sends implement the room in which a
\* message is broadcast to everybody at once.
THEOREM RoomImplemented == Spec => ImplementsRoom
  <1>1. RoomIInv /\ [Next]_vars => [Room!Next]_(Room!vars)
    <2> SUFFICES ASSUME RoomIInv, [Next]_vars PROVE [Room!Next]_(Room!vars)
      OBVIOUS
    <2> QED
      BY ClientMaps, AcceptMaps, RecvDataMaps, RecvEndMaps, SendMaps, LoopMaps
      DEF Next, Server
  <1> QED
    BY <1>1, InitMaps, RoomIInvInductive, PTL DEF Spec, ImplementsRoom, Room!Spec

-----------------------------------------------------------------------------
(* What the room's theorems say of the server.                              *)

\* A memory beside the server: what everybody had said when a client was accepted.
VARIABLE since

RoomFacts == INSTANCE ChatRoomProofs WITH
    Announces <- FALSE,
    status <- [c \in Clients |-> Membership(c)],
    said <- read,
    heard <- [c \in Clients |-> stream[c] \o Pending(c)]

LEMMA RoomSpecs == ImplementsRoom <=> RoomFacts!Spec
  <1>1. Room!Init <=> RoomFacts!Init
    BY DEF Room!Init, RoomFacts!Init
  <1>2. [Room!Next]_(Room!vars) <=> [RoomFacts!Next]_(RoomFacts!vars)
    BY DEF Room!Next, RoomFacts!Next, Room!vars, RoomFacts!vars,
       Room!Join, RoomFacts!Join, Room!Say, RoomFacts!Say, Room!Leave, RoomFacts!Leave,
       Room!Announce, RoomFacts!Announce, Room!Broadcast, RoomFacts!Broadcast
  <1> QED
    BY <1>1, <1>2, PTL DEF ImplementsRoom, Room!Spec, RoomFacts!Spec

\* The table, the loop and the sends deliver what the room delivers: a client the
\* server has accepted is sent every message the server received from another one
\* since then, each once and in order, and none of its own.
THEOREM NobodyMissesAMessage == Spec /\ RoomFacts!Remembers => []RoomFacts!NothingMissed
  <1>1. MaxMsgs \in Nat /\ FALSE \in BOOLEAN
    BY BoundsAssumption
  <1>2. RoomFacts!Spec /\ RoomFacts!Remembers => []RoomFacts!NothingMissed
    BY <1>1, RoomFacts!NothingMissedBeside
  <1> QED
    BY <1>2, RoomImplemented, RoomSpecs, PTL

\* The calls to send() for two connections never pass two messages in opposite
\* orders.
SameOrder ==
    \A c, d \in Clients : \A p, q \in DOMAIN stream[c], r, s \in DOMAIN stream[d] :
        (p < q /\ stream[c][p] = stream[d][s] /\ stream[c][q] = stream[d][r]) => ~(r < s)

\* Two clients are sent what both are sent in the same order.
THEOREM SentInOrder == Spec => []SameOrder
  <1>1. MaxMsgs \in Nat /\ FALSE \in BOOLEAN
    BY BoundsAssumption
  <1>2. RoomFacts!Spec => []RoomFacts!TotalOrder
    BY <1>1, RoomFacts!OneOrder
  <1>3. TypeOK /\ RoomFacts!TotalOrder => SameOrder
    <2> SUFFICES ASSUME TypeOK, RoomFacts!TotalOrder,
                        NEW c \in Clients, NEW d \in Clients,
                        NEW p \in DOMAIN stream[c], NEW q \in DOMAIN stream[c],
                        NEW r \in DOMAIN stream[d], NEW s \in DOMAIN stream[d],
                        p < q, stream[c][p] = stream[d][s], stream[c][q] = stream[d][r]
                 PROVE  ~(r < s)
      BY DEF SameOrder
    <2> DEFINE heard == [e \in Clients |-> stream[e] \o Pending(e)]
    <2>1. \A e \in Clients : \A k \in DOMAIN stream[e] :
             k \in DOMAIN heard[e] /\ heard[e][k] = stream[e][k]
      <3> SUFFICES ASSUME NEW e \in Clients, NEW k \in DOMAIN stream[e]
                   PROVE  k \in DOMAIN heard[e] /\ heard[e][k] = stream[e][k]
        OBVIOUS
      <3>1. stream[e] \in Seq(Messages) /\ Pending(e) \in Seq(Messages)
        BY HeardType DEF TypeOK, SocketsTypeOK
      <3> QED
        BY <3>1
    <2>2. \A m, n \in DOMAIN heard[c] :
             m < n => ~RoomFacts!Before(d, heard[c][n], heard[c][m])
      BY DEF RoomFacts!TotalOrder
    <2> HIDE DEF heard
    <2>3. ~RoomFacts!Before(d, stream[c][q], stream[c][p])
      BY <2>1, <2>2
    <2> QED
      BY <2>1, <2>3 DEF RoomFacts!Before, heard
  <1> QED
    BY <1>2, <1>3, RoomImplemented, RoomSpecs, TypeCorrect, PTL

-----------------------------------------------------------------------------
(* A POLLIN that is not of this poll() call.                                *)

\* The slots the pass has still to look at.
Ahead == (IF pc = "bcast" THEN i + 1 ELSE i)..(fd_count - 1)

Stale(k) == k > 0 /\ pfds[k].revents = "in" /\ ~Readable(pfds[k].fd)

\* Only what was accepted in this pass is stale: nothing is while i is 0, and
\* afterwards at most the last slot.  That the last slot is then one nothing was
\* read from needs that recv() is never called for a client before accept().
StaleInv ==
    pc \in {"scan", "bcast"} =>
        \A k \in Ahead : Stale(k) =>
            i > 0 /\ k = fd_count - 1 /\ read[sock[pfds[k].fd]] = 0

UnreadInv == \A c \in Clients : Membership(c) = "out" => read[c] = 0

PassIInv == RoomIInv /\ UnreadInv /\ StaleInv

LEMMA InitPass == Init => UnreadInv /\ StaleInv
  BY DEF Init, SocketsInit, UnreadInv, StaleInv

\* A step that reads from nobody and takes back no event can only make slots
\* less stale.
LEMMA PassGoesOn ==
  ASSUME RoomIInv, StaleInv, pc \in {"scan", "bcast"},
         UNCHANGED <<pfds, fd_count, sock>>,
         \A k \in Ahead' : k \in Ahead,
         i > 0 => i' > 0,
         \A k \in Ahead' \ {0} :
            /\ Readable(pfds[k].fd) => Readable(pfds[k].fd)'
            /\ read'[sock[pfds[k].fd]] = read[sock[pfds[k].fd]]
  PROVE  StaleInv'
  <1> SUFFICES ASSUME NEW k \in Ahead', Stale(k)'
               PROVE  i' > 0 /\ k = fd_count - 1 /\ read'[sock[pfds[k].fd]] = 0
    BY DEF StaleInv
  <1>1. k > 0 /\ pfds[k].revents = "in" /\ ~Readable(pfds[k].fd)'
    BY DEF Stale
  <1>2. k \in Ahead' \ {0}
    BY <1>1
  <1>3. Stale(k) /\ k \in Ahead
    BY <1>1, <1>2 DEF Stale
  <1>4. i > 0 /\ k = fd_count - 1 /\ read[sock[pfds[k].fd]] = 0
    BY <1>3 DEF StaleInv
  <1> QED
    BY <1>2, <1>4

LEMMA LiveFds ==
  ASSUME IInv, NEW k \in 1..(fd_count - 1)
  PROVE  pfds[k].fd \in Fds /\ Open(pfds[k].fd) /\ sock[pfds[k].fd] \in Clients
  BY Ends DEF IInv, TypeOK, TableInv, Live, OpenFds

LEMMA ClientPass ==
  ASSUME PassIInv, NEW c \in Clients, Client(c)
  PROVE  UnreadInv' /\ StaleInv'
  <1>1. /\ ClientStep(c) /\ SocketsTypeOK /\ OneToOne /\ RoomIInv
        /\ UNCHANGED <<pfds, fd_count, pc, i>>
    BY DEF Client, serverVars, PassIInv, RoomIInv, IInv, TypeOK
  <1>2. sock' = sock /\ read' = read
    BY <1>1 DEF ClientStep, ClientConnect, ClientSend, ClientRecv, ClientExit
  <1>3. UnreadInv'
    BY <1>1, <1>2, ClientMembership DEF PassIInv, UnreadInv
  <1>4. \A f \in Fds : Readable(f) => Readable(f)'
    BY <1>1, ClientSockets
  <1>5. CASE pc \in {"scan", "bcast"}
    <2>1. Ahead' = Ahead
      BY <1>1 DEF Ahead
    <2>2. \A k \in Ahead \ {0} : pfds[k].fd \in Fds
      BY <1>1, LiveFds DEF Ahead, RoomIInv, IInv, TypeOK
    <2>3. \A k \in Ahead \ {0} : Readable(pfds[k].fd) => Readable(pfds[k].fd)'
      <3> SUFFICES ASSUME NEW k \in Ahead \ {0}, Readable(pfds[k].fd)
                   PROVE  Readable(pfds[k].fd)'
        OBVIOUS
      <3>1. PICK f \in Fds : f = pfds[k].fd
        BY <2>2
      <3>2. f = pfds'[k].fd /\ Readable(f)'
        BY <1>1, <1>4, <3>1
      <3> QED
        BY <1>1, <3>1, <3>2 DEF Readable
    <2>4. StaleInv'
      BY <1>1, <1>2, <1>5, <2>1, <2>3, PassGoesOn DEF PassIInv
    <2> QED
      BY <1>3, <2>4
  <1>6. CASE pc \notin {"scan", "bcast"}
    BY <1>1, <1>3, <1>6 DEF StaleInv
  <1> QED
    BY <1>5, <1>6

\* poll() reports what is there: nothing is stale.
LEMMA PollPass ==
  ASSUME PassIInv, Poll
  PROVE  UnreadInv' /\ StaleInv'
  <1>1. UNCHANGED netVars /\ UNCHANGED <<fd_count, fd_size, i>> /\ pc' = "scan"
    BY DEF Poll
  <1>2. UnreadInv'
    BY <1>1 DEF netVars, PassIInv, UnreadInv, Membership, Accepted
  <1>3. ASSUME NEW k \in Ahead', Stale(k)' PROVE FALSE
    <2>1. k \in 1..(fd_count - 1) /\ k \in 0..(fd_size - 1)
      BY <1>1, <1>3 DEF Ahead, Stale, PassIInv, RoomIInv, IInv, TypeOK, TableInv
    <2>2. /\ pfds[k].fd \in Fds /\ Open(pfds[k].fd) /\ pfds[k].fd # Listener
          /\ pfds[k] \in [fd : Fds \union {-1}, revents : {"none", "in", "nval"}]
      BY <2>1, LiveFds DEF PassIInv, RoomIInv, IInv, TypeOK, TableInv, Live, Slot, Revents, NoFd
    <2>3. PICK f \in Fds : f = pfds[k].fd
      BY <2>2
    <2>4. EventsOf(f) = IF Readable(f) THEN "in" ELSE "none"
      BY <2>2, <2>3, FdsAssumption DEF EventsOf, NoFd
    <2>5. pfds'[k].fd = f /\ pfds'[k].revents = EventsOf(f)
      <3>1. pfds'[k] = [pfds[k] EXCEPT !.revents = EventsOf(pfds[k].fd)]
        BY <2>1 DEF Poll
      <3> QED
        BY <2>2, <2>3, <3>1
    <2>6. Readable(f) => Readable(f)'
      BY <1>1 DEF netVars, Readable, Open
    <2>7. pfds'[k].revents = "in" /\ ~Readable(f)'
      BY <1>3, <2>5 DEF Stale, Readable
    <2> QED
      BY <2>4, <2>5, <2>6, <2>7
  <1>4. StaleInv'
    BY <1>3 DEF StaleInv
  <1> QED
    BY <1>2, <1>4

\* accept() is the first thing of a pass, so nothing was stale before it, and
\* the slot it fills is the last one.
LEMMA AcceptPass ==
  ASSUME PassIInv, AcceptClient
  PROVE  UnreadInv' /\ StaleInv'
  <1>1. PICK f \in FreeFds : SysAccept(f) /\ AddToPfds(f)
    BY DEF AcceptClient
  <1>2. PICK c \in Clients : c = Head(queue)
    BY <1>1, AcceptSockets DEF PassIInv, RoomIInv, IInv, TypeOK
  <1>3. /\ Membership(c) = "out"
        /\ \A d \in Clients \ {c} : Membership(d)' = Membership(d)
    BY <1>1, <1>2, AcceptMembership DEF PassIInv, RoomIInv, IInv, TypeOK
  <1>4. read[c] = 0 /\ read' = read /\ UNCHANGED <<sent, peer>>
    BY <1>1, <1>3 DEF SysAccept, PassIInv, UnreadInv
  <1>5. UnreadInv'
    BY <1>3, <1>4 DEF PassIInv, UnreadInv
  <1>6. i = 0 /\ i' = 1 /\ pc = "scan" /\ fd_count' = fd_count + 1 /\ fd_count \in Nat
    <2>1. i \notin Live
      BY DEF AcceptClient, PassIInv, RoomIInv, IInv, TableInv
    <2> QED
      BY <1>1, <2>1 DEF AcceptClient, Scanning, AddToPfds, Live, PassIInv, RoomIInv, IInv, TypeOK
  <1>7. \A k \in 1..(fd_count - 1) : pfds'[k] = pfds[k]
    <2>1. \A k \in 1..(fd_count - 1) : k # fd_count /\ k < fd_size /\ k \in 0..(fd_size - 1)
      BY DEF PassIInv, RoomIInv, IInv, TypeOK, TableInv
    <2> QED
      BY <1>1, <2>1 DEF AddToPfds, PassIInv, RoomIInv, IInv, TypeOK
  <1>8. pfds'[fd_count].fd = f
    <2>1. IInv'
      BY RoomIInvInductive DEF PassIInv, RoomIInv, Next, Server
    <2> QED
      BY <1>1, <1>6, <2>1 DEF AddToPfds, IInv, TypeOK, TableInv, PassIInv, RoomIInv
  <1>9. ASSUME NEW k \in Ahead', Stale(k)'
        PROVE  k = fd_count' - 1 /\ read'[sock'[pfds'[k].fd]] = 0
    <2>1. k \in 1..fd_count
      BY <1>6, <1>9 DEF Ahead, AcceptClient
    <2>2. CASE k = fd_count
      <3>1. sock'[f] = c
        BY <1>1, <1>2 DEF SysAccept, FreeFds, PassIInv, RoomIInv, IInv, TypeOK, SocketsTypeOK
      <3> QED
        BY <1>4, <1>6, <1>8, <2>2, <3>1
    <2>3. CASE k # fd_count
      <3>1. k \in 1..(fd_count - 1) /\ k \in Ahead
        BY <1>6, <2>1, <2>3 DEF Ahead
      <3>2. PICK g \in Fds : g = pfds[k].fd /\ Open(g) /\ g # f
        BY <1>1, <3>1, LiveFds DEF PassIInv, RoomIInv, FreeFds
      <3>3. ~Stale(k)
        BY <1>6, <3>1 DEF PassIInv, StaleInv
      <3>4. pfds[k].revents = "in" => Readable(g)
        BY <1>9, <3>1, <3>2, <3>3 DEF Stale
      <3>5. sock'[g] = sock[g]
        BY <1>1, <3>2 DEF SysAccept
      <3>6. Readable(g) => Readable(g)'
        BY <1>4, <3>5 DEF Readable, Open
      <3>7. ~Readable(g)' /\ pfds[k].revents = "in"
        BY <1>7, <1>9, <3>1, <3>2 DEF Stale, Readable
      <3> QED
        BY <3>4, <3>6, <3>7
    <2> QED
      BY <2>2, <2>3
  <1>10. StaleInv'
    BY <1>6, <1>9 DEF StaleInv
  <1> QED
    BY <1>5, <1>10

\* recv() empties only the slot the loop is at.
LEMMA RecvDataPass ==
  ASSUME PassIInv, RecvData
  PROVE  UnreadInv' /\ StaleInv'
  <1>1. i \in 1..(fd_count - 1) /\ IInv /\ OneToOne /\ SocketsTypeOK /\ TypeOK
    <2>1. IInv /\ OneToOne /\ SocketsTypeOK /\ TypeOK
      BY DEF PassIInv, RoomIInv, IInv, TypeOK
    <2>2. i \in Nat /\ fd_count \in Nat /\ pfds[0].fd = Listener
      BY <2>1 DEF IInv, TypeOK, TableInv
    <2>3. i < fd_count /\ i # 0
      BY <2>2 DEF RecvData, AtRecv, Scanning
    <2> QED
      BY <2>1, <2>2, <2>3
  <1>2. PICK f \in Fds : f = pfds[i].fd /\ Open(f)
    BY <1>1, LiveFds
  <1>3. PICK c \in Clients : c = sock[f] /\ c # NoClient
    BY <1>2, Ends DEF PassIInv, RoomIInv, IInv, TypeOK, Open
  <1>4. PICK hi \in 1..MaxMsgs : SysRecvData(f, hi)
    BY <1>2 DEF RecvData
  <1>5. /\ read' = [read EXCEPT ![c] = hi]
        /\ UNCHANGED <<queue, sock, peer, sent, stream>>
        /\ UNCHANGED <<pfds, fd_count, i>> /\ pc = "scan" /\ pc' = "bcast"
    BY <1>3, <1>4 DEF SysRecvData, RecvData, AtRecv, Scanning
  <1>6. \A d \in Clients : Membership(d)' = Membership(d)
    BY <1>5, DataMembership
  <1>7. \A d \in Clients : d # c => read'[d] = read[d]
    BY <1>1, <1>5 DEF SocketsTypeOK
  <1>8. UnreadInv'
    <2>1. Membership(c) = "in"
      BY <1>2, <1>3 DEF Membership, Accepted
    <2> QED
      BY <1>6, <1>7, <2>1 DEF PassIInv, UnreadInv
  <1>9. ASSUME NEW k \in Ahead' \ {0}
        PROVE  /\ Readable(pfds[k].fd) => Readable(pfds[k].fd)'
               /\ read'[sock[pfds[k].fd]] = read[sock[pfds[k].fd]]
    <2>1. k \in 1..(fd_count - 1) /\ k # i
      BY <1>1, <1>5, <1>9 DEF Ahead, TypeOK
    <2>2. PICK g \in Fds : g = pfds[k].fd /\ Open(g) /\ sock[g] \in Clients /\ g # f
      BY <1>1, <1>2, <2>1, LiveFds DEF IInv, TableInv, Live
    <2>3. sock[g] # c
      BY <1>1, <1>2, <1>3, <2>2 DEF OneToOne
    <2>4. read'[sock[g]] = read[sock[g]]
      BY <1>7, <2>2, <2>3
    <2> QED
      BY <1>5, <2>2, <2>4 DEF Readable, Open
  <1>10. \A k \in Ahead' : k \in Ahead
    BY <1>1, <1>5 DEF Ahead, TypeOK
  <1>11. StaleInv'
    BY <1>5, <1>9, <1>10, PassGoesOn DEF PassIInv
  <1> QED
    BY <1>8, <1>11

\* del_pfds: the entry that could be stale goes behind the loop.
LEMMA RecvEndPass ==
  ASSUME PassIInv, RecvEnd
  PROVE  UnreadInv' /\ StaleInv'
  <1>1. i \in 1..(fd_count - 1) /\ IInv /\ OneToOne /\ SocketsTypeOK /\ TypeOK
    BY DEF PassIInv, RoomIInv, IInv, TypeOK, RecvEnd, AtRecv, Scanning, TableInv, Live
  <1>2. PICK f \in Fds : f = pfds[i].fd /\ Open(f) /\ SysClose(f)
    BY <1>1, LiveFds DEF RecvEnd
  <1>3. PICK c \in Clients : c = sock[f]
    BY <1>2, Ends DEF PassIInv, RoomIInv, IInv, TypeOK
  <1>4. /\ Membership(c)' = "left"
        /\ \A d \in Clients \ {c} : Membership(d)' = Membership(d)
    BY <1>1, <1>2, <1>3, CloseMembership
  <1>5. /\ UNCHANGED <<queue, peer, sent, read, stream>> /\ pc = "scan" /\ pc' = pc
        /\ \A g \in Fds : g # f => sock'[g] = sock[g]
        /\ pfds' = [pfds EXCEPT ![i] = pfds[fd_count - 1]]
        /\ fd_count' = fd_count - 1 /\ i' = i + 1
    BY <1>1, <1>2 DEF SysClose, RecvEnd, AtRecv, Scanning, DelPfds, SocketsTypeOK
  <1>6. UnreadInv'
    BY <1>4, <1>5 DEF PassIInv, UnreadInv
  <1>7. ASSUME NEW k \in Ahead', Stale(k)' PROVE FALSE
    <2>1. k \in 1..(fd_count - 1) /\ k > i /\ k # fd_count - 1 /\ k \in Ahead
      BY <1>1, <1>5, <1>7 DEF Ahead, TypeOK
    <2>2. pfds'[k] = pfds[k]
      BY <1>1, <1>5, <2>1 DEF TypeOK, IInv, TableInv
    <2>3. PICK g \in Fds : g = pfds[k].fd /\ g # f
      BY <1>1, <1>2, <2>1, LiveFds DEF IInv, TableInv, Live
    <2>4. Readable(g) => Readable(g)'
      BY <1>5, <2>3 DEF Readable, Open
    <2>5. pfds[k].revents = "in" /\ ~Readable(g)'
      BY <1>7, <2>2, <2>3 DEF Stale, Readable
    <2>6. Stale(k)
      BY <2>1, <2>3, <2>4, <2>5 DEF Stale
    <2> QED
      BY <1>5, <2>1, <2>6 DEF PassIInv, StaleInv
  <1>8. StaleInv'
    BY <1>7 DEF StaleInv
  <1> QED
    BY <1>6, <1>8

LEMMA SendPass ==
  ASSUME PassIInv, Send
  PROVE  UnreadInv' /\ StaleInv'
  <1>1. j \in 1..(fd_count - 1) /\ IInv /\ SocketsTypeOK /\ TypeOK
    BY DEF Send, IsDestination, PassIInv, RoomIInv, IInv, TypeOK, TableInv, Live
  <1>2. PICK c \in Clients : c = sock[pfds[j].fd]
    BY <1>1, LiveFds
  <1>3. /\ UNCHANGED <<queue, sock, sent, read>>
        /\ \A d \in Clients : peer'[d] = "off" <=> peer[d] = "off"
        /\ UNCHANGED <<pfds, fd_count, pc, i>> /\ pc = "bcast"
    BY <1>1, <1>2, SendPeers DEF Send
  <1>4. UnreadInv'
    BY <1>3, DataMembership DEF PassIInv, UnreadInv
  <1>5. \A g \in Fds : Readable(g) => Readable(g)'
    BY <1>1, <1>2, SendSockets DEF Send, TypeOK
  <1>6. ASSUME NEW k \in Ahead' \ {0}, Readable(pfds[k].fd)
        PROVE  Readable(pfds[k].fd)'
    <2>1. k \in 1..(fd_count - 1)
      BY <1>1, <1>3, <1>6 DEF Ahead, TypeOK
    <2>2. PICK g \in Fds : g = pfds[k].fd
      BY <1>1, <2>1, LiveFds
    <2>3. Readable(g)'
      BY <1>5, <1>6, <2>2
    <2> QED
      BY <1>3, <2>2, <2>3 DEF Readable
  <1>7. Ahead' = Ahead
    BY <1>3 DEF Ahead
  <1>8. StaleInv'
    BY <1>3, <1>6, <1>7, PassGoesOn DEF PassIInv
  <1> QED
    BY <1>4, <1>8

LEMMA LoopPass ==
  ASSUME PassIInv,
         \/ EndOfPass \/ Skip \/ AcceptFails
         \/ SkipDestination \/ SigPipe \/ EndOfBroadcast \/ Over \/ UNCHANGED vars
  PROVE  UnreadInv' /\ StaleInv'
  <1>1. UNCHANGED netVars /\ UNCHANGED <<pfds, fd_count>>
    BY DEF EndOfPass, Skip, AcceptFails, SkipDestination, SigPipe,
       EndOfBroadcast, Over, vars, serverVars
  <1>2. UnreadInv'
    BY <1>1 DEF netVars, PassIInv, UnreadInv, Membership, Accepted
  <1>3. CASE EndOfPass \/ SigPipe
    BY <1>2, <1>3 DEF EndOfPass, SigPipe, StaleInv
  <1>4. CASE Skip \/ AcceptFails \/ SkipDestination \/ EndOfBroadcast
    <2>1. pc \in {"scan", "bcast"} /\ i \in Nat /\ fd_count \in Nat
      BY <1>4 DEF Skip, AcceptFails, SkipDestination, EndOfBroadcast, Scanning,
         PassIInv, RoomIInv, IInv, TypeOK
    <2>2. (\A k \in Ahead' : k \in Ahead) /\ (i > 0 => i' > 0)
      BY <1>1, <1>4, <2>1 DEF Ahead, Skip, AcceptFails, SkipDestination, EndOfBroadcast, Scanning
    <2>3. \A k \in Ahead' : Readable(pfds[k].fd) => Readable(pfds[k].fd)'
      BY <1>1 DEF netVars, Readable, Open
    <2> QED
      BY <1>1, <1>2, <2>1, <2>2, <2>3, PassGoesOn DEF PassIInv, netVars
  <1>5. CASE Over \/ UNCHANGED vars
    BY <1>1, <1>2, <1>5 DEF Over, vars, netVars, serverVars, PassIInv, StaleInv,
       Ahead, Stale, Readable, Open
  <1> QED
    BY <1>3, <1>4, <1>5

\* recv() is never called on a slot whose POLLIN belongs to an earlier poll()
\* and which has nothing, except on the connection accepted in this very pass.
THEOREM StaleConfined == Spec => []StaleOnlyAtTail
  <1>1. Init => PassIInv
    BY RoomIInvInductive, InitPass DEF PassIInv
  <1>2. PassIInv /\ [Next]_vars => PassIInv'
    <2> SUFFICES ASSUME PassIInv, [Next]_vars PROVE PassIInv'
      OBVIOUS
    <2>1. RoomIInv'
      BY RoomIInvInductive DEF PassIInv
    <2>2. UnreadInv' /\ StaleInv'
      BY ClientPass, PollPass, AcceptPass, RecvDataPass, RecvEndPass, SendPass, LoopPass
      DEF Next, Server
    <2> QED
      BY <2>1, <2>2 DEF PassIInv
  <1>3. PassIInv => StaleOnlyAtTail
    BY DEF PassIInv, StaleInv, Stale, Ahead, StaleOnlyAtTail
  <1> QED
    BY <1>1, <1>2, <1>3, PTL DEF Spec
===============================================================================
