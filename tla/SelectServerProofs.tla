-------------------------- MODULE SelectServerProofs --------------------------
(***************************************************************************)
(* For any number of clients and descriptors: the descriptor sets of the   *)
(* select server are right, it never calls recv() or accept() when that    *)
(* would wait, and it implements the chat room.                            *)
(***************************************************************************)
EXTENDS SelectServer, StreamSocketsProofs, WellFoundedInduction

\* While a farewell is sent the descriptor it is about is the one the scan is
\* at, and still open: closing it afterwards disturbs nothing that is to come.
FarewellInv ==
    (pc = "bcast" /\ IsFarewell) => from = i /\ from # Listener /\ Open(from)

\* OneToOne is needed because recv() on one descriptor must not consume the data
\* that select() reported for another one.
IInv == TypeOK /\ OneToOne /\ MasterInv /\ ScanInv /\ FarewellInv

\* What StartBroadcast puts in msg, and when it is a farewell.
LEMMA Notices ==
  ASSUME NEW c \in Clients, NEW n \in Int
  PROVE  <<<<c, n>>>> \in Seq(Messages) /\ <<<<c, n>>>>[1][2] = n
  BY DEF Messages

LEMMA InitIInv == Init => IInv
  <1> SUFFICES ASSUME Init PROVE IInv
    OBVIOUS
  <1> USE ClientsAssumption, FdsAssumption, BoundsAssumption
  <1>1. SocketsTypeOK
    BY DEF Init, SocketsInit, SocketsTypeOK, PeerStates, Messages
  <1>2. TypeOK
    BY <1>1, NoMessages DEF Init, TypeOK
  <1>3. OneToOne
    BY DEF Init, SocketsInit, OneToOne, Open
  <1>4. MasterInv /\ ScanInv /\ FarewellInv
    BY DEF Init, SocketsInit, MasterInv, OpenFds, Open, ScanInv, FarewellInv
  <1> QED
    BY <1>2, <1>3, <1>4 DEF IInv

\* Nothing the clients do takes back what select() reported.
LEMMA ClientIInv ==
  ASSUME IInv, NEW c \in Clients, Client(c)
  PROVE  IInv'
  <1>1. UNCHANGED serverVars /\ ClientStep(c) /\ SocketsTypeOK /\ OneToOne
    BY DEF Client, IInv, TypeOK
  <1>2. /\ SocketsTypeOK' /\ sock' = sock /\ OneToOne'
        /\ queue # <<>> => queue' # <<>>
        /\ \A f \in Fds : Readable(f) => Readable(f)'
    BY <1>1, ClientSockets
  <1>3. TypeOK'
    BY <1>1, <1>2 DEF IInv, TypeOK, serverVars
  <1>4. MasterInv'
    BY <1>1, <1>2 DEF IInv, MasterInv, OpenFds, Open, serverVars
  <1>5. ScanInv'
    BY <1>1, <1>2 DEF IInv, TypeOK, ScanInv, IsReady, serverVars
  <1>6. FarewellInv'
    BY <1>1, <1>2 DEF IInv, FarewellInv, IsFarewell, Open, serverVars
  <1> QED
    BY <1>2, <1>3, <1>4, <1>5, <1>6 DEF IInv

\* select(), the end of the scan, and a failed accept() or a SIGPIPE.
LEMMA LoopIInv ==
  ASSUME IInv, Select \/ SelectTimeout \/ EndOfScan \/ AcceptFails \/ SigPipe
  PROVE  IInv'
  <1> USE FdsAssumption
  <1>1. UNCHANGED <<netVars, master_set, fd_max, j, from, msg>>
    BY DEF Select, SelectTimeout, EndOfScan, AcceptFails, SigPipe, vars, serverVars
  <1>2. SocketsTypeOK' /\ OneToOne' /\ MasterInv'
    BY <1>1 DEF IInv, TypeOK, SocketsTypeOK, OneToOne, MasterInv, OpenFds, Open, Accepted, netVars
  <1>3. TypeOK'
    <2> USE DEF IInv, TypeOK
    <2>1. CASE Select
      <3>1. Ready \subseteq master_set
        BY DEF Ready, Watched
      <3>2. select_set' \subseteq Fds
        BY <2>1, <3>1 DEF Select
      <3>4. pc' = "scan" /\ i' = i
        BY <2>1 DEF Select
      <3> QED
        BY <1>1, <1>2, <3>2, <3>4
    <2>2. CASE SelectTimeout \/ EndOfScan \/ SigPipe
      <3>1. select_set' \in {select_set, {}}
        BY <2>2 DEF SelectTimeout, EndOfScan, SigPipe, vars, serverVars
      <3>2. i' \in Nat
        BY <2>2 DEF SelectTimeout, EndOfScan, SigPipe, vars, serverVars
      <3>3. pc' \in {"select", "scan", "bcast", "dead"}
        BY <2>2 DEF SelectTimeout, EndOfScan, SigPipe, vars, serverVars
      <3>4. select_set' \subseteq Fds
        BY <3>1
      <3> QED
        BY <1>1, <1>2, <3>2, <3>3, <3>4
    <2>3. CASE AcceptFails
      <3>1. i' = Listener + 1 /\ UNCHANGED <<select_set, pc>>
        BY <2>3 DEF AcceptFails
      <3> QED
        BY <1>1, <1>2, <3>1
    <2> QED
      BY <2>1, <2>2, <2>3
  <1>4. ScanInv'
    <2>1. CASE Select
      BY <1>1, <2>1 DEF Select, Ready, Watched, ScanInv, IsReady, Readable, Open, netVars
    <2>2. CASE AcceptFails
      <3>1. pc = "scan" /\ i <= Listener /\ i' = Listener + 1
        BY <2>2 DEF AcceptFails, Meets
      <3>2. UNCHANGED <<select_set, pc>>
        BY <2>2 DEF AcceptFails
      <3>3. \A f \in select_set : IsReady(f)' = IsReady(f)
        BY <1>1 DEF IsReady, Readable, Open, netVars
      <3>4. \A f \in select_set : f > i' \/ f = i' => f > i
        BY <3>1 DEF IInv, TypeOK
      <3>5. \A f \in select_set : f > i => IsReady(f) /\ f \in master_set
        BY <3>1 DEF IInv, ScanInv
      <3> QED
        BY <1>1, <3>2, <3>3, <3>4, <3>5 DEF ScanInv
    <2>3. CASE SelectTimeout \/ EndOfScan \/ SigPipe
      BY <2>3 DEF SelectTimeout, EndOfScan, SigPipe, ScanInv, vars, serverVars
    <2> QED
      BY <2>1, <2>2, <2>3
  <1>5. FarewellInv'
    BY DEF FarewellInv, Select, SelectTimeout, EndOfScan, AcceptFails, Meets, SigPipe, vars, serverVars
  <1> QED
    BY <1>2, <1>3, <1>4, <1>5 DEF IInv

\* accept(): a new descriptor enters master_set, and none that select() reported
\* is affected, because those above the listener are open.
LEMMA AcceptIInv ==
  ASSUME IInv, AcceptClient
  PROVE  IInv'
  <1> USE ClientsAssumption, FdsAssumption DEF IInv, TypeOK
  <1>1. PICK newFd \in FreeFds :
           /\ SysAccept(newFd)
           /\ master_set' = master_set \union {newFd}
           /\ fd_max' = IF newFd > fd_max THEN newFd ELSE fd_max
           /\ StartBroadcast(newFd, <<<<Head(queue), Joined>>>>)
    BY DEF AcceptClient
  <1>2. /\ SocketsTypeOK' /\ OneToOne' /\ Head(queue) \in Clients
        /\ sock' = [sock EXCEPT ![newFd] = Head(queue)]
        /\ UNCHANGED <<peer, sent, read>>
    BY <1>1, AcceptSockets DEF SysAccept
  <1>3. newFd \in Fds /\ newFd # Listener /\ ~Open(newFd)
    BY DEF FreeFds
  <1>4. \A g \in Fds : g # newFd => sock'[g] = sock[g]
    BY <1>2 DEF SocketsTypeOK
  <1>5. sock'[newFd] # NoClient
    BY <1>2, <1>3 DEF SocketsTypeOK
  <1>6. i' = Listener /\ select_set' = select_set
    BY DEF AcceptClient
  <1>7. msg' \in Seq(Messages) /\ ~IsFarewell'
    BY <1>1, <1>2, Notices DEF StartBroadcast, IsFarewell, Joined, Left
  <1>8. TypeOK'
    BY <1>1, <1>2, <1>3, <1>6, <1>7 DEF StartBroadcast
  <1>9. MasterInv'
    <2>1. OpenFds' = OpenFds \union {newFd}
      BY <1>3, <1>4, <1>5 DEF OpenFds, Open
    <2>2. \A f \in master_set' : f <= fd_max'
      BY <1>1, <1>3 DEF MasterInv
    <2>3. ~Open(Listener)'
      BY <1>3, <1>4 DEF MasterInv, Open
    <2> QED
      BY <1>1, <2>1, <2>2, <2>3 DEF MasterInv
  <1>10. ScanInv'
    <2>1. \A f \in select_set : f > Listener => IsReady(f) /\ f \in master_set /\ f \in Fds
      BY DEF AcceptClient, Meets, ScanInv
    <2>2. ASSUME NEW f \in select_set, f > Listener
          PROVE  IsReady(f)' /\ f \in master_set'
      BY <1>1, <1>2, <1>3, <1>4, <2>1, <2>2 DEF IsReady, Readable, Open
    <2>3. pc' = "bcast"
      BY <1>1 DEF StartBroadcast
    <2> QED
      BY <1>6, <2>2, <2>3 DEF ScanInv
  <1>11. FarewellInv'
    BY <1>7 DEF FarewellInv
  <1> QED
    BY <1>2, <1>8, <1>9, <1>10, <1>11

\* recv() > 0.
LEMMA RecvDataIInv ==
  ASSUME IInv, RecvData
  PROVE  IInv'
  <1> USE ClientsAssumption, FdsAssumption DEF IInv, TypeOK
  <1>1. PICK f \in Fds \ {Listener}, hi \in 1..MaxMsgs :
           /\ Meets(f)
           /\ SysRecvData(f, hi)
           /\ StartBroadcast(f, Chunk(sock[f], read[sock[f]], hi))
           /\ i' = f
           /\ UNCHANGED <<master_set, select_set, fd_max>>
    BY DEF RecvData
  <1>2. /\ SocketsTypeOK' /\ OneToOne' /\ UNCHANGED <<sock, queue>>
        /\ sock[f] \in Clients /\ read[sock[f]] \in Nat /\ read[sock[f]] < hi
        /\ \A g \in Fds \ {f} : Readable(g) => Readable(g)'
    BY <1>1, RecvSockets
  <1>3. msg' \in Seq(Messages) /\ msg'[1][2] = read[sock[f]] + 1
    <2> DEFINE c == sock[f]   lo == read[sock[f]]
    <2>1. hi \in Nat /\ c \in Clients /\ lo \in Nat /\ lo < hi
      BY <1>2
    <2>2. msg' = Chunk(c, lo, hi)
      BY <1>1 DEF StartBroadcast
    <2> HIDE DEF c, lo
    <2>3. Chunk(c, lo, hi) \in Seq(Messages) /\ Chunk(c, lo, hi)[1][2] = lo + 1
      BY <2>1, ChunkType
    <2> QED
      BY <2>2, <2>3 DEF lo
  <1>4. TypeOK'
    BY <1>1, <1>2, <1>3 DEF StartBroadcast
  <1>5. MasterInv'
    BY <1>1, <1>2 DEF MasterInv, OpenFds, Open
  <1>6. ScanInv'
    BY <1>1, <1>2 DEF ScanInv, Meets, StartBroadcast, IsReady
  <1>7. FarewellInv'
    BY <1>2, <1>3 DEF FarewellInv, IsFarewell, Left
  <1> QED
    BY <1>2, <1>4, <1>5, <1>6, <1>7

\* recv() = 0 and recv() = -1: nothing is consumed but, perhaps, the error.
LEMMA RecvEndIInv ==
  ASSUME IInv, RecvZero \/ RecvError
  PROVE  IInv'
  <1> USE ClientsAssumption, FdsAssumption DEF IInv, TypeOK
  <1>1. PICK f \in Fds \ {Listener}, n \in {Left, Phantom} :
           /\ Meets(f) /\ AtEnd(f)
           /\ StartBroadcast(f, <<<<sock[f], n>>>>)
           /\ i' = f
           /\ UNCHANGED <<master_set, select_set, fd_max>>
           /\ UNCHANGED <<queue, sock, sent, read, stream, unread>>
           /\ peer' = peer \/ peer' = [peer EXCEPT ![sock[f]] = "pipe"]
    BY DEF RecvZero, RecvError, netVars
  <1>2. sock[f] \in Clients /\ Open(f)
    BY <1>1 DEF AtEnd, Open, SocketsTypeOK
  <1>3. /\ peer' \in [Clients -> PeerStates]
        /\ \A c \in Clients : peer[c] \notin {"off", "up"} => peer'[c] \notin {"off", "up"}
        /\ \A c \in Clients : peer[c] # "off" => peer'[c] # "off"
    BY <1>1 DEF SocketsTypeOK, PeerStates
  <1>4. SocketsTypeOK'
    BY <1>1, <1>3 DEF SocketsTypeOK
  <1>5. OneToOne'
    <2>1. /\ \A p \in DOMAIN queue : queue[p] \in Clients
          /\ \A g \in Fds : Open(g) => sock[g] \in Clients
      BY Ends
    <2>2. UNCHANGED <<queue, sock, read, sent>>
      BY <1>1
    <2>3. /\ \A g, h \in Fds : (Open(g) /\ sock[g] = sock[h]) => g = h
          /\ \A p, q \in DOMAIN queue : queue[p] = queue[q] => p = q
          /\ \A p \in DOMAIN queue : ~Accepted(queue[p])
          /\ \A c \in Clients : read[c] <= sent[c]
      BY DEF OneToOne
    <2>4. /\ \A g \in Fds : Open(g) => peer'[sock[g]] # "off"
          /\ \A p \in DOMAIN queue : peer'[queue[p]] # "off"
      BY <1>3, <2>1 DEF OneToOne
    <2> QED
      BY <2>2, <2>3, <2>4 DEF OneToOne, Open, Accepted
  <1>6. msg' \in Seq(Messages)
    BY <1>1, <1>2, Notices DEF StartBroadcast, Left, Phantom
  <1>7. TypeOK'
    BY <1>1, <1>4, <1>6 DEF StartBroadcast
  <1>8. MasterInv'
    BY <1>1 DEF MasterInv, OpenFds, Open
  <1>9. \A g \in Fds : Readable(g) => Readable(g)'
    <2>1. \A c \in Clients : peer[c] # "up" \/ peer'[c] = peer[c] \/ peer'[c] # "up"
      BY <1>3
    <2>2. \A g \in Fds : Open(g) => sock[g] \in Clients /\ peer[sock[g]] # "off"
      BY DEF SocketsTypeOK, Open, OneToOne
    <2>3. \A g \in Fds : (Open(g) /\ peer[sock[g]] # "up") => peer'[sock[g]] # "up"
      BY <1>3, <2>2
    <2> QED
      BY <1>1, <2>3 DEF Readable, Open
  <1>10. ScanInv'
    BY <1>1, <1>9 DEF ScanInv, Meets, StartBroadcast, IsReady
  <1>11. FarewellInv'
    BY <1>1, <1>2 DEF FarewellInv, StartBroadcast, Open
  <1> QED
    BY <1>5, <1>7, <1>8, <1>10, <1>11

\* One send() of the inner loop.
LEMMA SendIInv ==
  ASSUME IInv, Send
  PROVE  IInv'
  <1> USE ClientsAssumption, FdsAssumption DEF IInv, TypeOK
  <1>1. PICK f \in Remaining : SysSend(sock[f], msg) /\ j' = f + 1
    BY DEF Send
  <1>2. f \in Fds /\ f \in OpenFds /\ sock[f] \in Clients
    BY DEF Remaining, Watched, MasterInv, OpenFds, Open, SocketsTypeOK
  <1>3. /\ SocketsTypeOK' /\ UNCHANGED <<sock, queue>> /\ OneToOne'
        /\ \A g \in Fds : Readable(g) => Readable(g)'
    BY <1>1, <1>2, SendSockets
  <1>4. UNCHANGED <<master_set, select_set, fd_max, pc, i, from, msg>>
    BY DEF Send
  <1>5. TypeOK'
    BY <1>1, <1>2, <1>3, <1>4
  <1>6. MasterInv' /\ ScanInv'
    BY <1>3, <1>4 DEF MasterInv, OpenFds, Open, ScanInv, IsReady
  <1>7. FarewellInv'
    BY <1>3, <1>4 DEF FarewellInv, IsFarewell, Open
  <1> QED
    BY <1>3, <1>5, <1>6, <1>7

\* The end of the inner loop, with close() and FD_CLR after a farewell.
LEMMA EndOfBroadcastIInv ==
  ASSUME IInv, EndOfBroadcast
  PROVE  IInv'
  <1> USE ClientsAssumption, FdsAssumption DEF IInv, TypeOK
  <1>1. /\ pc = "bcast" /\ pc' = "scan" /\ i' = i + 1 /\ from' = Listener /\ j' = 0
        /\ msg' = <<>> /\ UNCHANGED <<select_set, fd_max>>
    BY DEF EndOfBroadcast
  <1>2. FarewellInv'
    BY <1>1 DEF FarewellInv
  <1>3. \A g \in select_set : g >= i + 1 => g > i /\ IsReady(g) /\ g \in master_set /\ g \in Fds
    BY <1>1 DEF ScanInv
  <1>4. CASE IsFarewell
    <2>1. SysClose(from) /\ master_set' = master_set \ {from} /\ from = i /\ from # Listener
      BY <1>1, <1>4 DEF EndOfBroadcast, FarewellInv
    <2>2. /\ SocketsTypeOK' /\ OneToOne' /\ queue' = queue
          /\ sock' = [sock EXCEPT ![from] = NoClient]
          /\ \A g \in Fds \ {from} : Readable(g) => Readable(g)'
      BY <2>1, CloseSockets
    <2>3. TypeOK'
      BY <1>1, <2>1, <2>2, NoMessages
    <2>4. OpenFds' = OpenFds \ {from}
      BY <2>2 DEF OpenFds, Open, SocketsTypeOK
    <2>5. MasterInv'
      BY <1>1, <2>1, <2>2, <2>4 DEF MasterInv, OpenFds, Open, SocketsTypeOK
    <2>6. ASSUME NEW g \in select_set, g >= i + 1
          PROVE  IsReady(g)' /\ g \in master_set'
      BY <1>3, <2>1, <2>2, <2>6 DEF IsReady
    <2>7. ScanInv'
      BY <1>1, <2>6 DEF ScanInv
    <2> QED
      BY <1>2, <2>2, <2>3, <2>5, <2>7
  <1>5. CASE ~IsFarewell
    <2>1. UNCHANGED <<netVars, master_set>>
      BY <1>5 DEF EndOfBroadcast
    <2>2. SocketsTypeOK' /\ OneToOne' /\ MasterInv'
      BY <1>1, <2>1 DEF SocketsTypeOK, OneToOne, MasterInv, OpenFds, Open, Accepted, netVars
    <2>3. TypeOK'
      BY <1>1, <2>1, <2>2, NoMessages
    <2>4. ASSUME NEW g \in select_set, g >= i + 1
          PROVE  IsReady(g)' /\ g \in master_set'
      BY <1>3, <2>1, <2>4 DEF IsReady, Readable, Open, netVars
    <2>5. ScanInv'
      BY <1>1, <2>4 DEF ScanInv
    <2> QED
      BY <1>2, <2>2, <2>3, <2>5
  <1> QED
    BY <1>4, <1>5

LEMMA StepIInv == IInv /\ [Next]_vars => IInv'
  <1> SUFFICES ASSUME IInv, [Next]_vars PROVE IInv'
    OBVIOUS
  <1>1. CASE Server
    BY <1>1, LoopIInv, AcceptIInv, RecvDataIInv, RecvEndIInv, SendIInv, EndOfBroadcastIInv
    DEF Server
  <1>2. ASSUME NEW c \in Clients, Client(c) PROVE IInv'
    BY <1>2, ClientIInv
  <1>3. CASE Over \/ UNCHANGED vars
    <2>1. UNCHANGED netVars /\ UNCHANGED serverVars
      BY <1>3 DEF Over, vars
    <2>2. SocketsTypeOK' /\ OneToOne'
      BY <2>1 DEF netVars, IInv, TypeOK, SocketsTypeOK, OneToOne, Open, Accepted
    <2>3. TypeOK'
      BY <2>1, <2>2 DEF serverVars, IInv, TypeOK
    <2>4. MasterInv' /\ FarewellInv'
      BY <2>1 DEF netVars, serverVars, IInv, MasterInv, FarewellInv, IsFarewell, OpenFds, Open
    <2>5. ScanInv'
      BY <2>1 DEF netVars, serverVars, IInv, ScanInv, IsReady, Readable, Open
    <2> QED
      BY <2>2, <2>3, <2>4, <2>5 DEF IInv
  <1> QED
    BY <1>1, <1>2, <1>3 DEF Next

\* The state of the server and of its sockets keeps its type.
THEOREM TypeCorrect == Spec => []TypeOK
  <1>1. IInv => TypeOK
    BY DEF IInv
  <1> QED
    BY <1>1, InitIInv, StepIInv, PTL DEF Spec

\* master_set is the listener and the open sockets, and fd_max bounds it.
THEOREM MasterCorrect == Spec => []MasterInv
  <1>1. IInv => MasterInv
    BY DEF IInv
  <1> QED
    BY <1>1, InitIInv, StepIInv, PTL DEF Spec

\* What select() reported is still true when the scan gets there: no recv() and
\* no accept() of this server ever waits.
THEOREM ScanNeverWaits == Spec => []ScanInv
  <1>1. IInv => ScanInv
    BY DEF IInv
  <1> QED
    BY <1>1, InitIInv, StepIInv, PTL DEF Spec

-----------------------------------------------------------------------------
(* Leaving out the phantoms.  Spoken is a recursive function; what it returns *)
(* is found by induction, stated for a set of numbers.                      *)

LEMMA SetInduction ==
  ASSUME NEW S, S \subseteq Nat, 0 \in S, \A n \in S : n + 1 \in S
  PROVE  S = Nat
  <1> DEFINE R == {ss \in Nat \X Nat : ss[1] < ss[2]}
             T == Nat \ S
  <1>1. SUFFICES ASSUME T # {} PROVE FALSE
    OBVIOUS
  <1>2. IsWellFoundedOn(R, Nat)
    BY NatLessThanWellFounded DEF OpToRel
  <1>3. T \subseteq Nat
    OBVIOUS
  <1> HIDE DEF R, T
  <1>4. PICK x \in T : \A y \in T : ~(<<y, x>> \in R)
    BY <1>1, <1>2, <1>3, WFMin
  <1>5. x - 1 \in Nat /\ x - 1 \notin S
    BY DEF T
  <1>6. <<x - 1, x>> \in R
    BY <1>5 DEF R, T
  <1> QED
    BY <1>4, <1>5, <1>6 DEF T

LEMMA AppendAfter ==
  \A b, e \in Seq(Messages) : \A x \in Messages : Append(b \o e, x) = b \o Append(e, x)
  <1> SUFFICES ASSUME NEW b \in Seq(Messages), NEW e \in Seq(Messages), NEW x \in Messages
               PROVE  Append(b \o e, x) = b \o Append(e, x)
    OBVIOUS
  <1>1. <<x>> \in Seq(Messages)
    OBVIOUS
  <1>2. (b \o e) \o <<x>> = b \o (e \o <<x>>)
    BY <1>1, ConcatAssociative
  <1> QED
    BY <1>2, ConcatProperties, AppendIsConcat

\* One step of the recursion, and what it is to be its function up to n.
Keep(h, m) == IF m[2] = Phantom THEN h ELSE Append(h, m)

RunOf(F, s, n) == F[0] = <<>> /\ \A k \in 1..n : F[k] = Keep(F[k - 1], s[k])

LEMMA RunExists ==
  ASSUME NEW s \in Seq(Messages)
  PROVE  \E F \in [0..Len(s) -> Seq(Messages)] : RunOf(F, s, Len(s))
  <1> DEFINE S == {n \in Nat : n <= Len(s) =>
                      \E F \in [0..n -> Seq(Messages)] : RunOf(F, s, n)}
  <1>1. 0 \in S
    <2> DEFINE F == [k \in 0..0 |-> <<>>]
    <2>1. F \in [0..0 -> Seq(Messages)] /\ RunOf(F, s, 0)
      BY NoMessages DEF RunOf
    <2> QED
      BY <2>1
  <1>2. ASSUME NEW n \in S PROVE n + 1 \in S
    <2> SUFFICES ASSUME n + 1 <= Len(s)
                 PROVE  \E G \in [0..(n + 1) -> Seq(Messages)] : RunOf(G, s, n + 1)
      OBVIOUS
    <2>1. PICK F \in [0..n -> Seq(Messages)] : RunOf(F, s, n)
      BY <1>2
    <2> HIDE DEF S
    <2>2. n \in Nat /\ n + 1 \in 1..Len(s) /\ s[n + 1] \in Messages
      BY <1>2 DEF S
    <2> DEFINE G == [k \in 0..(n + 1) |-> IF k = n + 1 THEN Keep(F[n], s[n + 1]) ELSE F[k]]
    <2>3. Keep(F[n], s[n + 1]) \in Seq(Messages)
      BY <2>1, <2>2, AppendProperties DEF Keep
    <2>4. \A k \in 0..(n + 1) : k = n + 1 \/ k \in 0..n
      BY <2>2
    <2>5. G \in [0..(n + 1) -> Seq(Messages)]
      BY <2>1, <2>3, <2>4
    <2>6. /\ \A k \in 0..n : G[k] = F[k]
          /\ G[n + 1] = Keep(F[n], s[n + 1])
      BY <2>2
    <2> HIDE DEF G
    <2>7. \A k \in 1..(n + 1) : k - 1 \in 0..n /\ (k = n + 1 \/ k \in 1..n)
      BY <2>2
    <2>8. ASSUME NEW k \in 1..(n + 1) PROVE G[k] = Keep(G[k - 1], s[k])
      <3>1. G[k - 1] = F[k - 1]
        BY <2>6, <2>7
      <3>2. CASE k = n + 1
        <4>1. k - 1 = n
          BY <2>2, <3>2
        <4> QED
          BY <2>6, <3>1, <3>2, <4>1
      <3>3. CASE k \in 1..n
        <4>1. k \in 0..n
          BY <3>3
        <4> QED
          BY <2>1, <2>6, <3>1, <3>3, <4>1 DEF RunOf
      <3> QED
        BY <2>7, <3>2, <3>3
    <2>9. G[0] = <<>>
      BY <2>1, <2>2, <2>6 DEF RunOf
    <2> QED
      BY <2>5, <2>8, <2>9 DEF RunOf
  <1> HIDE DEF S
  <1>3. S = Nat
    BY <1>1, <1>2, SetInduction DEF S
  <1>4. Len(s) \in S
    BY <1>3
  <1> QED
    BY <1>4 DEF S

\* The function depends on nothing but the elements it has seen.
LEMMA SameRun ==
  ASSUME NEW F, NEW G, NEW s, NEW u, NEW n \in Nat,
         RunOf(F, s, n), RunOf(G, u, n),
         \A k \in 1..n : u[k] = s[k]
  PROVE  F[n] = G[n]
  <1> DEFINE S == {k \in Nat : k <= n => F[k] = G[k]}
  <1>1. 0 \in S
    BY DEF RunOf
  <1>2. ASSUME NEW k \in S PROVE k + 1 \in S
    <2> SUFFICES ASSUME k + 1 <= n PROVE F[k + 1] = G[k + 1]
      OBVIOUS
    <2>1. k + 1 \in 1..n /\ (k + 1) - 1 = k /\ F[k] = G[k]
      BY <1>2
    <2> HIDE DEF S
    <2>2. F[k + 1] = Keep(F[k], s[k + 1]) /\ G[k + 1] = Keep(G[k], u[k + 1])
      BY <2>1 DEF RunOf
    <2> QED
      BY <2>1, <2>2
  <1> HIDE DEF S
  <1>3. n \in S
    BY <1>1, <1>2, SetInduction DEF S
  <1> QED
    BY <1>3 DEF S

LEMMA SpokenRun ==
  ASSUME NEW s \in Seq(Messages)
  PROVE  \E F : /\ RunOf(F, s, Len(s))
                /\ Spoken(s) = F[Len(s)] /\ F[Len(s)] \in Seq(Messages)
  <1> DEFINE n == Len(s)
             P(F) == F = [k \in 0..n |-> IF k = 0 THEN <<>>
                                         ELSE IF s[k][2] = Phantom THEN F[k - 1]
                                         ELSE Append(F[k - 1], s[k])]
  <1>1. PICK G \in [0..n -> Seq(Messages)] : RunOf(G, s, n)
    BY RunExists
  <1>2. n \in Nat /\ 0 \in 0..n /\ n \in 0..n /\ \A k \in 1..n : k \in 0..n /\ k # 0
    OBVIOUS
  <1>3. P(G)
    <2>1. \A k \in 0..n : k = 0 \/ k \in 1..n
      BY <1>2
    <2> HIDE DEF n
    <2>2. \A k \in 0..n : G[k] = IF k = 0 THEN <<>>
                                 ELSE IF s[k][2] = Phantom THEN G[k - 1]
                                 ELSE Append(G[k - 1], s[k])
      BY <1>1, <2>1 DEF RunOf, Keep
    <2> QED
      BY <1>1, <2>2
  <1> DEFINE F == CHOOSE f : P(f)
  <1>4. P(F)
    BY <1>3
  <1>5. Spoken(s) = F[n]
    BY DEF Spoken
  <1>6. RunOf(F, s, n)
    <2> HIDE DEF F, n
    <2> QED
      BY <1>2, <1>4 DEF RunOf, Keep
  <1> HIDE DEF F
  <1>7. F[n] = G[n] /\ G[n] \in Seq(Messages)
    BY <1>1, <1>2, <1>6, SameRun
  <1> QED
    BY <1>5, <1>6, <1>7

\* What is kept of a text is kept of every text that begins with it, and what
\* follows it is kept whole when somebody said it.
LEMMA SpokenConcat ==
  ASSUME NEW s \in Seq(Messages), NEW t \in Seq(Messages),
         \A k \in 1..Len(t) : t[k][2] # Phantom
  PROVE  Spoken(s \o t) = Spoken(s) \o t
  <1> DEFINE n == Len(s)   m == Len(t)   u == s \o t   h == Spoken(s)
  <1>1. /\ n \in Nat /\ m \in Nat /\ u \in Seq(Messages) /\ Len(u) = n + m
        /\ \A k \in 1..n : u[k] = s[k]
        /\ \A k \in 1..m : u[n + k] = t[k]
    BY ConcatProperties
  <1>2. PICK F : RunOf(F, s, n) /\ h = F[n] /\ h \in Seq(Messages)
    BY SpokenRun
  <1>4. \A k \in 1..m : t[k] \in Messages /\ t[k][2] # Phantom
    OBVIOUS
  <1>5. /\ \A k \in 0..m : SubSeq(t, 1, k) \in Seq(Messages)
        /\ \A k \in 1..m : SubSeq(t, 1, k) = Append(SubSeq(t, 1, k - 1), t[k])
        /\ SubSeq(t, 1, 0) = <<>> /\ SubSeq(t, 1, m) = t
    BY SubSeqRecursiveSecond, AppendIsConcat
  <1> HIDE DEF n, m, u, h
  <1>3. PICK G : RunOf(G, u, n + m) /\ Spoken(u) = G[n + m]
    <2>1. \E G : /\ RunOf(G, u, Len(u))
                  /\ Spoken(u) = G[Len(u)] /\ G[Len(u)] \in Seq(Messages)
      BY <1>1, SpokenRun
    <2> QED
      BY <1>1, <2>1
  <1>6. G[n] = h
    <2>1. \A k \in 1..n : k \in 1..(n + m)
      BY <1>1
    <2>2. RunOf(G, u, n)
      BY <1>3, <2>1 DEF RunOf
    <2> QED
      BY <1>1, <1>2, <2>2, SameRun
  <1> DEFINE P(k) == G[n + k] = h \o SubSeq(t, 1, k)
             S == {k \in Nat : k <= m => P(k)}
  <1>7. P(0)
    BY <1>1, <1>2, <1>5, <1>6, ConcatEmptySeq
  <1>8. ASSUME NEW k \in Nat, k + 1 <= m, P(k) PROVE P(k + 1)
    <2>1. /\ k + 1 \in 1..m /\ n + (k + 1) \in 1..(n + m) /\ k \in 0..m
          /\ (n + (k + 1)) - 1 = n + k /\ (k + 1) - 1 = k
      BY <1>1, <1>8
    <2>2. G[n + (k + 1)] = Keep(G[n + k], t[k + 1])
      BY <1>1, <1>3, <2>1 DEF RunOf
    <2> DEFINE x == t[k + 1]   v == SubSeq(t, 1, k)
    <2>3. x \in Messages /\ v \in Seq(Messages) /\ SubSeq(t, 1, k + 1) = Append(v, x)
      BY <1>4, <1>5, <2>1
    <2>4. G[n + (k + 1)] = Append(h \o v, x)
      BY <1>4, <1>8, <2>1, <2>2 DEF Keep
    <2> HIDE DEF x, v
    <2>5. Append(h \o v, x) = h \o Append(v, x)
      <3>1. h \in Seq(Messages) /\ v \in Seq(Messages) /\ x \in Messages
        BY <1>2, <2>3
      <3> QED
        BY <3>1, AppendAfter, Zenon
    <2> QED
      BY <2>3, <2>4, <2>5
  <1> HIDE DEF P
  <1>9. 0 \in S
    BY <1>7
  <1>10. ASSUME NEW k \in S PROVE k + 1 \in S
    BY <1>1, <1>8, <1>10
  <1> HIDE DEF S
  <1>11. m \in S
    BY <1>1, <1>9, <1>10, SetInduction DEF S
  <1>12. P(m)
    BY <1>1, <1>11 DEF S
  <1> QED
    BY <1>3, <1>5, <1>12 DEF P, u, h

\* A phantom at the end is not kept.
LEMMA SpokenPhantom ==
  ASSUME NEW s \in Seq(Messages), NEW x \in Messages, x[2] = Phantom
  PROVE  Spoken(s \o <<x>>) = Spoken(s)
  <1> DEFINE n == Len(s)   u == s \o <<x>>
  <1>1. /\ n \in Nat /\ u \in Seq(Messages) /\ Len(u) = n + 1
        /\ \A k \in 1..n : u[k] = s[k]
        /\ u[n + 1] = x
    OBVIOUS
  <1>2. PICK F : RunOf(F, s, n) /\ Spoken(s) = F[n]
    BY SpokenRun
  <1>3. PICK G : RunOf(G, u, n + 1) /\ Spoken(u) = G[n + 1]
    BY <1>1, SpokenRun
  <1> HIDE DEF n, u
  <1>4. \A k \in 1..n : k \in 1..(n + 1)
    BY <1>1
  <1>5. G[n] = F[n]
    <2>1. RunOf(G, u, n)
      BY <1>3, <1>4 DEF RunOf
    <2> QED
      BY <1>1, <1>2, <2>1, SameRun
  <1>6. n + 1 \in 1..(n + 1) /\ (n + 1) - 1 = n
    BY <1>1, SMTT(60)
  <1>7. G[n + 1] = G[n]
    BY <1>1, <1>3, <1>6 DEF RunOf, Keep
  <1> QED
    BY <1>2, <1>3, <1>5, <1>7 DEF u

\* Nothing is kept of nothing, and what is kept is a text.
LEMMA SpokenType ==
  /\ Spoken(<<>>) = <<>>
  /\ \A s \in Seq(Messages) : Spoken(s) \in Seq(Messages)
  <1>1. PICK F : RunOf(F, <<>>, Len(<<>>)) /\ Spoken(<<>>) = F[Len(<<>>)]
    BY NoMessages, SpokenRun
  <1>2. Len(<<>>) = 0
    OBVIOUS
  <1>3. Spoken(<<>>) = <<>>
    BY <1>1, <1>2 DEF RunOf
  <1>4. \A s \in Seq(Messages) : Spoken(s) \in Seq(Messages)
    BY SpokenRun
  <1> QED
    BY <1>3, <1>4

-----------------------------------------------------------------------------
(* The server implements the room.                                          *)

\* What the mapping says of a client.
Status(c) == IF Leaving(c) THEN "left" ELSE Membership(c)
Heard(c) == Spoken(stream[c] \o Pending(c))

\* Outside a broadcast nothing is pending and nobody is about to leave.
LEMMA RoomIdle ==
  ASSUME TypeOK, NEW c \in Clients, pc \in {"select", "scan"}
  PROVE  /\ Pending(c) = <<>> /\ Heard(c) = Spoken(stream[c])
         /\ Status(c) = Membership(c)
  <1>1. stream[c] \in Seq(Messages)
    BY DEF TypeOK, SocketsTypeOK
  <1> QED
    BY <1>1, ConcatEmptySeq DEF Pending, Heard, Status, Leaving

(* Each step of the room, in terms of what the mapping reads.               *)

LEMMA MapsToStutter ==
  ASSUME \A d \in Clients : Status(d)' = Status(d) /\ Heard(d)' = Heard(d),
         read' = read
  PROVE  UNCHANGED Room!vars
  BY DEF Room!vars, Status, Heard

LEMMA MapsToJoin ==
  ASSUME NEW c \in Clients,
         Status(c) = "out", Status(c)' = "in",
         \A d \in Clients \ {c} : Status(d)' = Status(d),
         \A d \in Clients :
            Heard(d)' = IF Status(d) = "in" /\ d # c
                        THEN Heard(d) \o <<<<c, Joined>>>> ELSE Heard(d),
         read' = read
  PROVE  Room!Join(c)
  <1>1. Room!Broadcast(c, <<<<c, Joined>>>>)
    BY DEF Room!Broadcast, Heard, Status
  <1>2. Room!Announce(c, Room!Joined)
    BY <1>1 DEF Room!Announce, Room!Joined, Joined
  <1> QED
    BY <1>2 DEF Room!Join, Status

LEMMA MapsToLeave ==
  ASSUME NEW c \in Clients,
         Status(c) = "in", Status(c)' = "left",
         \A d \in Clients \ {c} : Status(d)' = Status(d),
         \A d \in Clients :
            Heard(d)' = IF Status(d) = "in" /\ d # c
                        THEN Heard(d) \o <<<<c, Left>>>> ELSE Heard(d),
         read' = read
  PROVE  Room!Leave(c)
  <1>1. Room!Broadcast(c, <<<<c, Left>>>>)
    BY DEF Room!Broadcast, Heard, Status
  <1>2. Room!Announce(c, Room!Left)
    BY <1>1 DEF Room!Announce, Room!Left, Left
  <1> QED
    BY <1>2 DEF Room!Leave, Status

LEMMA MapsToSay ==
  ASSUME NEW c \in Clients, NEW hi \in (read[c] + 1)..MaxMsgs,
         Status(c) = "in",
         \A d \in Clients : Status(d)' = Status(d),
         read' = [read EXCEPT ![c] = hi],
         \A d \in Clients :
            Heard(d)' = IF Status(d) = "in" /\ d # c
                        THEN Heard(d) \o Chunk(c, read[c], hi) ELSE Heard(d)
  PROVE  Room!Say(c)
  <1>1. Room!Broadcast(c, Chunk(c, read[c], hi))
    BY DEF Room!Broadcast, Heard, Status
  <1> QED
    BY <1>1 DEF Room!Say, Chunk, Status

\* StartBroadcast: everybody with a connection, but the one at f, will be sent
\* the text, because master_set and fd_max cover all of them.
LEMMA BroadcastMaps ==
  ASSUME IInv, IInv', pc = "scan", stream' = stream,
         NEW f \in Fds, NEW text \in Seq(Messages), StartBroadcast(f, text),
         NEW c \in Clients, sock'[f] = c, NEW d \in Clients
  PROVE  Heard(d)' = IF (\E g \in Fds : sock'[g] = d) /\ d # c
                     THEN Spoken(stream[d] \o text) ELSE Heard(d)
  <1>1. pc' = "bcast" /\ j' = 0 /\ from' = f /\ msg' = text
    BY DEF StartBroadcast
  <1>2. Heard(d) = Spoken(stream[d]) /\ stream[d] \in Seq(Messages)
    BY RoomIdle DEF IInv, TypeOK, SocketsTypeOK
  <1>3. \A g \in Remaining' : g \in Fds /\ g # f
    BY <1>1 DEF Remaining, Watched, IInv, TypeOK
  <1>4. ASSUME NEW g \in Fds, sock'[g] = d, d # c PROVE g \in Remaining'
    <2>1. g # f /\ sock'[g] # NoClient
      BY <1>4, ClientsAssumption
    <2>2. g \in master_set' /\ g # Listener /\ g <= fd_max' /\ g >= 0
      BY <2>1, FdsAssumption DEF IInv, MasterInv, OpenFds, Open
    <2> QED
      BY <1>1, <2>1, <2>2 DEF Remaining, Watched
  <1>5. ASSUME NEW g \in Remaining', sock'[g] = d PROVE d # c
    BY <1>3, <1>5, ClientsAssumption DEF IInv, OneToOne, Open
  <1>6. (\E g \in Remaining' : sock'[g] = d) <=> (\E g \in Fds : sock'[g] = d) /\ d # c
    BY <1>3, <1>4, <1>5
  <1>7. Pending(d)' = IF (\E g \in Fds : sock'[g] = d) /\ d # c THEN text ELSE <<>>
    BY <1>1, <1>6 DEF Pending
  <1>8. stream[d] \o <<>> = stream[d]
    BY <1>2, ConcatEmptySeq
  <1>9. Heard(d)' = Spoken(stream[d] \o Pending(d)')
    BY DEF Heard
  <1> QED
    BY <1>2, <1>7, <1>8, <1>9

(* Each step of the server is a step of the room, or a stutter.             *)

LEMMA InitMaps == Init => Room!Init
  <1> SUFFICES ASSUME Init PROVE Room!Init
    OBVIOUS
  <1>1. \A c \in Clients : Membership(c) = "out" /\ ~Leaving(c)
    BY ClientsAssumption DEF Init, SocketsInit, Membership, Accepted, Leaving
  <1>2. \A c \in Clients : Spoken(stream[c] \o Pending(c)) = <<>>
    <2>1. \A c \in Clients : stream[c] \o Pending(c) = <<>>
      BY DEF Init, SocketsInit, Pending
    <2> QED
      BY <2>1, SpokenType
  <1>3. read = [c \in Clients |-> 0]
    BY DEF Init, SocketsInit
  <1> QED
    BY <1>1, <1>2, <1>3 DEF Room!Init

LEMMA ClientMaps ==
  ASSUME IInv, NEW c \in Clients, Client(c)
  PROVE  UNCHANGED Room!vars
  <1>1. \A d \in Clients : Membership(d)' = Membership(d)
    BY ClientMembership DEF Client, IInv, TypeOK
  <1>2. UNCHANGED serverVars /\ UNCHANGED <<sock, read, stream>>
    BY DEF Client, ClientStep, ClientConnect, ClientSend, ClientRecv, ClientExit
  <1>3. \A d \in Clients : Heard(d)' = Heard(d)
    BY <1>2 DEF Heard, Pending, Remaining, Watched, serverVars
  <1>4. \A d \in Clients : Status(d)' = Status(d)
    BY <1>1, <1>2 DEF Status, Leaving, IsFarewell, serverVars
  <1> QED
    BY <1>2, <1>3, <1>4, MapsToStutter

\* accept(): the client joins, and the others will be told.
LEMMA AcceptMaps ==
  ASSUME IInv, IInv', AcceptClient
  PROVE  Room!Next
  <1>1. PICK f \in FreeFds : SysAccept(f) /\ StartBroadcast(f, <<<<Head(queue), Joined>>>>)
    BY DEF AcceptClient
  <1>2. PICK c \in Clients : c = Head(queue)
    BY <1>1, AcceptSockets DEF IInv, TypeOK
  <1>3. /\ Membership(c) = "out" /\ Membership(c)' = "in"
        /\ \A d \in Clients \ {c} : Membership(d)' = Membership(d)
    BY <1>1, <1>2, AcceptMembership DEF IInv, TypeOK
  <1>4. /\ pc = "scan" /\ stream' = stream /\ read' = read /\ f \in Fds
        /\ sock'[f] = c
    BY <1>1, <1>2 DEF AcceptClient, Meets, SysAccept, FreeFds, IInv, TypeOK, SocketsTypeOK
  <1> DEFINE text == <<<<c, Joined>>>>
  <1>5. text \in Seq(Messages) /\ text[1][2] = Joined /\ Len(text) = 1
    BY Notices DEF Joined
  <1>6. \A d \in Clients : Status(d) = Membership(d)
    BY <1>4, RoomIdle DEF IInv
  <1>7. msg' = text
    BY <1>1, <1>2 DEF StartBroadcast
  <1>8. \A d \in Clients : Status(d)' = Membership(d)'
    BY <1>7 DEF Status, Leaving, IsFarewell, Joined, Left
  <1>9. ASSUME NEW d \in Clients
        PROVE  Heard(d)' = IF Status(d) = "in" /\ d # c THEN Heard(d) \o text ELSE Heard(d)
    <2>1. Heard(d)' = IF (\E g \in Fds : sock'[g] = d) /\ d # c
                      THEN Spoken(stream[d] \o text) ELSE Heard(d)
      BY <1>1, <1>2, <1>4, <1>5, BroadcastMaps
    <2>2. Membership(d)' = "in" <=> \E g \in Fds : sock'[g] = d
      BY DEF Membership, Accepted
    <2>3. Heard(d) = Spoken(stream[d]) /\ stream[d] \in Seq(Messages)
      BY <1>4, RoomIdle DEF IInv, TypeOK, SocketsTypeOK
    <2>4. \A k \in 1..Len(text) : text[k][2] # Phantom
      BY <1>5 DEF Joined, Phantom
    <2> HIDE DEF text
    <2>5. Spoken(stream[d] \o text) = Heard(d) \o text
      BY <1>5, <2>3, <2>4, SpokenConcat
    <2> QED
      BY <1>3, <1>6, <2>1, <2>2, <2>5
  <1>10. Room!Join(c)
    BY <1>3, <1>4, <1>6, <1>8, <1>9, MapsToJoin
  <1> QED
    BY <1>10 DEF Room!Next

\* recv() > 0: the others will be sent what the client said.
LEMMA RecvDataMaps ==
  ASSUME IInv, IInv', RecvData
  PROVE  Room!Next
  <1>1. PICK f \in Fds \ {Listener}, hi \in 1..MaxMsgs :
           /\ Meets(f) /\ SysRecvData(f, hi)
           /\ StartBroadcast(f, Chunk(sock[f], read[sock[f]], hi))
    BY DEF RecvData
  <1>2. PICK c \in Clients : c = sock[f] /\ c # NoClient
    BY <1>1, Ends DEF SysRecvData, IInv, TypeOK, Open
  <1>3. /\ read' = [read EXCEPT ![c] = hi] /\ hi \in (read[c] + 1)..sent[c]
        /\ UNCHANGED <<queue, sock, peer, sent, stream>> /\ pc = "scan"
    BY <1>1, <1>2 DEF SysRecvData, Meets
  <1>4. read[c] \in Nat /\ hi \in Nat /\ read[c] < hi /\ hi \in (read[c] + 1)..MaxMsgs
    BY <1>3, BoundsAssumption DEF IInv, TypeOK, SocketsTypeOK
  <1> DEFINE lo == read[c]   text == Chunk(c, lo, hi)
  <1>5. /\ text \in Seq(Messages) /\ text[1][2] = lo + 1
        /\ \A k \in 1..Len(text) : text[k][2] # Phantom
    <2> HIDE DEF lo
    <2>1. lo \in Nat /\ hi \in Nat /\ lo < hi
      BY <1>4 DEF lo
    <2>2. text \in Seq(Messages) /\ text[1][2] = lo + 1
      BY <2>1, ChunkType
    <2>3. Len(text) = hi - lo /\ \A k \in 1..(hi - lo) : text[k] = <<c, lo + k>>
      BY <2>1 DEF Chunk
    <2> HIDE DEF text
    <2>4. \A k \in 1..(hi - lo) : lo + k # 0
      BY <2>1
    <2> QED
      BY <2>2, <2>3, <2>4 DEF Phantom
  <1>6. msg' = text
    BY <1>1, <1>2 DEF StartBroadcast
  <1>7. ~IsFarewell'
    <2>1. msg'[1][2] # -2
      BY <1>4, <1>5, <1>6
    <2> QED
      BY <2>1 DEF IsFarewell, Left
  <1>8. \A d \in Clients : Status(d) = Membership(d)
    BY <1>3, RoomIdle DEF IInv
  <1>9. \A d \in Clients : Status(d)' = Status(d)
    <2>1. \A d \in Clients : Membership(d)' = Membership(d)
      BY <1>3, DataMembership
    <2> QED
      BY <1>7, <1>8, <2>1 DEF Status, Leaving
  <1>10. Status(c) = "in"
    BY <1>2, <1>8 DEF Membership, Accepted
  <1>11. ASSUME NEW d \in Clients
         PROVE  Heard(d)' = IF Status(d) = "in" /\ d # c THEN Heard(d) \o text ELSE Heard(d)
    <2> HIDE DEF text
    <2>1. StartBroadcast(f, text) /\ sock'[f] = c /\ f \in Fds
      BY <1>1, <1>2, <1>3 DEF text
    <2>2. Heard(d)' = IF (\E g \in Fds : sock'[g] = d) /\ d # c
                      THEN Spoken(stream[d] \o text) ELSE Heard(d)
      BY <1>3, <1>5, <2>1, BroadcastMaps
    <2>3. Status(d) = "in" <=> \E g \in Fds : sock'[g] = d
      BY <1>3, <1>8 DEF Membership, Accepted
    <2>4. Heard(d) = Spoken(stream[d]) /\ stream[d] \in Seq(Messages)
      BY <1>3, RoomIdle DEF IInv, TypeOK, SocketsTypeOK
    <2>5. Spoken(stream[d] \o text) = Heard(d) \o text
      BY <1>5, <2>4, SpokenConcat
    <2> QED
      BY <2>2, <2>3, <2>5
  <1>12. Room!Say(c)
    BY <1>3, <1>4, <1>9, <1>10, <1>11, MapsToSay
  <1> QED
    BY <1>12 DEF Room!Next

\* recv() = 0: from here on the client has left, although its socket is closed
\* only after the farewell.
LEMMA RecvZeroMaps ==
  ASSUME IInv, IInv', RecvZero
  PROVE  Room!Next
  <1>1. PICK f \in Fds \ {Listener} :
           /\ Meets(f) /\ AtEnd(f)
           /\ StartBroadcast(f, <<<<sock[f], Left>>>>)
           /\ UNCHANGED netVars
    BY DEF RecvZero
  <1>2. PICK c \in Clients : c = sock[f] /\ c # NoClient
    BY <1>1, Ends DEF AtEnd, IInv, TypeOK, Open
  <1>3. pc = "scan" /\ UNCHANGED <<queue, sock, peer, read, stream>>
    BY <1>1 DEF Meets, netVars
  <1> DEFINE text == <<<<c, Left>>>>
  <1>4. text \in Seq(Messages) /\ text[1][2] = Left /\ Len(text) = 1
    BY Notices DEF Left
  <1>5. pc' = "bcast" /\ from' = f /\ msg' = text
    BY <1>1, <1>2 DEF StartBroadcast
  <1>6. \A d \in Clients : Status(d) = Membership(d)
    BY <1>3, RoomIdle DEF IInv
  <1>7. \A d \in Clients : Membership(d)' = Membership(d)
    BY <1>3, DataMembership
  <1>8. \A d \in Clients : Leaving(d)' <=> d = c
    BY <1>2, <1>3, <1>5 DEF Leaving, IsFarewell
  <1>9. \A d \in Clients \ {c} : Status(d)' = Status(d)
    BY <1>6, <1>7, <1>8 DEF Status
  <1>10. Status(c) = "in" /\ Status(c)' = "left"
    BY <1>2, <1>6, <1>8 DEF Status, Membership, Accepted
  <1>11. ASSUME NEW d \in Clients
         PROVE  Heard(d)' = IF Status(d) = "in" /\ d # c THEN Heard(d) \o text ELSE Heard(d)
    <2>1. Heard(d)' = IF (\E g \in Fds : sock'[g] = d) /\ d # c
                      THEN Spoken(stream[d] \o text) ELSE Heard(d)
      BY <1>1, <1>2, <1>3, <1>4, BroadcastMaps
    <2>2. Status(d) = "in" <=> \E g \in Fds : sock'[g] = d
      BY <1>3, <1>6 DEF Membership, Accepted
    <2>3. Heard(d) = Spoken(stream[d]) /\ stream[d] \in Seq(Messages)
      BY <1>3, RoomIdle DEF IInv, TypeOK, SocketsTypeOK
    <2>4. \A k \in 1..Len(text) : text[k][2] # Phantom
      BY <1>4 DEF Left, Phantom
    <2> HIDE DEF text
    <2>5. Spoken(stream[d] \o text) = Heard(d) \o text
      BY <1>4, <2>3, <2>4, SpokenConcat
    <2> QED
      BY <2>1, <2>2, <2>5
  <1>12. Room!Leave(c)
    BY <1>3, <1>9, <1>10, <1>11, MapsToLeave
  <1> QED
    BY <1>12 DEF Room!Next

\* recv() = -1: what is broadcast then nobody said.
LEMMA RecvErrorMaps ==
  ASSUME IInv, IInv', RecvError
  PROVE  UNCHANGED Room!vars
  <1>1. PICK f \in Fds \ {Listener} :
           /\ Meets(f) /\ AtEnd(f)
           /\ peer[sock[f]] = "err"
           /\ peer' = [peer EXCEPT ![sock[f]] = "pipe"]
           /\ StartBroadcast(f, <<<<sock[f], Phantom>>>>)
           /\ UNCHANGED <<queue, sock, sent, read, stream, unread>>
    BY DEF RecvError
  <1>2. PICK c \in Clients : c = sock[f] /\ c # NoClient
    BY <1>1, Ends DEF AtEnd, IInv, TypeOK, Open
  <1>3. pc = "scan" /\ UNCHANGED <<queue, sock, read, stream>>
    BY <1>1 DEF Meets
  <1>4. \A d \in Clients : peer'[d] = "off" <=> peer[d] = "off"
    BY <1>1, <1>2 DEF IInv, TypeOK, SocketsTypeOK
  <1>5. \A d \in Clients : Membership(d)' = Membership(d)
    BY <1>3, <1>4, DataMembership
  <1> DEFINE text == <<<<c, Phantom>>>>
  <1>6. /\ <<c, Phantom>> \in Messages /\ <<c, Phantom>>[2] = Phantom
        /\ text \in Seq(Messages) /\ text[1][2] = Phantom
    BY DEF Messages, Phantom
  <1>7. msg' = text
    BY <1>1, <1>2 DEF StartBroadcast
  <1>8. \A d \in Clients : Status(d)' = Status(d)
    BY <1>3, <1>5, <1>6, <1>7, RoomIdle DEF IInv, Status, Leaving, IsFarewell, Left, Phantom
  <1>9. ASSUME NEW d \in Clients PROVE Heard(d)' = Heard(d)
    <2>1. Heard(d)' = IF (\E g \in Fds : sock'[g] = d) /\ d # c
                      THEN Spoken(stream[d] \o text) ELSE Heard(d)
      BY <1>1, <1>2, <1>3, <1>6, BroadcastMaps
    <2>2. Heard(d) = Spoken(stream[d]) /\ stream[d] \in Seq(Messages)
      BY <1>3, RoomIdle DEF IInv, TypeOK, SocketsTypeOK
    <2>3. Spoken(stream[d] \o text) = Spoken(stream[d])
      BY <1>6, <2>2, SpokenPhantom
    <2> QED
      BY <2>1, <2>2, <2>3
  <1> QED
    BY <1>3, <1>8, <1>9, MapsToStutter

\* One send(): what was pending for that client is now in its stream.
LEMMA SendMaps ==
  ASSUME IInv, Send
  PROVE  UNCHANGED Room!vars
  <1>1. PICK f \in Remaining :
           /\ \A g \in Remaining : f <= g
           /\ SysSend(sock[f], msg)
           /\ j' = f + 1
    BY DEF Send
  <1>2. /\ pc = "bcast" /\ UNCHANGED <<master_set, select_set, fd_max, pc, i, from, msg>>
        /\ Remaining \subseteq Fds /\ Fds \subseteq Nat /\ j \in Nat
    BY FdsAssumption DEF Send, Remaining, Watched, IInv, TypeOK
  <1>3. f \in Fds /\ Open(f) /\ f >= j
    BY <1>1 DEF Remaining, Watched, IInv, MasterInv, OpenFds
  <1>4. PICK c \in Clients : c = sock[f] /\ c # NoClient
    BY <1>3, Ends DEF IInv, TypeOK, Open
  <1>5. /\ stream' = [stream EXCEPT ![c] = stream[c] \o msg]
        /\ UNCHANGED <<queue, sock, sent, read>>
        /\ \A d \in Clients : peer'[d] = "off" <=> peer[d] = "off"
    BY <1>1, <1>4, SendPeers DEF IInv, TypeOK
  <1>6. \A d \in Clients : Membership(d)' = Membership(d)
    BY <1>5, DataMembership
  <1>7. \A d \in Clients : Status(d)' = Status(d)
    BY <1>2, <1>5, <1>6 DEF Status, Leaving, IsFarewell
  <1>8. Remaining' = Remaining \ {f}
    <2>1. Watched' = Watched
      BY <1>2 DEF Watched
    <2>2. \A g \in Watched : g \in Nat
      BY <1>2 DEF Watched, IInv, TypeOK
    <2>3. f \in Nat
      BY <1>2, <1>3
    <2>4. \A g \in Watched \ {Listener, from} : g >= f + 1 <=> g >= j /\ g # f
      <3> SUFFICES ASSUME NEW g \in Watched \ {Listener, from}
                   PROVE  g >= f + 1 <=> g >= j /\ g # f
        OBVIOUS
      <3>1. g >= j => f <= g
        BY <1>1 DEF Remaining
      <3> QED
        BY <1>2, <1>3, <2>2, <2>3, <3>1
    <2> QED
      BY <1>1, <1>2, <2>1, <2>4 DEF Remaining
  <1>9. ASSUME NEW d \in Clients PROVE Heard(d)' = Heard(d)
    <2>1. stream[d] \in Seq(Messages) /\ msg \in Seq(Messages)
      BY DEF IInv, TypeOK, SocketsTypeOK
    <2>2. Pending(d)' = IF \E g \in Remaining \ {f} : sock[g] = d THEN msg ELSE <<>>
      BY <1>2, <1>5, <1>8 DEF Pending
    <2>3. CASE d = c
      <3>1. Pending(d) = msg
        BY <1>1, <1>2, <1>4, <2>3 DEF Pending
      <3>2. Pending(d)' = <<>>
        BY <1>2, <1>3, <1>4, <2>2, <2>3 DEF IInv, OneToOne, Open
      <3>3. stream'[d] = stream[d] \o msg
        BY <1>5, <2>3 DEF IInv, TypeOK, SocketsTypeOK
      <3>4. (stream[d] \o msg) \o <<>> = stream[d] \o msg
        BY <2>1, ConcatProperties, ConcatEmptySeq
      <3> QED
        BY <3>1, <3>2, <3>3, <3>4 DEF Heard
    <2>4. CASE d # c
      <3>1. Pending(d)' = Pending(d)
        BY <1>2, <1>4, <2>2, <2>4 DEF Pending
      <3>2. stream'[d] = stream[d]
        BY <1>5, <2>4 DEF IInv, TypeOK, SocketsTypeOK
      <3> QED
        BY <3>1, <3>2 DEF Heard
    <2> QED
      BY <2>3, <2>4
  <1> QED
    BY <1>5, <1>7, <1>9, MapsToStutter

\* The end of a broadcast: a client whose farewell is over has left already.
LEMMA EndOfBroadcastMaps ==
  ASSUME IInv, EndOfBroadcast
  PROVE  UNCHANGED Room!vars
  <1>1. pc = "bcast" /\ Remaining = {} /\ pc' = "scan"
    BY DEF EndOfBroadcast
  <1>2. stream' = stream /\ read' = read
    BY DEF EndOfBroadcast, SysClose, netVars
  <1>3. \A d \in Clients : Pending(d) = <<>> /\ Pending(d)' = <<>>
    BY <1>1 DEF Pending
  <1>4. \A d \in Clients : Heard(d)' = Heard(d)
    BY <1>2, <1>3 DEF Heard
  <1>5. \A d \in Clients : ~Leaving(d)'
    BY <1>1 DEF Leaving
  <1>6. CASE IsFarewell
    <2>1. SysClose(from) /\ Open(from) /\ from \in Fds
      BY <1>1, <1>6 DEF EndOfBroadcast, IInv, FarewellInv, TypeOK
    <2>2. PICK c \in Clients : c = sock[from]
      BY <2>1, Ends DEF IInv, TypeOK
    <2>3. /\ Membership(c)' = "left"
          /\ \A d \in Clients \ {c} : Membership(d)' = Membership(d)
      BY <2>1, <2>2, CloseMembership DEF IInv, TypeOK
    <2>4. \A d \in Clients : Leaving(d) <=> d = c
      BY <1>1, <1>6, <2>2 DEF Leaving
    <2>5. \A d \in Clients : Status(d)' = Status(d)
      BY <1>5, <2>3, <2>4 DEF Status
    <2> QED
      BY <1>2, <1>4, <2>5, MapsToStutter
  <1>7. CASE ~IsFarewell
    <2>1. UNCHANGED netVars
      BY <1>7 DEF EndOfBroadcast
    <2>2. \A d \in Clients : Status(d)' = Status(d)
      BY <1>5, <1>7, <2>1 DEF Status, Leaving, netVars, Membership, Accepted
    <2> QED
      BY <1>2, <1>4, <2>2, MapsToStutter
  <1> QED
    BY <1>6, <1>7

\* The steps that leave the sockets alone and do not end a broadcast.
LEMMA LoopMaps ==
  ASSUME IInv,
         \/ Select \/ SelectTimeout \/ EndOfScan \/ AcceptFails \/ SigPipe
         \/ Over \/ UNCHANGED vars
  PROVE  UNCHANGED Room!vars
  <1>1. /\ UNCHANGED netVars /\ UNCHANGED <<master_set, fd_max, j, from, msg>>
        /\ pc' \in {"bcast", "dead"} <=> pc \in {"bcast", "dead"}
    BY DEF Select, SelectTimeout, EndOfScan, AcceptFails, Meets, SigPipe, Over, vars, serverVars
  <1>2. \A d \in Clients : Heard(d)' = Heard(d)
    BY <1>1 DEF Heard, Pending, Remaining, Watched, netVars
  <1>3. \A d \in Clients : Status(d)' = Status(d)
    BY <1>1 DEF Status, Leaving, IsFarewell, netVars, Membership, Accepted
  <1> QED
    BY <1>1, <1>2, <1>3, MapsToStutter DEF netVars

\* The scan, the two kinds of notices and the inner loop implement the room that
\* announces who joins and leaves.
THEOREM RoomImplemented == Spec => ImplementsRoom
  <1>1. IInv /\ IInv' /\ [Next]_vars => [Room!Next]_(Room!vars)
    <2> SUFFICES ASSUME IInv, IInv', [Next]_vars PROVE [Room!Next]_(Room!vars)
      OBVIOUS
    <2> QED
      BY ClientMaps, AcceptMaps, RecvDataMaps, RecvZeroMaps, RecvErrorMaps, SendMaps,
         EndOfBroadcastMaps, LoopMaps
      DEF Next, Server
  <1> QED
    BY <1>1, InitMaps, InitIInv, StepIInv, PTL DEF Spec, ImplementsRoom, Room!Spec

-----------------------------------------------------------------------------
(* What the room's theorems say of the server.                              *)

\* A memory beside the server: what everybody had said when a client was accepted.
VARIABLE since

RoomFacts == INSTANCE ChatRoomProofs WITH
    Announces <- TRUE,
    status <- [c \in Clients |-> IF Leaving(c) THEN "left" ELSE Membership(c)],
    said <- read,
    heard <- [c \in Clients |-> Spoken(stream[c] \o Pending(c))]

LEMMA RoomSpecs == ImplementsRoom <=> RoomFacts!Spec
  <1>1. Room!Init <=> RoomFacts!Init
    BY DEF Room!Init, RoomFacts!Init
  <1>2. [Room!Next]_(Room!vars) <=> [RoomFacts!Next]_(RoomFacts!vars)
    BY DEF Room!Next, RoomFacts!Next, Room!vars, RoomFacts!vars,
       Room!Join, RoomFacts!Join, Room!Say, RoomFacts!Say, Room!Leave, RoomFacts!Leave,
       Room!Announce, RoomFacts!Announce, Room!Broadcast, RoomFacts!Broadcast,
       Room!Joined, RoomFacts!Joined, Room!Left, RoomFacts!Left
  <1> QED
    BY <1>1, <1>2, PTL DEF ImplementsRoom, Room!Spec, RoomFacts!Spec

\* What the clients of this server are sent, phantoms apart, has one order and lies
\* between the two notices about its author, and a client the server has accepted
\* misses nothing that was received from another one since then.
THEOREM ConversationCorrect ==
    Spec /\ RoomFacts!Remembers =>
        [](Room!TotalOrder /\ RoomFacts!NothingMissed /\ Room!Framed)
  <1>1. MaxMsgs \in Nat /\ TRUE \in BOOLEAN
    BY BoundsAssumption
  <1>2. RoomFacts!Spec => []RoomFacts!TotalOrder
    BY <1>1, RoomFacts!OneOrder
  <1>3. RoomFacts!Spec /\ RoomFacts!Remembers => []RoomFacts!NothingMissed
    BY <1>1, RoomFacts!NothingMissedBeside
  <1>4. RoomFacts!Spec => []RoomFacts!Framed
    BY <1>1, RoomFacts!WithinNotices
  <1>5. /\ Room!TotalOrder <=> RoomFacts!TotalOrder
        /\ Room!Framed <=> RoomFacts!Framed
    BY DEF Room!TotalOrder, RoomFacts!TotalOrder, Room!Framed, RoomFacts!Framed,
       Room!Before, RoomFacts!Before, Room!Joined, RoomFacts!Joined, Room!Left, RoomFacts!Left
  <1> QED
    BY <1>2, <1>3, <1>4, <1>5, RoomImplemented, RoomSpecs, PTL
===============================================================================
