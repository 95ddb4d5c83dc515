----------------------------- MODULE SelectServer -----------------------------
(***************************************************************************)
(* The chat server of UnixStreamTelnetServerWithSelect.c: one thread that  *)
(* selects on a copy of master_set, announces who joins and leaves, and    *)
(* broadcasts what each client writes with a prefix naming the writer.     *)
(* The descriptor sets are sets; the loops over 0..fd_max that test        *)
(* FD_ISSET are loops over the members of a set in ascending order.        *)
(***************************************************************************)
EXTENDS StreamSockets

\* Numbers of the texts that are not what a client wrote: the two notices, and
\* the message made of a recv() that failed.
Joined == -1
Left == -2
Phantom == 0

VARIABLES
    master_set, select_set, fd_max,
    pc,          \* "select", "scan", "bcast", or "dead" (killed by SIGPIPE)
    i, j,        \* the two loop counters
    from,        \* the descriptor the inner loop skips: newFd, or i
    msg          \* the text being broadcast

serverVars == <<master_set, select_set, fd_max, pc, i, j, from, msg>>
vars == <<netVars, serverVars>>

\* Mutant: fd_max starts at zero.
InitNoMax ==
    /\ SocketsInit
    /\ master_set = {Listener}
    /\ select_set = {}
    /\ fd_max = 0
    /\ pc = "select"
    /\ i = 0 /\ j = 0
    /\ from = Listener
    /\ msg = <<>>

Init ==
    /\ SocketsInit
    /\ master_set = {Listener}
    /\ select_set = {}
    /\ fd_max = Listener
    /\ pc = "select"
    /\ i = 0 /\ j = 0
    /\ from = Listener
    /\ msg = <<>>

-----------------------------------------------------------------------------
IsReady(f) == IF f = Listener THEN queue # <<>> ELSE Readable(f)

Watched == {f \in master_set : f <= fd_max}
Ready == {f \in Watched : IsReady(f)}

\* Mutant: the scan tests master_set instead of what select() returned.
SelectKeepsAll ==
    /\ pc = "select"
    /\ Ready # {}
    /\ select_set' = Watched
    /\ pc' = "scan"
    /\ UNCHANGED <<netVars, master_set, fd_max, i, j, from, msg>>

\* select() > 0: only the ready descriptors stay in select_set.
Select ==
    /\ pc = "select"
    /\ Ready # {}
    /\ select_set' = Ready
    /\ pc' = "scan"
    /\ UNCHANGED <<netVars, master_set, fd_max, i, j, from, msg>>

\* select() = 0 when the time in tv has passed and nothing came: "continue".  Time
\* is not modelled, so this may happen whenever nothing is ready.
SelectTimeout ==
    /\ pc = "select"
    /\ Ready = {}
    /\ UNCHANGED vars

\* The scan meets f next: the lowest member of select_set from i on.
Meets(f) ==
    /\ pc = "scan"
    /\ f \in select_set
    /\ i <= f /\ f <= fd_max + 1
    /\ \A g \in select_set : g >= i => f <= g

\* End of the for loop.  select_set and i are written before they are read
\* again, so their old values are forgotten here.
EndOfScan ==
    /\ pc = "scan"
    /\ \A f \in select_set : f < i \/ f > fd_max + 1
    /\ pc' = "select"
    /\ i' = 0
    /\ select_set' = {}
    /\ UNCHANGED <<netVars, master_set, fd_max, j, from, msg>>

\* Start the inner loop that sends text to everybody but f.
StartBroadcast(f, text) ==
    /\ msg' = text
    /\ from' = f
    /\ j' = 0
    /\ pc' = "bcast"

\* Mutant: fd_max is not raised.
AcceptClientNoMax ==
    /\ Meets(Listener)
    /\ \E newFd \in FreeFds :
         /\ SysAccept(newFd)
         /\ master_set' = master_set \union {newFd}
         /\ StartBroadcast(newFd, <<<<Head(queue), Joined>>>>)
    /\ i' = Listener
    /\ UNCHANGED <<select_set, fd_max>>

\* accept(), FD_SET, fd_max, and the notice that somebody joined.
AcceptClient ==
    /\ Meets(Listener)
    /\ \E newFd \in FreeFds :
         /\ SysAccept(newFd)
         /\ master_set' = master_set \union {newFd}
         /\ fd_max' = IF newFd > fd_max THEN newFd ELSE fd_max
         /\ StartBroadcast(newFd, <<<<Head(queue), Joined>>>>)
    /\ i' = Listener
    /\ UNCHANGED select_set

\* accept() returns -1: no descriptor, or no memory, is left.
AcceptFails ==
    /\ Meets(Listener)
    /\ i' = Listener + 1
    /\ UNCHANGED <<netVars, master_set, select_set, fd_max, pc, j, from, msg>>

\* recv() > 0: the text goes to everybody else.
RecvData ==
    \E f \in Fds \ {Listener} : \E hi \in 1..MaxMsgs :
        /\ Meets(f)
        /\ SysRecvData(f, hi)
        /\ StartBroadcast(f, Chunk(sock[f], read[sock[f]], hi))
        /\ i' = f
        /\ UNCHANGED <<master_set, select_set, fd_max>>

\* recv() = 0: the notice that the client left goes out before close().
RecvZero ==
    \E f \in Fds \ {Listener} :
        /\ Meets(f)
        /\ AtEnd(f) /\ peer[sock[f]] # "err"
        /\ StartBroadcast(f, <<<<sock[f], Left>>>>)
        /\ i' = f
        /\ UNCHANGED <<netVars, master_set, select_set, fd_max>>

\* recv() = -1: bytes_received is a size_t, so the test "<= 0" is false and the
\* failed call is broadcast like a message.  The error is now consumed.
RecvError ==
    \E f \in Fds \ {Listener} :
        /\ Meets(f)
        /\ AtEnd(f) /\ peer[sock[f]] = "err"
        /\ peer' = [peer EXCEPT ![sock[f]] = "pipe"]
        /\ StartBroadcast(f, <<<<sock[f], Phantom>>>>)
        /\ i' = f
        /\ UNCHANGED <<queue, sock, sent, read, stream, unread>>
        /\ UNCHANGED <<master_set, select_set, fd_max>>

\* Mutant: the writer is not left out.
RemainingEcho == {f \in Watched : f >= j} \ {Listener}

\* Everybody the inner loop has still to send to, in ascending order.
Remaining == {f \in Watched : f >= j} \ {Listener, from}

Send ==
    /\ pc = "bcast"
    /\ \E f \in Remaining :
         /\ \A g \in Remaining : f <= g
         /\ SysSend(sock[f], msg)
         /\ j' = f + 1
    /\ UNCHANGED <<master_set, select_set, fd_max, pc, i, from, msg>>

SigPipe ==
    /\ pc = "bcast"
    /\ \E f \in Remaining :
         /\ \A g \in Remaining : f <= g
         /\ peer[sock[f]] = "pipe"
    /\ pc' = "dead"
    /\ UNCHANGED <<netVars, master_set, select_set, fd_max, i, j, from, msg>>

\* After the loop, whose variables go out of scope: the next descriptor; a
\* client that left is closed first.
IsFarewell == msg # <<>> /\ msg[1][2] = Left

\* Mutant: no FD_CLR after the close().
EndOfBroadcastKeepsBit ==
    /\ pc = "bcast"
    /\ Remaining = {}
    /\ IF IsFarewell THEN SysClose(from) ELSE UNCHANGED netVars
    /\ msg' = <<>>
    /\ i' = i + 1
    /\ j' = 0 /\ from' = Listener
    /\ pc' = "scan"
    /\ UNCHANGED <<master_set, select_set, fd_max>>

EndOfBroadcast ==
    /\ pc = "bcast"
    /\ Remaining = {}
    /\ IF IsFarewell
         THEN SysClose(from) /\ master_set' = master_set \ {from}
         ELSE UNCHANGED <<netVars, master_set>>
    /\ msg' = <<>>
    /\ i' = i + 1
    /\ j' = 0 /\ from' = Listener
    /\ pc' = "scan"
    /\ UNCHANGED <<select_set, fd_max>>

Server ==
    \/ Select \/ SelectTimeout \/ EndOfScan
    \/ AcceptClient \/ AcceptFails
    \/ RecvData \/ RecvZero \/ RecvError
    \/ Send \/ SigPipe \/ EndOfBroadcast

Client(c) == pc # "dead" /\ ClientStep(c) /\ UNCHANGED serverVars

\* The server was killed by SIGPIPE: nothing is left to happen.
Over == pc = "dead" /\ UNCHANGED vars

Next == Server \/ (\E c \in Clients : Client(c)) \/ Over

ClientReads(c) == pc # "dead" /\ ClientRecv(c) /\ UNCHANGED serverVars

\* The server's thread is scheduled; thread_read of every client keeps reading.
Fairness == WF_vars(Server) /\ \A c \in Clients : WF_vars(ClientReads(c))

Spec == Init /\ [][Next]_vars
FairSpec == Spec /\ Fairness

-----------------------------------------------------------------------------
(* Properties. *)

TypeOK ==
    /\ SocketsTypeOK
    /\ master_set \subseteq Fds /\ select_set \subseteq Fds
    /\ fd_max \in Fds /\ from \in Fds
    /\ pc \in {"select", "scan", "bcast", "dead"}
    /\ i \in Nat /\ j \in Nat
    /\ msg \in Seq(Messages)

\* master_set is exactly the listener and the sockets that are open, and fd_max
\* bounds it: no client is left out of select() or of a broadcast, and no closed
\* (or reused) descriptor stays in, although fd_max never shrinks.
MasterInv ==
    /\ master_set = {Listener} \union OpenFds
    /\ ~Open(Listener)
    /\ \A f \in master_set : f <= fd_max

\* "if you don't use something like poll or select, sends and recvs will block
\* indefinitely": what select() reported stays true until the scan comes to it,
\* also when descriptors are closed, accepted or sent to in between, so no
\* recv() and no accept() of this server ever waits.
ScanInv ==
    pc \in {"scan", "bcast"} =>
        \A f \in select_set :
            (f > i \/ (f = i /\ pc = "scan")) => IsReady(f) /\ f \in master_set

\* The texts of s that somebody said: s without the phantoms.
Spoken(s) ==
    LET upTo[n \in 0..Len(s)] ==
            IF n = 0 THEN <<>>
            ELSE IF s[n][2] = Phantom THEN upTo[n - 1] ELSE Append(upTo[n - 1], s[n])
    IN upTo[Len(s)]

\* The room the server implements.  What the loop has still to send counts as
\* heard; a client leaves when its farewell starts; phantom texts are not what
\* anybody said.
Leaving(c) == pc \in {"bcast", "dead"} /\ IsFarewell /\ sock[from] = c
Pending(c) ==
    IF pc \in {"bcast", "dead"} /\ \E f \in Remaining : sock[f] = c THEN msg ELSE <<>>

Room == INSTANCE ChatRoom WITH
    Announces <- TRUE,
    status <- [c \in Clients |-> IF Leaving(c) THEN "left" ELSE Membership(c)],
    said <- read,
    heard <- [c \in Clients |-> Spoken(stream[c] \o Pending(c))]

\* The loops of this server, notices included, implement the atomic room.
ImplementsRoom == Room!Spec

\* What a client in the room writes is eventually broadcast and a client that
\* went away is eventually closed, as long as the server is not killed.  Unlike
\* the poll server this one needs no exception for a recv() that waits.
Responsive ==
    \A c \in Clients :
        /\ (Accepted(c) /\ sent[c] > read[c]) ~> (sent[c] = read[c] \/ pc = "dead")
        /\ (Accepted(c) /\ peer[c] # "up") ~> (~Accepted(c) \/ pc = "dead")

\* "If this is an error or a 0": a recv() that fails is never broadcast.
NothingInvented ==
    \A c \in Clients : \A p \in DOMAIN stream[c] : stream[c][p][2] # Phantom
===============================================================================
