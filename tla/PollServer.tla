------------------------------ MODULE PollServer ------------------------------
(***************************************************************************)
(* The chat server of                                                      *)
(* TelnetServerPollingFileDescriptorsWithUnixStreamStreamSockets.c: one    *)
(* thread that polls an array of descriptors, accepts on the listener and  *)
(* broadcasts what each client writes to the others.                       *)
(* The array and its two counters are variables of their own, because the  *)
(* code passes fd_size, not fd_count, to poll(): slots past fd_count keep  *)
(* what was last in them and are still polled.                             *)
(***************************************************************************)
EXTENDS StreamSockets

CONSTANTS
    InitSize,    \* fd_size at start (5 in the code)
    JunkSlots    \* what malloc/realloc may hand over in a slot never written

NoFd == -1
Revents == {"none", "in", "nval"}   \* nothing, POLLIN, POLLNVAL
Slot == [fd : Fds \union {NoFd}, revents : Revents]

ASSUME PollAssumption ==
    /\ InitSize \in Nat \ {0}
    /\ JunkSlots \subseteq Slot
    /\ JunkSlots # {}

VARIABLES
    pfds,        \* pollFileDescriptors: [0..fd_size-1 -> Slot]
    fd_count, fd_size,
    pc,          \* "poll", "scan", "bcast", or "dead" (killed by SIGPIPE)
    i, j,        \* the two loop counters
    msg          \* the messages in buffer that are being broadcast

serverVars == <<pfds, fd_count, fd_size, pc, i, j, msg>>
vars == <<netVars, serverVars>>

Init ==
    /\ SocketsInit
    /\ fd_size = InitSize
    /\ \E junk \in [0..(InitSize - 1) -> JunkSlots] :
         pfds = [junk EXCEPT ![0].fd = Listener]
    /\ fd_count = 1
    /\ pc = "poll"
    /\ i = 0 /\ j = 0
    /\ msg = <<>>

-----------------------------------------------------------------------------
\* The event poll() reports in a slot that holds descriptor f.
EventsOf(f) ==
    IF f = NoFd THEN "none"
    ELSE IF f = Listener THEN (IF queue # <<>> THEN "in" ELSE "none")
    ELSE IF ~Open(f) THEN "nval"
    ELSE IF Readable(f) THEN "in" ELSE "none"

\* poll(pfds, fd_size, -1): returns once some slot has an event.
Poll ==
    /\ pc = "poll"
    /\ \E k \in 0..(fd_size - 1) : EventsOf(pfds[k].fd) # "none"
    /\ pfds' = [k \in 0..(fd_size - 1) |->
                  [pfds[k] EXCEPT !.revents = EventsOf(pfds[k].fd)]]
    /\ pc' = "scan"
    /\ UNCHANGED <<netVars, fd_count, fd_size, i, j, msg>>

Scanning == pc = "scan" /\ i < fd_count

\* Mutant: i is not reset.
EndOfPassKeepsI ==
    /\ pc = "scan" /\ i >= fd_count
    /\ pc' = "poll"
    /\ UNCHANGED <<netVars, pfds, fd_count, fd_size, i, j, msg>>

\* The end of the pass over the array: poll again (i goes out of scope).
EndOfPass ==
    /\ pc = "scan" /\ i >= fd_count
    /\ i' = 0
    /\ pc' = "poll"
    /\ UNCHANGED <<netVars, pfds, fd_count, fd_size, j, msg>>

\* No POLLIN in this slot.
Skip ==
    /\ Scanning
    /\ pfds[i].revents # "in"
    /\ i' = i + 1
    /\ UNCHANGED <<netVars, pfds, fd_count, fd_size, pc, j, msg>>

\* Mutant: fd_size is doubled and the result of realloc() is dropped.
AddToPfdsNoRealloc(newFd) ==
    /\ pfds' = IF fd_count = fd_size THEN pfds ELSE [pfds EXCEPT ![fd_count].fd = newFd]
    /\ fd_size' = IF fd_count = fd_size THEN 2 * fd_size ELSE fd_size
    /\ fd_count' = fd_count + 1

\* The array after add_to_pfds(newFd): doubled when full; the new entry keeps
\* the revents its slot held before.
AddToPfds(newFd) ==
    LET size == IF fd_count = fd_size THEN 2 * fd_size ELSE fd_size IN
    /\ \E junk \in [fd_size..(size - 1) -> JunkSlots] :
         LET grown == [k \in 0..(size - 1) |->
                         IF k < fd_size THEN pfds[k] ELSE junk[k]]
         IN pfds' = [grown EXCEPT ![fd_count].fd = newFd]
    /\ fd_size' = size
    /\ fd_count' = fd_count + 1

AcceptClient ==
    /\ Scanning
    /\ pfds[i].revents = "in"
    /\ pfds[i].fd = Listener
    /\ \E newFd \in FreeFds : SysAccept(newFd) /\ AddToPfds(newFd)
    /\ i' = i + 1
    /\ UNCHANGED <<pc, j, msg>>

\* accept() returns -1: the process or the system is out of descriptors (or of
\* memory).  The connection stays in the queue.
AcceptFails ==
    /\ Scanning
    /\ pfds[i].revents = "in"
    /\ pfds[i].fd = Listener
    /\ i' = i + 1
    /\ UNCHANGED <<netVars, pfds, fd_count, fd_size, pc, j, msg>>

\* The slot's descriptor is a client's and POLLIN is set: the server calls
\* recv().  Nothing is enabled while recv() has to wait.
AtRecv == Scanning /\ pfds[i].revents = "in" /\ pfds[i].fd # Listener
RecvBlocked == AtRecv /\ ~Readable(pfds[i].fd)

\* Mutant: the broadcast starts at slot 2.
RecvDataSkipsFirst ==
    /\ AtRecv
    /\ LET f == pfds[i].fd IN
         \E hi \in 1..MaxMsgs :
            /\ SysRecvData(f, hi)
            /\ msg' = Chunk(sock[f], read[sock[f]], hi)
    /\ j' = 2
    /\ pc' = "bcast"
    /\ UNCHANGED <<pfds, fd_count, fd_size, i>>

\* recv() > 0: keep the buffer and start the broadcast loop.
RecvData ==
    /\ AtRecv
    /\ LET f == pfds[i].fd IN
         \E hi \in 1..MaxMsgs :
            /\ SysRecvData(f, hi)
            /\ msg' = Chunk(sock[f], read[sock[f]], hi)
    /\ j' = 0
    /\ pc' = "bcast"
    /\ UNCHANGED <<pfds, fd_count, fd_size, i>>

\* Mutant: the last entry is dropped instead of the i-th.
DelPfdsDropsLast ==
    /\ fd_count' = fd_count - 1
    /\ UNCHANGED pfds

\* The array after del_pfds(i): the last entry replaces the i-th.
DelPfds ==
    /\ pfds' = [pfds EXCEPT ![i] = pfds[fd_count - 1]]
    /\ fd_count' = fd_count - 1

\* Mutant: only the descriptor moves, not its revents, and the loop looks at
\* the slot again.
RecvEndLooksAgain ==
    /\ AtRecv
    /\ AtEnd(pfds[i].fd)
    /\ SysClose(pfds[i].fd)
    /\ pfds' = [pfds EXCEPT ![i].fd = pfds[fd_count - 1].fd]
    /\ fd_count' = fd_count - 1
    /\ UNCHANGED <<fd_size, pc, i, j, msg>>

\* recv() <= 0: close, drop the slot, and go on with the next index.
RecvEnd ==
    /\ AtRecv
    /\ AtEnd(pfds[i].fd)
    /\ SysClose(pfds[i].fd)
    /\ DelPfds
    /\ i' = i + 1
    /\ UNCHANGED <<fd_size, pc, j, msg>>

\* Mutant: the author gets its own message back.
IsDestinationEcho(k) == pfds[k].fd # Listener

\* One iteration of the broadcast loop.
IsDestination(k) == pfds[k].fd # Listener /\ pfds[k].fd # pfds[i].fd

SkipDestination ==
    /\ pc = "bcast" /\ j < fd_count
    /\ ~IsDestination(j)
    /\ j' = j + 1
    /\ UNCHANGED <<netVars, pfds, fd_count, fd_size, pc, i, msg>>

Send ==
    /\ pc = "bcast" /\ j < fd_count
    /\ IsDestination(j)
    /\ SysSend(sock[pfds[j].fd], msg)
    /\ j' = j + 1
    /\ UNCHANGED <<pfds, fd_count, fd_size, pc, i, msg>>

\* send() to a connection known to be reset: SIGPIPE ends the process.
SigPipe ==
    /\ pc = "bcast" /\ j < fd_count
    /\ IsDestination(j)
    /\ peer[sock[pfds[j].fd]] = "pipe"
    /\ pc' = "dead"
    /\ UNCHANGED <<netVars, pfds, fd_count, fd_size, i, j, msg>>

EndOfBroadcast ==
    /\ pc = "bcast" /\ j >= fd_count
    /\ i' = i + 1
    /\ j' = 0 /\ msg' = <<>>
    /\ pc' = "scan"
    /\ UNCHANGED <<netVars, pfds, fd_count, fd_size>>

Server ==
    \/ Poll \/ EndOfPass \/ Skip
    \/ AcceptClient \/ AcceptFails
    \/ RecvData \/ RecvEnd
    \/ SkipDestination \/ Send \/ SigPipe \/ EndOfBroadcast

Client(c) == pc # "dead" /\ ClientStep(c) /\ UNCHANGED serverVars

\* Every client has come and gone (or the server has died): nothing is left to
\* happen.
Over ==
    /\ \/ pc = "dead"
       \/ pc = "poll" /\ queue = <<>> /\ \A c \in Clients : peer[c] # "off" /\ ~Accepted(c)
    /\ UNCHANGED vars

Next == Server \/ (\E c \in Clients : Client(c)) \/ Over

ClientReads(c) == pc # "dead" /\ ClientRecv(c) /\ UNCHANGED serverVars

\* The server's thread is scheduled; thread_read of every client keeps reading.
Fairness == WF_vars(Server) /\ \A c \in Clients : WF_vars(ClientReads(c))

Spec == Init /\ [][Next]_vars
FairSpec == Spec /\ Fairness

-----------------------------------------------------------------------------
(* Properties. *)

TypeOK ==
    /\ SocketsTypeOK
    /\ fd_count \in Nat /\ fd_size \in Nat
    /\ pfds \in [0..(fd_size - 1) -> Slot]
    /\ pc \in {"poll", "scan", "bcast", "dead"}
    /\ i \in Nat /\ j \in Nat
    /\ msg \in Seq(Messages)

Live == 1..(fd_count - 1)       \* the slots of clients

\* The array and the kernel agree: slot 0 is the listener, each client slot
\* holds a different open descriptor, and no open descriptor is missing, so a
\* connection is neither leaked nor read through two slots, whatever sequence of
\* add_to_pfds and del_pfds the passes make.
TableInv ==
    /\ 1 <= fd_count /\ fd_count <= fd_size
    /\ pfds[0].fd = Listener
    /\ \A k \in Live : pfds[k].fd \in OpenFds \ {Listener}
    /\ \A k, l \in Live : pfds[k].fd = pfds[l].fd => k = l
    /\ \A f \in OpenFds : \E k \in Live : pfds[k].fd = f

\* A POLLIN without data can only be met in the last slot, the one add_to_pfds
\* filled during this pass, on a connection never read from: del_pfds moves entries
\* together with their revents and never makes the loop call recv() twice, or on a
\* connection that has nothing.
StaleOnlyAtTail ==
    pc = "scan" =>
        \A k \in i..(fd_count - 1) :
            (k > 0 /\ pfds[k].revents = "in" /\ ~Readable(pfds[k].fd))
                => k = fd_count - 1 /\ read[sock[pfds[k].fd]] = 0

\* The room the server implements: a client is a member from accept() to
\* close(); a broadcast takes effect at recv(), so what the loop has still to
\* send counts as heard.
Pending(c) ==
    IF /\ pc \in {"bcast", "dead"}
       /\ \E k \in j..(fd_count - 1) : IsDestination(k) /\ sock[pfds[k].fd] = c
    THEN msg ELSE <<>>

Room == INSTANCE ChatRoom WITH
    Announces <- FALSE,
    status <- [c \in Clients |-> Membership(c)],
    said <- read,
    heard <- [c \in Clients |-> stream[c] \o Pending(c)]

\* The server's array, its two loops and the blocking sends implement the
\* atomic broadcast of ChatRoom, hence its total order and absence of gaps.
ImplementsRoom == Room!Spec

\* What a client in the room writes is eventually broadcast, and the connection of
\* one that went away is eventually closed, unless the server has been killed or is
\* stuck in a recv() that waits for another client.
Responsive ==
    \A c \in Clients :
        /\ (Accepted(c) /\ sent[c] > read[c])
               ~> (sent[c] = read[c] \/ pc = "dead" \/ RecvBlocked)
        /\ (Accepted(c) /\ peer[c] # "up")
               ~> (~Accepted(c) \/ pc = "dead" \/ RecvBlocked)

\* The header says that poll() is there so that the server does not "block
\* indefinitely until you get something": recv() is only called when it returns.
NoBlockedRecv == ~RecvBlocked
===============================================================================
