------------------------------- MODULE Greeting -------------------------------
(***************************************************************************)
(* UnixStreamSocketServer.c and UnixStreamSocketClient.c: the server       *)
(* accepts one connection, forks a child that sends "Testing 123" over it, *)
(* and returns; each client tries addresses, reads once and ends.          *)
(* An address is its place in the list that getaddrinfo() gives both.      *)
(***************************************************************************)
EXTENDS Integers, Sequences, FiniteSets

CONSTANTS
    Guests,      \* client processes
    Addresses    \* length of the list of addresses

VARIABLES
    server,      \* "address", "listen", "accept", "fork", "return", "ended",
                 \* "failed"
    address,     \* the address the loop of the server is at, then the bound one
    helper,      \* the child: "none", "close", "send", "return", "zombie", "gone"
    waiting,     \* connections nobody accepted yet
    accepted,    \* the guest accept() returned, at most one
    greeted,     \* the guests "Testing 123" was sent to
    guest        \* guest -> "off", "recv", "closed" (its connect() failed and it
                 \* closed the socket), or how it ended: "printed", "empty"
                 \* (printed nothing), "refused", "reset" or "killed"

serverVars == <<server, address, helper, waiting, accepted, greeted>>
greetingVars == <<serverVars, guest>>

TypeOK ==
    /\ server \in {"address", "listen", "accept", "fork", "return", "ended", "failed"}
    /\ address \in 1..(Addresses + 1)
    /\ helper \in {"none", "close", "send", "return", "zombie", "gone"}
    /\ waiting \in Seq(Guests)
    /\ accepted \subseteq Guests /\ greeted \subseteq Guests
    /\ guest \in [Guests -> {"off", "recv", "closed", "printed", "empty", "refused",
                             "reset", "killed"}]

Init ==
    /\ server = "address" /\ address = 1 /\ helper = "none"
    /\ waiting = <<>> /\ accepted = {} /\ greeted = {}
    /\ guest = [c \in Guests |-> "off"]

\* Which processes hold the listening socket, and which hold newFd.
Listeners ==
    {p \in {"parent", "child"} :
       IF p = "parent" THEN server \in {"accept", "fork", "return"} ELSE helper = "close"}
Holders ==
    {p \in {"parent", "child"} :
       IF p = "parent" THEN server \in {"fork", "return"} ELSE helper \in {"close", "send"}}

-----------------------------------------------------------------------------
(* The server. *)

\* socket() or bind() fails: the next address, and exit(EXIT_FAILURE) after the
\* last one.  (A failed bind() leaves its socket open.)
NextAddress ==
    /\ server = "address"
    /\ address' = address + 1
    /\ server' = IF address = Addresses THEN "failed" ELSE "address"
    /\ UNCHANGED <<helper, waiting, accepted, greeted, guest>>

Bind ==
    /\ server = "address"
    /\ server' = "listen"
    /\ UNCHANGED <<address, helper, waiting, accepted, greeted, guest>>

\* setsockopt(), listen() or sigaction() fails: exit(EXIT_FAILURE).
SetUpFails ==
    /\ server \in {"address", "listen"}
    /\ server' = "failed"
    /\ UNCHANGED <<address, helper, waiting, accepted, greeted, guest>>

\* listen(), and sigaction() for SIGCHLD.
Listen ==
    /\ server = "listen"
    /\ server' = "accept"
    /\ UNCHANGED <<address, helper, waiting, accepted, greeted, guest>>

\* A failed accept() is tried again.  The connection taken may be one whose
\* guest is gone.
Accept ==
    /\ server = "accept" /\ waiting # <<>>
    /\ accepted' = {Head(waiting)} /\ waiting' = Tail(waiting)
    /\ server' = "fork"
    /\ UNCHANGED <<address, helper, greeted, guest>>

Fork ==
    /\ server = "fork"
    /\ helper' = "close"
    /\ server' = "return"
    /\ UNCHANGED <<address, waiting, accepted, greeted, guest>>

\* fork() = -1 is not 0: the parent's branch, and nobody greets the guest.
ForkFails ==
    /\ server = "fork"
    /\ server' = "return"
    /\ UNCHANGED <<address, helper, waiting, accepted, greeted, guest>>

\* When nobody holds the listening socket any more, its queue is reset.
CloseListener ==
    IF Listeners' # {} THEN UNCHANGED <<waiting, guest>>
    ELSE /\ guest' = [c \in Guests |->
              IF guest[c] = "recv" /\ c \notin accepted THEN "reset" ELSE guest[c]]
         /\ waiting' = <<>>

\* close(sockfd) and the end of the process, which closes newFd.  A zombie, or a
\* child that ends later, becomes init's.
Return ==
    /\ server = "return"
    /\ server' = "ended"
    /\ helper' = IF helper = "zombie" THEN "gone" ELSE helper
    /\ CloseListener
    /\ UNCHANGED <<address, accepted, greeted>>

\* SIGCHLD: waitpid() in the handler, as long as the parent is there.
Reap ==
    /\ helper = "zombie" /\ server = "return"
    /\ helper' = "gone"
    /\ UNCHANGED <<server, address, waiting, accepted, greeted, guest>>

HelperClose ==
    /\ helper = "close"
    /\ helper' = "send" /\ UNCHANGED server
    /\ CloseListener
    /\ UNCHANGED <<address, accepted, greeted>>

\* Mutant: a process that got -1 from fork() sends the greeting as well.
HelperSendAlways ==
    /\ helper = "send" \/ (helper = "none" /\ server = "return")
    /\ greeted' = accepted
    /\ helper' = IF helper = "send" THEN "return" ELSE helper
    /\ UNCHANGED <<server, address, waiting, accepted, guest>>

\* send() of the greeting and close(newFd).  It may fail if the guest is gone.
HelperSend ==
    /\ helper = "send"
    /\ \/ greeted' = accepted
       \/ greeted' = greeted /\ \A c \in accepted : guest[c] = "killed"
    /\ helper' = "return"
    /\ UNCHANGED <<server, address, waiting, accepted, guest>>

\* close(sockfd) a second time, which fails, and the end of the child.
HelperReturn ==
    /\ helper = "return"
    /\ helper' = IF server = "ended" THEN "gone" ELSE "zombie"
    /\ UNCHANGED <<server, address, waiting, accepted, greeted, guest>>

Process ==
    \/ NextAddress \/ Bind \/ SetUpFails \/ Listen
    \/ Accept \/ Fork \/ ForkFails \/ Return
    \/ Reap \/ HelperClose \/ HelperSend \/ HelperReturn

-----------------------------------------------------------------------------
(* A client. *)

GuestTo(c, state) == guest' = [guest EXCEPT ![c] = state]

\* Only the first address whose socket() succeeds is tried: after a failed
\* connect() the loop closes the socket and breaks all the same.
Connect(c) ==
    /\ guest[c] = "off"
    /\ \E tried \in 1..Addresses :
         IF tried = address /\ Listeners # {}
         THEN GuestTo(c, "recv") /\ waiting' = Append(waiting, c)
         ELSE GuestTo(c, "closed") /\ UNCHANGED waiting
    /\ UNCHANGED <<server, address, helper, accepted, greeted>>

\* The list ends without a socket: return 2.
NoSocket(c) ==
    /\ guest[c] = "off"
    /\ GuestTo(c, "refused")
    /\ UNCHANGED serverVars

\* recv() on the descriptor that was closed: EBADF.
RecvClosed(c) ==
    /\ guest[c] = "closed"
    /\ GuestTo(c, "refused")
    /\ UNCHANGED serverVars

\* One recv(): the greeting, or the end of a connection nobody greeted, which
\* is printed as an empty message.
Recv(c) ==
    /\ guest[c] = "recv" /\ c \in accepted
    /\ \/ c \in greeted /\ GuestTo(c, "printed")
       \/ c \notin greeted /\ Holders = {} /\ GuestTo(c, "empty")
    /\ UNCHANGED serverVars

KillGuest(c) ==
    /\ guest[c] = "recv"
    /\ GuestTo(c, "killed")
    /\ UNCHANGED serverVars

Guest(c) == RecvClosed(c) \/ Recv(c)

Next ==
    \/ Process
    \/ \E c \in Guests : Connect(c) \/ NoSocket(c) \/ KillGuest(c) \/ Guest(c)

FairSpec ==
    /\ Init /\ [][Next]_greetingVars
    /\ WF_greetingVars(Process) /\ \A c \in Guests : WF_greetingVars(Guest(c))

-----------------------------------------------------------------------------
(* Properties. *)

\* Only a guest that was accepted is greeted, by a child that is past its send().
\* No other one waits once both processes have let go of the listening socket, none
\* is reset before, and an empty message means that the fork() has failed.
RightGuest ==
    /\ greeted \subseteq accepted
    /\ \A c \in Guests :
         /\ guest[c] = "empty" => helper = "none" /\ greeted = {}
         /\ guest[c] = "recv" /\ Listeners = {} => c \in accepted
         /\ guest[c] = "reset" => Listeners = {} /\ c \notin accepted
         /\ c \in greeted => helper \in {"return", "zombie", "gone"}

\* Refuted by the code: "Our main connection loop" forks "a new process for each
\* incoming connection".  The loop returns after the first one, and whoever else is
\* in the queue is reset.
EachIsForked == \A c \in Guests : guest[c] # "reset"

\* A guest in the queue gets its answer, and once there has been one both
\* processes of the server end and leave no zombie.
Asks(c) == guest[c] = "recv"
Served(c) == ~Asks(c) /\ server = "ended" /\ helper \in {"none", "gone"}
Answered == \A c \in Guests : Asks(c) ~> Served(c)
===============================================================================
