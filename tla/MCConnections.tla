----------------------------- MODULE MCConnections -----------------------------
(***************************************************************************)
(* The programs that use sockets, other than the chat servers, the buffers *)
(* of one of these, and the functions of Computations.  The initial state  *)
(* chooses which is run, and the variables of the others keep their        *)
(* initial values.  The variables inherited from FileTransfer are those of *)
(* the uploads.                                                            *)
(***************************************************************************)
EXTENDS FileTransfer

CONSTANTS
    Guests, Addresses,                      \* of Greeting
    Servers, NoServer, Locals, QueueLen,    \* of LocalServer
    Senders, Lengths, MaxBytes, MaxCopies,  \* of Datagrams
    UserLines, ServerBytes, BufferBytes,    \* of TelnetClient
    BufferSize, PrependSize, Speakers, NulAt,   \* of RelayBuffer
    IntBits, FractionBits, GuardBits, WordBits,   \* of Computations
    a, b, c

ASSUME GreetAssumption == Addresses \in Nat \ {0}
ASSUME LocalAssumption == NoServer \notin Servers
ASSUME QueueLenAssumption == QueueLen \in Nat
ASSUME DatagramAssumption == Lengths \subseteq Nat /\ MaxBytes \in Nat \ {0}
ASSUME MaxCopiesAssumption == MaxCopies \in Nat
ASSUME TelnetAssumption == BufferBytes \in Nat /\ UserLines \in Nat /\ ServerBytes \in Nat
ASSUME RelayAssumption ==
    /\ BufferSize \in Nat /\ PrependSize \in Nat /\ PrependSize >= 4
    /\ Speakers \in Seq(Nat \ {0}) /\ NulAt \subseteq Nat

VARIABLES
    program,
    server, address, helper, waiting, accepted, greeted, guest,
    path, run, local, backlogged,
    receiver, sender, flight, copies, arrived, byteTotal, text, zeroAt, report,
    process, writer, reader, socketFd, wild, typed, line, delivered, stdio, screen,
    remote, reset, served, inbound,
    buffer, speaker, lengths, nuls, relayed, overrun,
    question     \* what Computations is asked

Greet == INSTANCE Greeting
Local == INSTANCE LocalServer
Gram == INSTANCE Datagrams
Telnet == INSTANCE TelnetClient
Relays == INSTANCE RelayBuffer
Compute == INSTANCE Computations

greetingVars == <<server, address, helper, waiting, accepted, greeted, guest>>
localVars == <<path, run, local, backlogged>>
datagramVars ==
    <<receiver, sender, flight, copies, arrived, byteTotal, text, zeroAt, report>>
telnetVars ==
    <<process, writer, reader, socketFd, wild, typed, line, delivered, stdio, screen,
      remote, reset, served, inbound>>
relayVars == <<buffer, speaker, lengths, nuls, relayed, overrun>>
connVars ==
    <<program, vars, greetingVars, localVars, datagramVars, telnetVars, relayVars, question>>

Two == {a, b}
Three == {a, b, c}
SomeLengths == {0, 2, 5}
SomeSpeakers == <<1, 1, 2, 4>>

Ask(about, Args) == [about : {about}, args : Args]

Questions ==
    Ask("byte", {<<n>> : n \in 0..255})
    \union Ask("float", {0, 1} \X (0..Compute!Pow(IntBits + 1 + FractionBits + GuardBits)))
    \union Ask("words", UNION {[1..n -> 0..(Compute!Pow(WordBits) - 1)] : n \in 0..Compute!Pow(WordBits)})
    \union Ask("family", {<<n>> : n \in 1..7})

ConnInit ==
    /\ program \in {"upload", "greet", "local", "datagram", "telnet", "relay", "compute"}
    /\ Init /\ Greet!Init /\ Local!Init /\ Gram!Init /\ Telnet!Init /\ Relays!Init
    /\ question \in (IF program = "compute" THEN Questions ELSE Ask("byte", {<<0>>}))
    /\ IF program = "upload"
       THEN size[b] = MaxBlocks   \* the other file has any size
       ELSE size = [k \in Clients |-> 0]
    /\ program # "datagram" => zeroAt = 0

\* A step of program p.
Only(p, step) ==
    /\ program = p /\ step
    /\ p # "upload" => UNCHANGED vars
    /\ p # "greet" => UNCHANGED greetingVars
    /\ p # "local" => UNCHANGED localVars
    /\ p # "datagram" => UNCHANGED datagramVars
    /\ p # "telnet" => UNCHANGED telnetVars
    /\ p # "relay" => UNCHANGED relayVars
    /\ UNCHANGED <<program, question>>

\* What is scheduled: the one process or thread that has to go on, and those of
\* a client, with the child that serves it, of a guest or of a run of a server.
\* (A client and its child take finitely many steps: fairness of both together is
\* enough.)
MainStep ==
    \/ Only("upload", Parent) \/ Only("greet", Greet!Process)
    \/ Only("datagram", Gram!Receiver) \/ Only("telnet", Telnet!ThreadRead)

StepOf(k) ==
    \/ k \in Clients /\ Only("upload", Upload(k) \/ Child(k))
    \/ k \in Guests /\ Only("greet", Greet!Guest(k))
    \/ k \in Servers /\ Only("local", Local!Server(k))

\* What may happen or not: somebody connects, sends, types, is killed; the
\* network; the texts of the chat.
Optional ==
    \/ \E k \in Clients : Only("upload", Connect(k) \/ Mishap(k))
    \/ \E k \in Guests :
         Only("greet", Greet!Connect(k) \/ Greet!NoSocket(k) \/ Greet!KillGuest(k))
    \/ \E k \in Servers : Only("local", Local!Kill(k))
    \/ \E k \in Locals : Only("local", Local!Connect(k))
    \/ \E k \in Senders : Only("datagram", Gram!SendTo(k) \/ Gram!SendFails(k))
    \/ \E d \in Gram!Datagrams : Only("datagram", Gram!Arrive(d))
    \/ Only("telnet", Telnet!MainThread \/ Telnet!Network)
    \/ Only("relay", Relays!Next)

Gone(k) == guest[k] \notin {"off", "recv", "closed"}

\* Where the programs stop, or wait for somebody who never comes.
Ended ==
    /\ \/ program = "upload" /\ Over
       \/ program = "greet" /\ server \in {"accept", "ended", "failed"} /\ waiting = <<>>
             /\ helper \in {"none", "gone"} /\ \A k \in Guests : Gone(k)
       \/ program = "local" /\ (\A k \in Servers : run[k] \in {"failed", "killed"})
             /\ \A k \in Locals : local[k] \in {"closed", "refused"}
       \/ program = "datagram" /\ receiver \in {"recv", "ended", "failed"} /\ flight = {}
             /\ arrived = <<>> /\ \A k \in Senders : sender[k] # "off"
       \/ program = "telnet" /\ process # "running"
       \/ program = "relay" /\ overrun
       \/ program = "compute"
    /\ UNCHANGED connVars

ConnNext ==
    \/ MainStep
    \/ \E k \in Clients \union Guests \union Servers : StepOf(k)
    \/ Optional \/ Ended

ConnSpec ==
    /\ ConnInit /\ [][ConnNext]_connVars
    /\ WF_connVars(MainStep)
    /\ \A k \in Clients \union Guests \union Servers : WF_connVars(StepOf(k))

-----------------------------------------------------------------------------
\* The state of each program keeps its type.
ConnTypeOK ==
    /\ TypeOK /\ Greet!TypeOK /\ Local!TypeOK
    /\ Gram!TypeOK /\ Telnet!TypeOK /\ Relays!TypeOK

\* The two servers that return after an answer: UnixStreamSocketServer.c greets a
\* guest it has accepted, and UnixDatagramSocketServer.c prints one datagram whole,
\* inside its buffer.
RightAnswer == Greet!RightGuest /\ Gram!OnePrinted

\* What a comment promises and the run loop_returns refutes: every guest in the queue
\* is answered.
EachIsForked == Greet!EachIsForked

\* UnixSocketsForIPC.c: one run serves the path, and keeps its clients.
PathOwned == Local!PathOwned

\* UnixTelnetClient.c: what is sent and printed, and what ends the client.
Conversation == Telnet!Conversation

\* UnixStreamTelnetServerWithSelect.c: the bytes of a message that is relayed.
RelayedText == Relays!RelayedText

\* The conversions, the checksum and the family are what their reference definitions
\* and the comments of the code say.
ComputationsRight == program = "compute" => Compute!Right(question)

\* Uploads and guests are answered, clients in a queue get out of it, a datagram
\* that arrives ends its receiver, and the telnet client ends with its server.
\* The guests are alike, and so are the clients of the local server: two stand for all.
\* (EveryoneServed, Answered, ClientsEnd, ReceiverEnds and ClientEnds of the
\* modules, in one formula.)
AsksIn(p, k) ==
    CASE p = "upload" -> k \in Clients /\ Asks(k)
      [] p = "greet" -> k \in Guests /\ Greet!Asks(k)
      [] p = "local" -> k \in Locals /\ Local!Asks(k)
      [] p = "datagram" -> Gram!Asks
      [] p = "telnet" -> Telnet!Asks
      [] OTHER -> FALSE

ServedIn(p, k) ==
    CASE p = "upload" -> k \in Clients => Served(k)
      [] p = "greet" -> Greet!Served(k)
      [] p = "local" -> Local!Served(k)
      [] p = "datagram" -> Gram!Served
      [] p = "telnet" -> Telnet!Served
      [] OTHER -> TRUE

ConnectionsEnd == \A k \in Two : AsksIn(program, k) ~> ServedIn(program, k)
===============================================================================
