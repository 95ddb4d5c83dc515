--------------------------- MODULE ConnectionsProofs ---------------------------
(***************************************************************************)
(* The small servers answer the right peer, for any number of runs,        *)
(* clients and datagrams, whoever is killed and whatever the network does; *)
(* the telnet client prints what it was sent; the buffer of the select     *)
(* server relays whole texts, whatever its size; and the length of the     *)
(* pieces to lock is ignored.                                              *)
(***************************************************************************)
EXTENDS MCConnections, FileTransferProofs, FiniteSetTheorems, SequenceTheorems, WellFoundedInduction, TLAPS

-----------------------------------------------------------------------------
(* UnixSocketsForIPC.c. *)

LocalTypes ==
    /\ path \in Servers \union {NoServer}
    /\ run \in [Servers -> {"socket", "bind", "listen", "accept", "close", "failed",
                            "killed"}]
    /\ local \in [Locals -> {"off", "queued", "open", "closed", "refused"}]
    /\ backlogged \in Seq(Locals)

\* The file at the path is never of a run that has not bound it yet.
LocalIInv ==
    /\ LocalTypes
    /\ Local!PathOwned
    /\ \A s \in Servers : run[s] \in {"socket", "bind"} => path # s

LEMMA LocalSteps ==
  ASSUME [ConnNext]_connVars
  PROVE  Local!Next \/ UNCHANGED localVars
  BY DEF ConnNext, MainStep, StepOf, Optional, Ended, Only, connVars, Local!Next

LEMMA LocalInitIInv == ConnInit => LocalIInv
  <1> SUFFICES ASSUME Local!Init PROVE LocalIInv
    BY DEF ConnInit
  <1> QED
    BY LocalAssumption DEF Local!Init, LocalIInv, LocalTypes, Local!PathOwned

LEMMA LocalServerIInv ==
  ASSUME LocalIInv, NEW s \in Servers, Local!Server(s)
  PROVE  LocalIInv'
  <1> USE LocalAssumption DEF LocalIInv, LocalTypes, Local!PathOwned, Local!RunTo, Local!Listening
  <1>1. CASE Local!Socket(s)
    BY <1>1 DEF Local!Socket
  <1>2. CASE Local!Bind(s)
    BY <1>2 DEF Local!Bind
  <1>3. CASE Local!Listen(s)
    BY <1>3 DEF Local!Listen
  <1>4. CASE Local!Accept(s)
    <2>1. Head(backlogged) \in Locals /\ Tail(backlogged) \in Seq(Locals)
      BY <1>4, HeadTailProperties DEF Local!Accept
    <2> QED
      BY <1>4, <2>1 DEF Local!Accept
  <1>5. CASE Local!Close(s)
    BY <1>5 DEF Local!Close
  <1>6. CASE Local!Fails(s)
    BY <1>6 DEF Local!Fails
  <1> QED
    BY <1>1, <1>2, <1>3, <1>4, <1>5, <1>6 DEF Local!Server

LEMMA LocalKillIInv ==
  ASSUME LocalIInv, NEW s \in Servers, Local!Kill(s)
  PROVE  LocalIInv'
  <1> USE LocalAssumption DEF LocalIInv, LocalTypes, Local!Listening
  <1>1. /\ run' = [run EXCEPT ![s] = "killed"] /\ path' = path
        /\ run'[s] = "killed" /\ \A t \in Servers : t # s => run'[t] = run[t]
    BY DEF Local!Kill, Local!RunTo
  <1>2. LocalTypes' /\ \A k \in Locals : local'[k] \in {"queued", "open"} => local'[k] = local[k]
    <2>1. CASE path = s
      BY <1>1, <2>1 DEF Local!Kill
    <2>2. CASE path # s
      BY <1>1, <2>2 DEF Local!Kill
    <2> QED
      BY <2>1, <2>2
  <1>3. (\E k \in Locals : local'[k] \in {"queued", "open"}) =>
           \E t \in Servers : path' = t /\ run'[t] \in {"accept", "close"}
    <2>1. CASE path = s
      BY <1>1, <2>1 DEF Local!Kill
    <2>2. CASE path # s
      BY <1>1, <1>2, <2>2 DEF Local!PathOwned
    <2> QED
      BY <2>1, <2>2
  <1> QED
    BY <1>1, <1>2, <1>3 DEF Local!PathOwned

LEMMA LocalConnectIInv ==
  ASSUME LocalIInv, NEW k \in Locals, Local!Connect(k)
  PROVE  LocalIInv'
  <1> USE LocalAssumption DEF LocalIInv, LocalTypes, Local!PathOwned, Local!Listening
  <1>1. UNCHANGED <<path, run>>
    BY DEF Local!Connect
  <1>2. CASE \E s \in Servers : Local!Listening(s)
    <2>1. /\ Len(backlogged) < QueueLen
          /\ local' = [local EXCEPT ![k] = "queued"]
          /\ backlogged' = Append(backlogged, k)
      BY <1>2 DEF Local!Connect
    <2>2. backlogged' \in Seq(Locals) /\ Len(backlogged') = Len(backlogged) + 1
      BY <2>1, AppendProperties
    <2>3. LocalTypes'
      BY <1>1, <2>1, <2>2
    <2> QED
      BY <1>1, <1>2, <2>3
  <1>3. CASE ~\E s \in Servers : Local!Listening(s)
    BY <1>1, <1>3 DEF Local!Connect
  <1> QED
    BY <1>2, <1>3

LEMMA LocalStepIInv == LocalIInv /\ [ConnNext]_connVars => LocalIInv'
  <1> SUFFICES ASSUME LocalIInv, [ConnNext]_connVars PROVE LocalIInv'
    OBVIOUS
  <1>1. CASE Local!Next
    BY <1>1, LocalServerIInv, LocalKillIInv, LocalConnectIInv DEF Local!Next
  <1>2. CASE UNCHANGED localVars
    BY <1>2 DEF localVars, LocalIInv, LocalTypes, Local!PathOwned, Local!Listening
  <1> QED
    BY <1>1, <1>2, LocalSteps

\* However many runs of the server are started and killed, the run that listens
\* owns the path, and nobody is in a queue or connected unless a server listens;
\* a run that fails or is killed takes neither from the one that serves.
THEOREM PathCorrect == ConnSpec => []PathOwned
  <1>1. LocalIInv => PathOwned
    BY DEF LocalIInv, PathOwned
  <1> QED
    BY <1>1, LocalInitIInv, LocalStepIInv, PTL DEF ConnSpec

-----------------------------------------------------------------------------
(* UnixStreamSocketServer.c. *)

GreetTypes ==
    /\ server \in {"address", "listen", "accept", "fork", "return", "ended", "failed"}
    /\ helper \in {"none", "close", "send", "return", "zombie", "gone"}
    /\ waiting \in Seq(Guests)
    /\ accepted \subseteq Guests /\ greeted \subseteq accepted
    /\ guest \in [Guests -> {"off", "recv", "closed", "printed", "empty", "refused",
                             "reset", "killed"}]

\* How far parent and child are, and what that says of the connection.
GreetServer ==
    /\ server \in {"address", "listen", "accept", "failed"} => accepted = {}
    /\ server \in {"fork", "return", "ended"} => \E k \in Guests : accepted = {k}
    /\ helper # "none" => server \in {"return", "ended"}
    /\ greeted # {} => helper \in {"return", "zombie", "gone"}
    /\ helper \in {"return", "zombie", "gone"} =>
         greeted = accepted \/ \A k \in accepted : guest[k] = "killed"

\* Whom a guest can meet; nobody gets into a queue before listen().
GreetGuest(k) ==
    /\ server \in {"address", "listen", "failed"} =>
         guest[k] \in {"off", "closed", "refused"}
    /\ guest[k] = "empty" => server = "ended" /\ helper = "none"
    /\ guest[k] = "recv" /\ server = "ended" /\ helper # "close" => k \in accepted
    /\ guest[k] = "reset" => server = "ended" /\ helper # "close" /\ k \notin accepted

GreetIInv == GreetTypes /\ GreetServer /\ \A k \in Guests : GreetGuest(k)

LEMMA GreetSteps ==
  ASSUME [ConnNext]_connVars
  PROVE  Greet!Next \/ UNCHANGED greetingVars
  BY DEF ConnNext, MainStep, StepOf, Optional, Ended, Only, connVars, Greet!Next

LEMMA GreetInitIInv == ConnInit => GreetIInv
  <1> SUFFICES ASSUME Greet!Init PROVE GreetIInv
    BY DEF ConnInit
  <1> QED
    BY DEF Greet!Init, GreetIInv, GreetTypes, GreetServer, GreetGuest

\* Who holds the listening socket, in terms of where the processes are.
LEMMA GreetListeners ==
  /\ Greet!Listeners = {} <=> server \notin {"accept", "fork", "return"} /\ helper # "close"
  /\ (Greet!Listeners = {})' <=>
        (server' \notin {"accept", "fork", "return"} /\ helper' # "close")
  <1>1. Greet!Listeners = {} <=> server \notin {"accept", "fork", "return"} /\ helper # "close"
    BY DEF Greet!Listeners
  <1>2. (Greet!Listeners = {})' <=>
           (server' \notin {"accept", "fork", "return"} /\ helper' # "close")
    BY DEF Greet!Listeners
  <1> QED
    BY <1>1, <1>2

\* The calls before anybody is accepted, and those of a guest.
LEMMA GreetProcessIInv ==
  ASSUME GreetIInv, Greet!Process
  PROVE  GreetIInv'
  <1> USE DEF GreetIInv
  <1>1. CASE Greet!NextAddress \/ Greet!Bind \/ Greet!SetUpFails \/ Greet!Listen
    BY <1>1 DEF Greet!NextAddress, Greet!Bind, Greet!SetUpFails, Greet!Listen,
                GreetTypes, GreetServer, GreetGuest
  <1>2. CASE Greet!Accept
    <2>1. Head(waiting) \in Guests /\ Tail(waiting) \in Seq(Guests)
      BY <1>2, HeadTailProperties DEF Greet!Accept, GreetTypes
    <2> QED
      BY <1>2, <2>1 DEF Greet!Accept, GreetTypes, GreetServer, GreetGuest
  <1>3. CASE Greet!Fork \/ Greet!ForkFails
    BY <1>3 DEF Greet!Fork, Greet!ForkFails, GreetTypes, GreetServer, GreetGuest
  <1>4. CASE Greet!Return
    <2>1. /\ server = "return" /\ server' = "ended"
          /\ helper' = IF helper = "zombie" THEN "gone" ELSE helper
          /\ UNCHANGED <<accepted, greeted>>
          /\ IF helper' = "close" THEN UNCHANGED <<waiting, guest>>
             ELSE /\ waiting' = <<>>
                  /\ guest' = [k \in Guests |->
                       IF guest[k] = "recv" /\ k \notin accepted THEN "reset" ELSE guest[k]]
      BY <1>4, GreetListeners DEF Greet!Return, Greet!CloseListener
    <2>2. GreetTypes'
      <3>1. waiting' = waiting \/ waiting' = <<>>
        BY <2>1
      <3>2. guest' \in [Guests -> {"off", "recv", "closed", "printed", "empty", "refused",
                                   "reset", "killed"}]
        BY <2>1 DEF GreetTypes
      <3>3. waiting \in Seq(Guests) /\ <<>> \in Seq(Guests)
        BY DEF GreetTypes
      <3>4. waiting' \in Seq(Guests)
        BY <3>1, <3>3
      <3> QED
        BY <2>1, <3>2, <3>4 DEF GreetTypes
    <2>3. GreetServer'
      BY <2>1 DEF GreetTypes, GreetServer
    <2>4. ASSUME NEW k \in Guests PROVE GreetGuest(k)'
      BY <2>1 DEF GreetTypes, GreetGuest
    <2> QED
      BY <2>2, <2>3, <2>4
  <1>5. CASE Greet!HelperClose
    <2>1. /\ helper = "close" /\ helper' = "send"
          /\ UNCHANGED <<server, accepted, greeted>>
          /\ IF server = "return" THEN UNCHANGED <<waiting, guest>>
             ELSE /\ waiting' = <<>>
                  /\ guest' = [k \in Guests |->
                       IF guest[k] = "recv" /\ k \notin accepted THEN "reset" ELSE guest[k]]
      BY <1>5, GreetListeners DEF Greet!HelperClose, Greet!CloseListener, GreetServer
    <2>2. GreetTypes'
      <3>1. waiting' = waiting \/ waiting' = <<>>
        BY <2>1
      <3>2. guest' \in [Guests -> {"off", "recv", "closed", "printed", "empty", "refused",
                                   "reset", "killed"}]
        BY <2>1 DEF GreetTypes
      <3>3. waiting \in Seq(Guests) /\ <<>> \in Seq(Guests)
        BY DEF GreetTypes
      <3>4. waiting' \in Seq(Guests)
        BY <3>1, <3>3
      <3> QED
        BY <2>1, <3>2, <3>4 DEF GreetTypes
    <2>3. GreetServer'
      BY <2>1 DEF GreetTypes, GreetServer
    <2>4. ASSUME NEW k \in Guests PROVE GreetGuest(k)'
      BY <2>1 DEF GreetTypes, GreetServer, GreetGuest
    <2> QED
      BY <2>2, <2>3, <2>4
  <1>6. CASE Greet!Reap \/ Greet!HelperSend \/ Greet!HelperReturn
    BY <1>6 DEF Greet!Reap, Greet!HelperSend, Greet!HelperReturn, GreetTypes, GreetServer,
                GreetGuest
  <1> QED
    BY <1>1, <1>2, <1>3, <1>4, <1>5, <1>6 DEF Greet!Process

LEMMA GreetGuestIInv ==
  ASSUME GreetIInv, NEW k \in Guests,
         \/ Greet!Connect(k) \/ Greet!NoSocket(k) \/ Greet!KillGuest(k) \/ Greet!Guest(k)
  PROVE  GreetIInv'
  <1> USE DEF GreetIInv
  <1>1. UNCHANGED <<server, helper, accepted, greeted>>
    BY DEF Greet!Connect, Greet!NoSocket, Greet!KillGuest, Greet!Guest, Greet!RecvClosed,
           Greet!Recv, Greet!serverVars
  <1>2. waiting' \in Seq(Guests)
    BY AppendProperties
    DEF Greet!Connect, Greet!NoSocket, Greet!KillGuest, Greet!Guest, Greet!RecvClosed,
        Greet!Recv, Greet!serverVars, GreetTypes
  <1>3. PICK state : guest' = [guest EXCEPT ![k] = state] /\
          \/ state \in {"closed", "refused"} /\ guest[k] \in {"off", "closed"}
          \/ state = "recv" /\ guest[k] = "off" /\ Greet!Listeners # {}
          \/ state = "killed" /\ guest[k] = "recv"
          \/ state = "printed" /\ guest[k] = "recv" /\ k \in greeted
          \/ /\ state = "empty" /\ guest[k] = "recv" /\ k \in accepted /\ k \notin greeted
             /\ server \notin {"fork", "return"} /\ helper \notin {"close", "send"}
    <2>1. Greet!Holders = {} =>
            server \notin {"fork", "return"} /\ helper \notin {"close", "send"}
      BY DEF Greet!Holders
    <2>2. CASE Greet!Recv(k)
      BY <2>1, <2>2 DEF Greet!Recv, Greet!GuestTo
    <2>3. CASE Greet!Connect(k)
      BY <2>3 DEF Greet!Connect, Greet!GuestTo
    <2>4. CASE Greet!NoSocket(k) \/ Greet!KillGuest(k) \/ Greet!RecvClosed(k)
      BY <2>4 DEF Greet!NoSocket, Greet!KillGuest, Greet!RecvClosed, Greet!GuestTo
    <2> QED
      BY <2>2, <2>3, <2>4 DEF Greet!Guest
  <1>4. guest'[k] = state /\ \A g \in Guests : g # k => guest'[g] = guest[g]
    BY <1>3 DEF GreetTypes
  <1>5. state = "recv" => server \in {"accept", "fork", "return"} \/ helper = "close"
    BY <1>3, GreetListeners
  <1>6. state = "empty" => server = "ended" /\ helper = "none"
    BY <1>3 DEF GreetTypes, GreetServer
  <1>7. GreetTypes'
    BY <1>1, <1>2, <1>3 DEF GreetTypes
  <1>8. GreetServer'
    BY <1>1, <1>3, <1>4 DEF GreetTypes, GreetServer
  <1>9. ASSUME NEW g \in Guests PROVE GreetGuest(g)'
    <2>1. CASE g = k
      BY <1>1, <1>3, <1>4, <1>5, <1>6, <2>1 DEF GreetTypes, GreetServer, GreetGuest
    <2>2. CASE g # k
      BY <1>1, <1>4, <2>2 DEF GreetGuest
    <2> QED
      BY <2>1, <2>2
  <1> QED
    BY <1>7, <1>8, <1>9

LEMMA GreetStepIInv == GreetIInv /\ [ConnNext]_connVars => GreetIInv'
  <1> SUFFICES ASSUME GreetIInv, [ConnNext]_connVars PROVE GreetIInv'
    OBVIOUS
  <1>1. CASE Greet!Next
    BY <1>1, GreetProcessIInv, GreetGuestIInv DEF Greet!Next
  <1>2. CASE UNCHANGED greetingVars
    BY <1>2 DEF greetingVars, GreetIInv, GreetTypes, GreetServer, GreetGuest
  <1> QED
    BY <1>1, <1>2, GreetSteps

LEMMA GreetImplies == GreetIInv => Greet!RightGuest
  <1> SUFFICES ASSUME GreetIInv PROVE Greet!RightGuest
    OBVIOUS
  <1> USE DEF GreetIInv
  <1>1. ASSUME NEW k \in Guests
        PROVE  /\ guest[k] = "empty" => helper = "none" /\ greeted = {}
               /\ guest[k] = "recv" /\ Greet!Listeners = {} => k \in accepted
               /\ guest[k] = "reset" => Greet!Listeners = {} /\ k \notin accepted
               /\ k \in greeted => helper \in {"return", "zombie", "gone"}
    BY GreetListeners DEF GreetTypes, GreetServer, GreetGuest
  <1> QED
    BY <1>1 DEF Greet!RightGuest, GreetTypes

-----------------------------------------------------------------------------
(* UnixDatagramSocketServer.c. *)

Sent(d) == d \in Senders \X Lengths /\ sender[d[1]] = "sent"

\* What is on its way or in the socket was sent, and what the receiver knows of
\* the one datagram it takes.
GramIInv ==
    /\ receiver \in {"bind", "recv", "print", "terminate", "ended", "failed"}
    /\ sender \in [Senders -> {"off", "sent", "failed"}]
    /\ \A d \in flight : Sent(d)
    /\ arrived \in Seq(Senders \X Lengths)
    /\ \A p \in 1..Len(arrived) : Sent(arrived[p])
    /\ byteTotal \in Nat /\ byteTotal < MaxBytes
    /\ zeroAt \in Nat
    /\ receiver \in {"bind", "recv", "failed", "print"} => report = <<>>
    /\ receiver \in {"print", "terminate"} => zeroAt >= byteTotal
    /\ receiver \in {"print", "terminate", "ended"} =>
         \E s \in Senders : sender[s] = "sent" /\ text = <<s, byteTotal>>
    /\ report # <<>> =>
         report[1] \in Senders /\ text = <<report[1], byteTotal>> /\ report[2] >= byteTotal
    /\ receiver = "ended" => zeroAt = byteTotal

LEMMA GramSteps ==
  ASSUME [ConnNext]_connVars
  PROVE  Gram!Next \/ UNCHANGED datagramVars
  BY DEF ConnNext, MainStep, StepOf, Optional, Ended, Only, connVars, Gram!Next

LEMMA GramInitIInv == ConnInit => GramIInv
  <1> SUFFICES ASSUME Gram!Init PROVE GramIInv
    BY DEF ConnInit
  <1>1. <<>> \in Seq(Senders \X Lengths) /\ Len(<<>>) = 0
    OBVIOUS
  <1> QED
    BY <1>1, DatagramAssumption DEF Gram!Init, GramIInv

LEMMA GramSenderIInv ==
  ASSUME GramIInv, NEW s \in Senders, Gram!SendTo(s) \/ Gram!SendFails(s)
  PROVE  GramIInv'
  <1> USE DatagramAssumption DEF GramIInv
  <1>1. /\ UNCHANGED <<receiver, arrived, byteTotal, text, zeroAt, report>>
        /\ sender[s] = "off"
        /\ sender' \in [Senders -> {"off", "sent", "failed"}]
        /\ \A t \in Senders : sender[t] = "sent" => sender'[t] = "sent"
    BY DEF Gram!SendTo, Gram!SendFails
  <1>2. \A d : Sent(d) => Sent(d)'
    BY <1>1 DEF Sent
  <1>3. \A d \in flight' : Sent(d)'
    BY <1>2 DEF Gram!SendTo, Gram!SendFails, Sent
  <1>4. \A p \in 1..Len(arrived') : Sent(arrived[p])'
    BY <1>1, <1>2
  <1> QED
    BY <1>1, <1>3, <1>4

LEMMA GramArriveIInv ==
  ASSUME GramIInv, NEW d \in Gram!Datagrams, Gram!Arrive(d)
  PROVE  GramIInv'
  <1> USE DatagramAssumption DEF GramIInv
  <1>1. /\ UNCHANGED <<receiver, sender, byteTotal, text, zeroAt, report>>
        /\ flight' \subseteq flight
        /\ arrived' = arrived \/ arrived' = Append(arrived, d)
        /\ Sent(d)
    BY DEF Gram!Arrive
  <1>2. \A e : Sent(e) => Sent(e)'
    BY <1>1 DEF Sent
  <1>3. arrived' \in Seq(Senders \X Lengths)
    BY <1>1, AppendProperties DEF Sent
  <1>4. ASSUME NEW p \in 1..Len(arrived') PROVE Sent(arrived'[p])
    BY <1>1, AppendProperties, SMTT(60) DEF Sent
  <1>5. \A p \in 1..Len(arrived') : Sent(arrived[p])'
    BY <1>1, <1>4 DEF Sent
  <1> QED
    BY <1>1, <1>2, <1>3, <1>5

LEMMA GramReceiverIInv ==
  ASSUME GramIInv, Gram!Receiver
  PROVE  GramIInv'
  <1> USE DatagramAssumption DEF GramIInv
  <1>1. CASE Gram!Bind
    BY <1>1 DEF Gram!Bind, Sent
  <1>2. CASE Gram!RecvFrom
    <2>1. /\ Sent(Head(arrived)) /\ Head(arrived) \in Senders \X Lengths
          /\ Tail(arrived) \in Seq(Senders \X Lengths)
          /\ Len(Tail(arrived)) = Len(arrived) - 1
          /\ \A p \in 1..Len(Tail(arrived)) : Tail(arrived)[p] = arrived[p + 1]
      BY <1>2, HeadTailProperties DEF Gram!RecvFrom
    <2>2. byteTotal' \in Nat /\ byteTotal' < MaxBytes
      <3>1. Head(arrived)[2] \in Nat
        BY <2>1
      <3> QED
        BY <1>2, <3>1 DEF Gram!RecvFrom, Gram!Cut
    <2>3. zeroAt' \in Nat /\ zeroAt' >= byteTotal'
      BY <1>2, <2>2 DEF Gram!RecvFrom
    <2>4. text' = <<Head(arrived)[1], byteTotal'>> /\ Head(arrived)[1] \in Senders
      BY <1>2, <2>1 DEF Gram!RecvFrom
    <2>5. /\ UNCHANGED <<sender, flight, report>> /\ report = <<>> /\ receiver' = "print"
          /\ arrived' = Tail(arrived)
      BY <1>2 DEF Gram!RecvFrom
    <2>6. \A p \in 1..Len(arrived') : Sent(arrived[p])'
      BY <2>1, <2>5 DEF Sent
    <2>7. \A e \in flight' : Sent(e)'
      BY <2>5 DEF Sent
    <2>8. sender'[Head(arrived)[1]] = "sent"
      BY <2>1, <2>5 DEF Sent
    <2> QED
      BY <2>1, <2>2, <2>3, <2>4, <2>5, <2>6, <2>7, <2>8
  <1>3. CASE Gram!PrintText
    BY <1>3 DEF Gram!PrintText, Sent
  <1>4. CASE Gram!Terminate
    BY <1>4 DEF Gram!Terminate, Sent
  <1> QED
    BY <1>1, <1>2, <1>3, <1>4 DEF Gram!Receiver

LEMMA GramStepIInv == GramIInv /\ [ConnNext]_connVars => GramIInv'
  <1> SUFFICES ASSUME GramIInv, [ConnNext]_connVars PROVE GramIInv'
    OBVIOUS
  <1>1. CASE Gram!Next
    BY <1>1, GramSenderIInv, GramArriveIInv, GramReceiverIInv DEF Gram!Next
  <1>2. CASE UNCHANGED datagramVars
    BY <1>2 DEF datagramVars, GramIInv, Sent
  <1> QED
    BY <1>1, <1>2, GramSteps

LEMMA GramImplies == GramIInv => Gram!OnePrinted
  BY DEF GramIInv, Gram!OnePrinted

\* Only a guest that was accepted is greeted, none is left behind, and an empty message
\* means a failed fork(); one datagram is printed, of a sender that sent it, whole
\* as far as the buffer goes: for every number of guests, senders and lengths.
THEOREM AnswerCorrect == ConnSpec => []RightAnswer
  <1>1. GreetIInv /\ GramIInv => RightAnswer
    BY GreetImplies, GramImplies DEF RightAnswer
  <1> QED
    BY <1>1, GreetInitIInv, GreetStepIInv, GramInitIInv, GramStepIInv, PTL DEF ConnSpec
-----------------------------------------------------------------------------
(* UnixTelnetClient.c. *)

Printed == screen \o stdio

TelnetTypes ==
    /\ process \in {"running", "failed", "disconnected", "killed"}
    /\ writer \in {"connect", "create", "fgets", "send", "exit"}
    /\ reader \in {"none", "recv", "exit"}
    /\ socketFd \in {"none", "open", "closed"}
    /\ remote \in {"up", "fin"} /\ reset \in {"no", "pending", "told"}
    /\ typed \in Nat /\ line \in Nat /\ delivered \in Seq(Int)
    /\ served \in Seq(Int) /\ inbound \in Seq(Int)
    /\ stdio \in Seq(Int) /\ screen \in Seq(Int)

\* The line in buf is the first that was not sent.
TelnetLines ==
    /\ \A k \in 1..Len(delivered) : delivered[k] = k
    /\ Len(delivered) <= typed
    /\ writer \in {"connect", "create", "fgets"} => Len(delivered) = typed
    /\ writer = "send" =>
         IF line = 0 THEN Len(delivered) = typed
         ELSE line = typed /\ typed = Len(delivered) + 1

\* Why a thread gives up, and what the process ends of.
TelnetControl ==
    /\ socketFd = "none" => writer \in {"connect", "exit"}
    /\ writer = "connect" => socketFd = "none"
    /\ writer \in {"connect", "create"} => reader = "none"
    /\ reader = "none" => writer \in {"connect", "create", "exit"}
    /\ writer = "exit" => socketFd # "open" \/ reader = "none" \/ reset # "no"
    /\ reader = "exit" =>
         socketFd # "open" \/ reset # "no" \/ Len(served) >= BufferBytes
    /\ reset = "told" => writer = "exit" \/ reader = "exit"
    /\ wild => Len(served) >= BufferBytes
    /\ Len(inbound) <= Len(served)
    /\ process # "running" =>
         \/ socketFd # "open" \/ reader = "none"
         \/ remote = "fin" \/ reset # "no"
         \/ Len(served) >= BufferBytes
    /\ process = "disconnected" => socketFd = "open" /\ (remote = "up" => writer = "exit")

\* What was printed, what is still to be read and what a reset has destroyed are
\* together what the server has sent.  Only a reset before the end of the
\* connection destroys anything.
Accounts(printed, unread) ==
    \E lost \in Seq(Int) :
        /\ printed \o (unread \o lost) = Telnet!Shown
        /\ lost = <<>> \/ (remote = "up" /\ reset # "no")

TelnetOutput ==
    /\ socketFd = "none" =>
         screen = <<>> /\ stdio = <<>> /\ served = <<>> /\ inbound = <<>>
    /\ (socketFd # "none" /\ process # "disconnected" /\ Telnet!Plain) =>
         Accounts(Printed, inbound)
    /\ process = "disconnected" =>
         /\ screen # <<>> /\ Telnet!Last(screen) = Telnet!Notice
         /\ Telnet!Plain => Accounts(Telnet!Front(screen), <<>>)

TelnetIInv == TelnetTypes /\ TelnetLines /\ TelnetControl /\ TelnetOutput

LEMMA TelnetSteps ==
  ASSUME [ConnNext]_connVars
  PROVE  Telnet!Next \/ UNCHANGED telnetVars
  BY DEF ConnNext, MainStep, StepOf, Optional, Ended, Only, connVars, Telnet!Next

LEMMA TelnetInitIInv == ConnInit => TelnetIInv
  <1> SUFFICES ASSUME Telnet!Init PROVE TelnetIInv
    BY DEF ConnInit
  <1>1. <<>> \in Seq(Int) /\ Len(<<>>) = 0
    OBVIOUS
  <1> QED
    BY <1>1
    DEF Telnet!Init, TelnetIInv, TelnetTypes, TelnetLines, TelnetControl, TelnetOutput

\* Concatenation is associative; the sequences here are of integers.
LEMMA Associative == \A s, t, u \in Seq(Int) : (s \o t) \o u = s \o (t \o u)
  BY ConcatAssociative, SMTT(60)

\* A sequence is a prefix of what it is continued to.
LEMMA PrefixOfConcat ==
  ASSUME NEW s \in Seq(Int), NEW t \in Seq(Int)
  PROVE  Telnet!IsPrefix(s, s \o t)
  <1>1. s \o t \in Seq(Int) /\ Len(s \o t) = Len(s) + Len(t)
    BY ConcatProperties
  <1>2. Len(s) \in Nat /\ Len(t) \in Nat
    BY LenProperties
  <1>3. SubSeq(s, 1, Len(s)) = SubSeq(s \o t, 1, Len(s))
    <2>1. CASE Len(s) = 0
      BY <2>1, SubSeqEmpty
    <2>2. CASE Len(s) # 0
      <3>1. 1 \in 1..Len(s) /\ Len(s) \in 1..Len(s)
        BY <1>2, <2>2
      <3> QED
        BY <3>1, SubSeqOfConcat1
    <2> QED
      BY <2>1, <2>2
  <1> QED
    BY <1>1, <1>2, <1>3 DEF Telnet!IsPrefix

\* What printf("%s") shows of some bytes.
LEMMA TextOf ==
  ASSUME NEW S, NEW bytes \in Seq(S)
  PROVE  /\ Telnet!Text(bytes) \in Seq(S)
         /\ ~Telnet!Contains(bytes, 0) => Telnet!Text(bytes) = bytes
  <1>1. CASE ~Telnet!Contains(bytes, 0)
    BY <1>1 DEF Telnet!Text, Telnet!Nul
  <1>2. CASE Telnet!Contains(bytes, 0)
    <2> DEFINE zeros == {k \in 1..Len(bytes) : bytes[k] = 0}
    <2>1. PICK m \in zeros : \A k \in zeros : m <= k
      <3> DEFINE R == {ss \in Nat \X Nat : ss[1] < ss[2]}
      <3>1. IsWellFoundedOn(R, Nat)
        BY NatLessThanWellFounded DEF OpToRel
      <3>2. zeros # {} /\ zeros \subseteq Nat
        BY <1>2 DEF Telnet!Contains
      <3> HIDE DEF R, zeros
      <3>3. PICK m \in zeros : \A k \in zeros : ~(<<k, m>> \in R)
        BY <3>1, <3>2, WFMin
      <3>4. ASSUME NEW k \in zeros PROVE m <= k
        <4>1. k \in Nat /\ m \in Nat /\ ~(<<k, m>> \in R)
          BY <3>2, <3>3
        <4> QED
          BY <4>1 DEF R
      <3> QED
        BY <3>3, <3>4
    <2>2. Telnet!Min(zeros) \in zeros
      BY <2>1 DEF Telnet!Min
    <2>3. Telnet!Text(bytes) = SubSeq(bytes, 1, Telnet!Min(zeros) - 1)
      BY <1>2, <2>1 DEF Telnet!Text, Telnet!SelectInSeq, Telnet!Nul
    <2>4. /\ Telnet!Min(zeros) - 1 \in Int
          /\ \A k \in 1..(Telnet!Min(zeros) - 1) : bytes[k] \in S
      <3> HIDE DEF zeros
      <3>1. Telnet!Min(zeros) \in 1..Len(bytes)
        BY <2>2 DEF zeros
      <3> QED
        BY <3>1, LenProperties, ElementOfSeq
    <2>5. SubSeq(bytes, 1, Telnet!Min(zeros) - 1) \in Seq(S)
      BY <2>4, SubSeqProperties
    <2> QED
      BY <1>2, <2>3, <2>5
  <1> QED
    BY <1>1, <1>2

\* printf() adds to what was printed, whether the stream writes now or later.
LEMMA PrintfAdds ==
  ASSUME TelnetTypes, NEW bytes \in Seq(Int), Telnet!Printf(bytes)
  PROVE  /\ screen' \in Seq(Int) /\ stdio' \in Seq(Int)
         /\ Printed' = Printed \o bytes
  <1>1. screen \in Seq(Int) /\ stdio \in Seq(Int) /\ Printed \in Seq(Int)
    BY ConcatProperties DEF TelnetTypes, Printed
  <1>2. CASE screen' = screen \o stdio \o bytes /\ stdio' = <<>>
    <2>1. (screen \o stdio) \o bytes \in Seq(Int)
      BY <1>1, ConcatProperties DEF Printed
    <2>2. ((screen \o stdio) \o bytes) \o <<>> = (screen \o stdio) \o bytes
      BY <2>1, ConcatEmptySeq
    <2> QED
      BY <1>2, <2>1, <2>2, EmptySeq DEF Printed
  <1>3. CASE stdio' = stdio \o bytes /\ UNCHANGED screen
    <2>1. stdio \o bytes \in Seq(Int)
      BY <1>1, ConcatProperties
    <2>2. (screen \o stdio) \o bytes = screen \o (stdio \o bytes)
      BY <1>1, ConcatAssociative, SMTT(60)
    <2> QED
      BY <1>1, <1>3, <2>1, <2>2 DEF Printed
  <1> QED
    BY <1>2, <1>3 DEF Telnet!Printf


\* What was shown is a sequence.
LEMMA ShownIsSeq ==
  ASSUME TelnetTypes
  PROVE  /\ Telnet!Shown \in Seq(Int)
         /\ Telnet!Shown = <<-1>> \o served /\ <<-1>> \in Seq(Int) /\ Len(<<-1>>) = 1
  <1>1. <<-1>> \in Seq(Int) /\ Len(<<-1>>) = 1
    OBVIOUS
  <1> QED
    BY <1>1, ConcatProperties DEF Telnet!Shown, Telnet!Connected, TelnetTypes

\* The steps that change neither what was sent nor what was printed.
LEMMA OutputKept ==
  ASSUME TelnetIInv,
         UNCHANGED <<process, socketFd, remote, served, inbound, stdio, screen>>,
         reset' = reset \/ (reset # "no" /\ reset' # "no")
  PROVE  TelnetOutput'
  <1>1. Telnet!Plain' = Telnet!Plain /\ Telnet!Shown' = Telnet!Shown
    BY DEF Telnet!Plain, Telnet!Shown
  <1>2. \A printed, unread : Accounts(printed, unread) => Accounts(printed, unread)'
    BY <1>1 DEF Accounts
  <1> QED
    BY <1>1, <1>2 DEF TelnetIInv, TelnetOutput, Printed

\* A thread calls exit(): what is buffered is written.
LEMMA TelnetExitIInv ==
  ASSUME TelnetIInv, process = "running", Telnet!Exit,
         writer = "exit" \/ reader = "exit"
  PROVE  TelnetIInv'
  <1> USE DEF TelnetIInv
  <1>1. /\ process' = "failed" /\ screen' = screen \o stdio \o <<>> /\ stdio' = <<>>
        /\ UNCHANGED <<writer, reader, socketFd, wild, typed, line, delivered, remote, reset,
                       served, inbound>>
    BY DEF Telnet!Exit, Telnet!Ends, Telnet!Flush, Telnet!connection
  <1>2. Printed \in Seq(Int) /\ <<>> \in Seq(Int)
    BY ConcatProperties, EmptySeq DEF Printed, TelnetTypes
  <1>3. screen' = Printed /\ Printed' = Printed
    BY <1>1, <1>2, ConcatEmptySeq DEF Printed
  <1>4. TelnetTypes'
    BY <1>1, <1>2, <1>3 DEF TelnetTypes
  <1>5. TelnetLines' /\ TelnetControl'
    BY <1>1 DEF TelnetTypes, TelnetLines, TelnetControl
  <1>6. TelnetOutput'
    <2>1. Telnet!Plain' = Telnet!Plain /\ Telnet!Shown' = Telnet!Shown
      BY <1>1 DEF Telnet!Plain, Telnet!Shown
    <2>2. Accounts(Printed, inbound) => Accounts(Printed, inbound)'
      BY <1>1, <1>3, <2>1 DEF Accounts
    <2>3. socketFd = "none" => screen' = <<>>
      BY <1>1, <1>2, ConcatEmptySeq DEF TelnetOutput
    <2> QED
      BY <1>1, <2>1, <2>2, <2>3 DEF TelnetOutput
  <1> QED
    BY <1>4, <1>5, <1>6

\* connect(), which may fail, and "Successfully connected" all the same.
LEMMA TelnetConnectIInv ==
  ASSUME TelnetIInv, process = "running", Telnet!Connect
  PROVE  TelnetIInv'
  <1> USE DEF TelnetIInv
  <1>1. /\ writer = "connect" /\ writer' = "create" /\ socketFd' \in {"open", "closed"}
        /\ UNCHANGED <<process, reader, wild, typed, line, delivered, remote, reset, served,
                       inbound>>
        /\ Telnet!Printf(<<-1>>)
    BY DEF Telnet!Connect, Telnet!connection, Telnet!Connected
  <1>2. screen = <<>> /\ stdio = <<>> /\ served = <<>> /\ inbound = <<>>
    BY <1>1 DEF TelnetControl, TelnetOutput
  <1>3. <<-1>> \in Seq(Int) /\ <<>> \in Seq(Int)
    OBVIOUS
  <1>4. screen' \in Seq(Int) /\ stdio' \in Seq(Int) /\ Printed' = Printed \o <<-1>>
    BY <1>1, <1>3, PrintfAdds
  <1>5. Printed = <<>> /\ Printed' = <<-1>>
    BY <1>2, <1>3, <1>4, ConcatEmptySeq DEF Printed
  <1>6. TelnetTypes'
    BY <1>1, <1>4 DEF TelnetTypes
  <1>7. TelnetLines' /\ TelnetControl'
    BY <1>1 DEF TelnetTypes, TelnetLines, TelnetControl
  <1>8. Telnet!Shown' = <<-1>>
    BY <1>1, <1>2, <1>3, ConcatEmptySeq DEF Telnet!Shown, Telnet!Connected
  <1>9. <<-1>> \o (<<>> \o <<>>) = <<-1>>
    BY <1>3, ConcatEmptySeq
  <1>10. Accounts(Printed, inbound)'
    BY <1>1, <1>2, <1>3, <1>5, <1>8, <1>9 DEF Accounts
  <1>11. TelnetOutput'
    BY <1>1, <1>10 DEF TelnetOutput
  <1> QED
    BY <1>6, <1>7, <1>11

\* The other steps of the main thread print nothing.
LEMMA TelnetMainIInv ==
  ASSUME TelnetIInv, Telnet!MainThread
  PROVE  TelnetIInv'
  <1> USE DEF TelnetIInv
  <1>1. process = "running"
    BY DEF Telnet!MainThread
  <1>2. CASE Telnet!Connect
    BY <1>1, <1>2, TelnetConnectIInv
  <1>3. CASE writer = "exit" /\ Telnet!Exit
    BY <1>1, <1>3, TelnetExitIInv
  <1>4. CASE Telnet!NoSocket \/ Telnet!PthreadCreate
    <2>0. /\ writer \in {"connect", "create"} /\ reader = "none"
          /\ \/ writer' = "exit" /\ reader' = "none"
             \/ writer = "create" /\ writer' = "fgets" /\ reader' = "recv"
          /\ UNCHANGED <<process, socketFd, wild, typed, line, delivered, stdio, screen, remote,
                         reset, served, inbound>>
      BY <1>4 DEF Telnet!NoSocket, Telnet!PthreadCreate, Telnet!connection, TelnetControl
    <2>1. TelnetTypes' /\ TelnetLines' /\ TelnetControl'
      BY <1>1, <2>0 DEF TelnetTypes, TelnetLines, TelnetControl
    <2>2. TelnetOutput'
      BY <2>0, OutputKept
    <2> QED
      BY <2>1, <2>2
  <1>5. CASE Telnet!Fgets
    <2>1. TelnetTypes' /\ TelnetLines' /\ TelnetControl'
      BY <1>1, <1>5 DEF Telnet!Fgets, Telnet!connection, TelnetTypes, TelnetLines, TelnetControl
    <2>2. TelnetOutput'
      BY <1>5, OutputKept DEF Telnet!Fgets, Telnet!connection
    <2> QED
      BY <2>1, <2>2
  <1>6. CASE Telnet!Send
    <2>1. /\ writer = "send" /\ writer' = "fgets"
          /\ UNCHANGED <<process, reader, socketFd, wild, typed, line, stdio, screen, remote,
                         reset, served, inbound>>
          /\ delivered' = IF line = 0 THEN delivered ELSE Append(delivered, line)
      BY <1>6 DEF Telnet!Send, Telnet!connection
    <2>2. /\ delivered' \in Seq(Int) /\ Len(delivered') = typed
          /\ \A k \in 1..Len(delivered') : delivered'[k] = k
      <3>1. CASE line = 0
        BY <2>1, <3>1 DEF TelnetTypes, TelnetLines
      <3>2. CASE line # 0
        BY <2>1, <3>2, AppendProperties DEF TelnetTypes, TelnetLines
      <3> QED
        BY <3>1, <3>2
    <2>3. TelnetTypes'
      BY <2>1, <2>2 DEF TelnetTypes
    <2>4. TelnetLines'
      BY <2>1, <2>2 DEF TelnetTypes, TelnetLines
    <2>5. TelnetControl'
      BY <2>1, <2>2 DEF TelnetTypes, TelnetControl
    <2>6. TelnetOutput'
      BY <2>1, OutputKept
    <2> QED
      BY <2>3, <2>4, <2>5, <2>6
  <1>7. CASE Telnet!SendFails
    <2>1. TelnetTypes' /\ TelnetLines' /\ TelnetControl'
      BY <1>1, <1>7 DEF Telnet!SendFails, TelnetTypes, TelnetLines, TelnetControl
    <2>2. TelnetOutput'
      BY <1>7, OutputKept DEF Telnet!SendFails
    <2> QED
      BY <2>1, <2>2
  <1>8. CASE Telnet!SigPipe
    <2>1. /\ process' = "killed" /\ reset # "no"
          /\ UNCHANGED <<writer, reader, socketFd, wild, typed, line, delivered, stdio, screen,
                         remote, reset, served, inbound>>
      BY <1>8 DEF Telnet!SigPipe, Telnet!Ends, Telnet!connection
    <2>2. TelnetTypes' /\ TelnetLines' /\ TelnetControl'
      BY <1>1, <2>1 DEF TelnetTypes, TelnetLines, TelnetControl
    <2>3. TelnetOutput'
      BY <1>1, <2>1 DEF TelnetOutput, Accounts, Printed, Telnet!Plain, Telnet!Shown
    <2> QED
      BY <2>2, <2>3
  <1> QED
    BY <1>2, <1>3, <1>4, <1>5, <1>6, <1>7, <1>8 DEF Telnet!MainThread

\* recv() of n bytes: they go from what is unread to what is printed.
LEMMA TelnetRecvIInv ==
  ASSUME TelnetIInv, process = "running", NEW n \in 1..BufferBytes, Telnet!RecvBytes(n)
  PROVE  TelnetIInv'
  <1> USE TelnetAssumption DEF TelnetIInv
  <1> DEFINE first == SubSeq(inbound, 1, n)
             rest == SubSeq(inbound, n + 1, Len(inbound))
  <1>1. /\ reader = "recv" /\ socketFd = "open" /\ n <= Len(inbound) /\ n \in Nat
        /\ UNCHANGED <<process, writer, reader, socketFd, typed, line, delivered, remote, reset,
                       served>>
        /\ Telnet!Printf(Telnet!Text(first)) /\ inbound' = rest
        /\ wild' => n = BufferBytes
    <2>1. /\ reader = "recv" /\ socketFd = "open" /\ n <= Len(inbound)
          /\ Telnet!Printf(Telnet!Text(first)) /\ inbound' = rest
          /\ UNCHANGED <<process, writer, reader, socketFd, typed, line, delivered, remote, reset,
                         served>>
      BY DEF Telnet!RecvBytes
    <2>2. wild' => n = BufferBytes
      BY DEF Telnet!RecvBytes
    <2>3. n \in Nat
      OBVIOUS
    <2> QED
      BY <2>1, <2>2, <2>3
  <1>2. inbound \in Seq(Int) /\ Len(inbound) \in Nat
    BY LenProperties DEF TelnetTypes
  <1>3. /\ first \in Seq(Int) /\ rest \in Seq(Int) /\ Len(rest) = Len(inbound) - n
        /\ Len(first) = n /\ \A k \in 1..n : first[k] = inbound[k]
    <2>1. \A k \in 1..Len(inbound) : inbound[k] \in Int
      BY <1>2, ElementOfSeq
    <2>2. /\ first \in Seq(Int) /\ Len(first) = n
          /\ \A k \in 1..n : first[k] = inbound[k]
      <3>1. \A k \in 1..n : inbound[k] \in Int
        BY <1>1, <1>2, <2>1
      <3>2. /\ first \in Seq(Int) /\ Len(first) = IF 1 <= n THEN n - 1 + 1 ELSE 0
            /\ \A k \in 1..(n - 1 + 1) : first[k] = inbound[1 + k - 1]
        BY <3>1, SubSeqProperties
      <3> HIDE DEF first
      <3> QED
        BY <1>1, <3>2
    <2>3. rest \in Seq(Int) /\ Len(rest) = Len(inbound) - n
      <3>1. \A k \in (n + 1)..Len(inbound) : inbound[k] \in Int
        BY <1>1, <1>2, <2>1
      <3>2. rest \in Seq(Int)
            /\ Len(rest) = IF n + 1 <= Len(inbound) THEN Len(inbound) - (n + 1) + 1 ELSE 0
        BY <1>1, <1>2, <3>1, SubSeqProperties
      <3> HIDE DEF rest
      <3> QED
        BY <1>1, <1>2, <3>2
    <2> QED
      BY <2>2, <2>3
  <1>4. first \o rest = inbound
    <2>1. /\ 1 \in 1..(Len(inbound) + 1) /\ n \in (1 - 1)..Len(inbound)
          /\ Len(inbound) \in n..Len(inbound)
      BY <1>1, <1>2
    <2>2. first \o rest = SubSeq(inbound, 1, Len(inbound))
      BY <1>2, <2>1, ConcatAdjacentSubSeq
    <2> QED
      BY <1>2, <2>2, SubSeqFull
  <1> HIDE DEF first, rest
  <1>5. /\ Telnet!Text(first) \in Seq(Int)
        /\ ~Telnet!Contains(first, 0) => Telnet!Text(first) = first
    BY <1>3, TextOf
  <1>6. screen' \in Seq(Int) /\ stdio' \in Seq(Int) /\ Printed' = Printed \o Telnet!Text(first)
    BY <1>1, <1>5, PrintfAdds
  <1>7. TelnetTypes'
    BY <1>1, <1>3, <1>6 DEF TelnetTypes
  <1>8. TelnetLines'
    BY <1>1 DEF TelnetLines
  <1>9. TelnetControl'
    <2>1. Len(served) \in Nat /\ Len(inbound) <= Len(served)
      BY LenProperties DEF TelnetTypes, TelnetControl
    <2>2. Len(rest) <= Len(served) /\ (wild' => Len(served) >= BufferBytes)
      BY <1>1, <1>2, <1>3, <2>1
    <2> QED
      BY <1>1, <2>2 DEF TelnetControl
  <1>10. ASSUME Telnet!Plain PROVE Accounts(Printed, inbound)'
    <2>1. PICK lost \in Seq(Int) :
            /\ Printed \o (inbound \o lost) = Telnet!Shown
            /\ lost = <<>> \/ (remote = "up" /\ reset # "no")
      BY <1>1, <1>10 DEF TelnetOutput, Accounts
    <2>2. Printed \in Seq(Int) /\ inbound \o lost \in Seq(Int)
      BY <1>2, ConcatProperties DEF Printed, TelnetTypes
    <2>3. ~Telnet!Contains(first, 0)
      <3> SUFFICES ASSUME NEW k \in 1..n, first[k] = 0 PROVE FALSE
        BY <1>3 DEF Telnet!Contains
      <3>1. inbound[k] = 0 /\ k \in 1..Len(inbound)
        BY <1>1, <1>2, <1>3
      <3>2. (inbound \o lost)[k] = 0 /\ k \in 1..Len(inbound \o lost)
        BY <1>2, <3>1, ConcatProperties, LenProperties
      <3>3. Len(Printed) \in Nat /\ Len(inbound \o lost) \in Nat
        BY <2>2, LenProperties
      <3>4. /\ Len(Telnet!Shown) = Len(Printed) + Len(inbound \o lost)
            /\ Telnet!Shown[Len(Printed) + k] = 0
        <4>1. Len(Printed) + k \in 1..(Len(Printed) + Len(inbound \o lost))
              /\ ~(Len(Printed) + k <= Len(Printed)) /\ Len(Printed) + k - Len(Printed) = k
          BY <3>2, <3>3
        <4> QED
          BY <2>1, <2>2, <3>2, <4>1, ConcatProperties
      <3>5. /\ served \in Seq(Int) /\ <<-1>> \in Seq(Int) /\ Len(<<-1>>) = 1 /\ <<-1>>[1] = -1
            /\ Telnet!Shown = <<-1>> \o served
        BY ShownIsSeq DEF TelnetTypes
      <3>6. Len(served) \in Nat /\ Len(Telnet!Shown) = 1 + Len(served)
            /\ \A j \in 1..(1 + Len(served)) :
                 Telnet!Shown[j] = IF j <= 1 THEN <<-1>>[j] ELSE served[j - 1]
        BY <3>5, ConcatProperties, LenProperties
      <3>7. PICK j \in 1..(1 + Len(served)) : Telnet!Shown[j] = 0
        <4>1. Len(Printed) + k \in 1..(1 + Len(served))
          BY <3>2, <3>3, <3>4, <3>6
        <4> QED
          BY <3>4, <4>1
      <3>8. j # 1
        BY <3>5, <3>6, <3>7
      <3>9. served[j - 1] = 0 /\ j - 1 \in 1..Len(served)
        BY <3>6, <3>7, <3>8
      <3> QED
        BY <1>10, <3>9 DEF Telnet!Plain, Telnet!Contains, Telnet!Nul
    <2>4. Printed' = Printed \o first
      BY <1>5, <1>6, <2>3
    <2>5. (Printed \o first) \o (rest \o lost) = Printed \o (inbound \o lost)
      <3>0. Printed \in Seq(Int) /\ first \in Seq(Int) /\ rest \in Seq(Int)
        BY <1>3, <2>2
      <3> HIDE DEF TelnetIInv
      <3>1. rest \o lost \in Seq(Int)
        BY <3>0, ConcatProperties
      <3>2. (Printed \o first) \o (rest \o lost) = Printed \o (first \o (rest \o lost))
        BY <3>0, <3>1, Associative, SMTT(60)
      <3>3. (first \o rest) \o lost = first \o (rest \o lost)
        BY <3>0, Associative
      <3> QED
        BY <1>4, <3>2, <3>3
    <2>6. Telnet!Shown' = Telnet!Shown
      BY <1>1 DEF Telnet!Shown
    <2> QED
      BY <1>1, <2>1, <2>4, <2>5, <2>6 DEF Accounts
  <1>11. TelnetOutput'
    <2>1. Telnet!Plain' = Telnet!Plain
      BY <1>1 DEF Telnet!Plain
    <2> QED
      BY <1>1, <1>10, <2>1 DEF TelnetOutput
  <1> QED
    BY <1>7, <1>8, <1>9, <1>11

\* recv() = 0: the notice behind everything, and the end.
LEMMA TelnetZeroIInv ==
  ASSUME TelnetIInv, process = "running", Telnet!RecvZero
  PROVE  TelnetIInv'
  <1> USE DEF TelnetIInv
  <1>1. /\ reader = "recv" /\ socketFd = "open" /\ inbound = <<>>
        /\ remote = "fin" \/ reset = "told"
        /\ process' = "disconnected" /\ screen' = screen \o stdio \o <<-2>> /\ stdio' = <<>>
        /\ UNCHANGED <<writer, reader, socketFd, wild, typed, line, delivered, remote, reset,
                       served, inbound>>
    BY DEF Telnet!RecvZero, Telnet!Flush, Telnet!Ends, Telnet!connection, Telnet!Notice
  <1>2. Printed \in Seq(Int) /\ <<-2>> \in Seq(Int) /\ Len(<<-2>>) = 1 /\ <<-2>>[1] = -2
    BY ConcatProperties DEF Printed, TelnetTypes
  <1>3. screen' = Printed \o <<-2>>
    BY <1>1 DEF Printed
  <1>4. /\ screen' \in Seq(Int) /\ Len(screen') = Len(Printed) + 1 /\ Len(Printed) \in Nat
        /\ screen'[Len(Printed) + 1] = -2
    BY <1>2, <1>3, ConcatProperties, LenProperties
  <1>5. SubSeq(screen', 1, Len(Printed)) = Printed
    <2>1. CASE Len(Printed) = 0
      BY <1>2, <2>1, SubSeqEmpty, EmptySeq
    <2>2. CASE Len(Printed) # 0
      <3>1. 1 \in 1..Len(Printed) /\ Len(Printed) \in 1..Len(Printed)
        BY <1>4, <2>2
      <3> QED
        BY <1>2, <1>3, <3>1, SubSeqOfConcat1, SubSeqFull
    <2> QED
      BY <2>1, <2>2
  <1>6. TelnetTypes'
    BY <1>1, <1>4, EmptySeq DEF TelnetTypes
  <1>7. TelnetLines' /\ TelnetControl'
    BY <1>1 DEF TelnetTypes, TelnetLines, TelnetControl
  <1>8. TelnetOutput'
    <2>1. Telnet!Front(screen') = Printed /\ Telnet!Last(screen') = -2 /\ screen' # <<>>
      BY <1>4, <1>5, EmptySeq DEF Telnet!Front, Telnet!Last
    <2>2. Telnet!Plain' = Telnet!Plain /\ Telnet!Shown' = Telnet!Shown
      BY <1>1 DEF Telnet!Plain, Telnet!Shown
    <2>3. ASSUME Telnet!Plain PROVE Accounts(Telnet!Front(screen), <<>>)'
      BY <1>1, <2>1, <2>2, <2>3 DEF TelnetOutput, Accounts
    <2> QED
      BY <1>1, <2>1, <2>2, <2>3 DEF TelnetOutput, Telnet!Notice
  <1> QED
    BY <1>6, <1>7, <1>8

LEMMA TelnetReadIInv ==
  ASSUME TelnetIInv, Telnet!ThreadRead
  PROVE  TelnetIInv'
  <1> USE DEF TelnetIInv
  <1>1. process = "running"
    BY DEF Telnet!ThreadRead
  <1>2. CASE Telnet!RecvFails
    <2>1. TelnetTypes' /\ TelnetLines' /\ TelnetControl'
      BY <1>1, <1>2 DEF Telnet!RecvFails, TelnetTypes, TelnetLines, TelnetControl
    <2>2. TelnetOutput'
      BY <1>2, OutputKept DEF Telnet!RecvFails
    <2> QED
      BY <2>1, <2>2
  <1>3. CASE Telnet!RecvCrashes
    <2>1. /\ process' = "killed" /\ wild
          /\ UNCHANGED <<writer, reader, socketFd, wild, typed, line, delivered, stdio, screen,
                         remote, reset, served, inbound>>
      BY <1>3 DEF Telnet!RecvCrashes, Telnet!Ends, Telnet!connection
    <2>2. TelnetTypes' /\ TelnetLines' /\ TelnetControl'
      BY <1>1, <2>1 DEF TelnetTypes, TelnetLines, TelnetControl
    <2>3. TelnetOutput'
      BY <1>1, <2>1 DEF TelnetOutput, Accounts, Printed, Telnet!Plain, Telnet!Shown
    <2> QED
      BY <2>2, <2>3
  <1> QED
    BY <1>1, <1>2, <1>3, TelnetRecvIInv, TelnetZeroIInv, TelnetExitIInv DEF Telnet!ThreadRead

\* The server sends, closes, or resets the connection.
LEMMA TelnetNetworkIInv ==
  ASSUME TelnetIInv, Telnet!Network
  PROVE  TelnetIInv'
  <1> USE DEF TelnetIInv
  <1>1. /\ process = "running"
        /\ UNCHANGED <<process, writer, reader, socketFd, wild, typed, line, delivered, stdio,
                       screen>>
        /\ Printed' = Printed
    BY DEF Telnet!Network, Printed
  <1>2. TelnetLines'
    BY <1>1 DEF TelnetLines
  <1>3. Printed \in Seq(Int) /\ <<>> \in Seq(Int) /\ Len(<<>>) = 0
    BY ConcatProperties, EmptySeq DEF Printed, TelnetTypes
  <1>4. CASE Telnet!ServerCloses
    <2>1. /\ socketFd = "open" /\ reset = "no" /\ remote' = "fin"
          /\ UNCHANGED <<reset, served, inbound>>
      BY <1>4 DEF Telnet!ServerCloses
    <2>2. TelnetTypes' /\ TelnetControl'
      BY <1>1, <2>1 DEF TelnetTypes, TelnetControl
    <2>3. TelnetOutput'
      BY <1>1, <2>1 DEF TelnetOutput, Accounts, Telnet!Plain, Telnet!Shown
    <2> QED
      BY <1>2, <2>2, <2>3
  <1>5. CASE Telnet!Resets
    <2>1. /\ socketFd = "open" /\ reset = "no" /\ reset' = "pending"
          /\ UNCHANGED <<remote, served>>
          /\ inbound' = inbound \/ (inbound' = <<>> /\ remote = "up")
      BY <1>5 DEF Telnet!Resets
    <2>2. inbound' \in Seq(Int) /\ Len(inbound') <= Len(served)
      <3>1. Len(served) \in Nat
        BY LenProperties DEF TelnetTypes
      <3>2. inbound \in Seq(Int) /\ Len(inbound) <= Len(served)
        BY DEF TelnetTypes, TelnetControl
      <3>3. CASE inbound' = inbound
        BY <3>2, <3>3
      <3>4. CASE inbound' = <<>>
        BY <1>3, <3>1, <3>4
      <3> QED
        BY <2>1, <3>3, <3>4
    <2>3. TelnetTypes'
      BY <1>1, <2>1, <2>2 DEF TelnetTypes
    <2>4. TelnetControl'
      BY <1>1, <2>1, <2>2 DEF TelnetTypes, TelnetControl
    <2>5. Telnet!Plain' = Telnet!Plain /\ Telnet!Shown' = Telnet!Shown
      BY <2>1 DEF Telnet!Plain, Telnet!Shown
    <2>6. ASSUME Telnet!Plain PROVE Accounts(Printed, inbound)'
      <3>1. PICK lost \in Seq(Int) : Printed \o (inbound \o lost) = Telnet!Shown /\ lost = <<>>
        BY <1>1, <2>1, <2>6 DEF TelnetOutput, Accounts
      <3>2. inbound \o <<>> = inbound /\ <<>> \o inbound = inbound /\ inbound \in Seq(Int)
        BY ConcatEmptySeq DEF TelnetTypes
      <3> QED
        BY <1>1, <1>3, <2>1, <2>5, <3>1, <3>2 DEF Accounts
    <2>7. TelnetOutput'
      BY <1>1, <2>1, <2>5, <2>6 DEF TelnetOutput
    <2> QED
      BY <1>2, <2>3, <2>4, <2>7
  <1>6. ASSUME NEW byte \in Int, Telnet!ServerSends(byte) PROVE TelnetIInv'
    <2>1. /\ socketFd = "open" /\ reset = "no"
          /\ UNCHANGED <<remote, reset>>
          /\ served' = Append(served, byte) /\ inbound' = Append(inbound, byte)
      BY <1>6 DEF Telnet!ServerSends
    <2>2. served \in Seq(Int) /\ inbound \in Seq(Int)
      BY DEF TelnetTypes
    <2>3. /\ served' \in Seq(Int) /\ inbound' \in Seq(Int)
          /\ Len(served') = Len(served) + 1 /\ Len(inbound') = Len(inbound) + 1
          /\ \A k \in 1..Len(served) : served'[k] = served[k]
          /\ Len(served) \in Nat /\ Len(inbound) \in Nat
      BY <2>1, <2>2, AppendProperties, LenProperties
    <2>4. TelnetTypes'
      BY <1>1, <2>1, <2>3 DEF TelnetTypes
    <2>5. TelnetControl'
      <3>1. Len(served) >= BufferBytes => Len(served') >= BufferBytes
        BY <2>3, TelnetAssumption
      <3>2. Len(inbound') <= Len(served')
        BY <2>3 DEF TelnetControl
      <3> QED
        BY <1>1, <2>1, <3>1, <3>2 DEF TelnetTypes, TelnetControl
    <2>6. ASSUME Telnet!Plain' PROVE Accounts(Printed, inbound)'
      <3>1. Telnet!Plain
        BY <2>3, <2>6 DEF Telnet!Plain, Telnet!Contains
      <3>2. PICK lost \in Seq(Int) : Printed \o (inbound \o lost) = Telnet!Shown /\ lost = <<>>
        BY <1>1, <2>1, <3>1 DEF TelnetOutput, Accounts
      <3>3. <<byte>> \in Seq(Int)
        OBVIOUS
      <3>4. /\ inbound' = inbound \o <<byte>> /\ served' = served \o <<byte>>
            /\ inbound' \o <<>> = inbound' /\ inbound \o <<>> = inbound
        BY <2>1, <2>2, <2>3, AppendIsConcat, ConcatEmptySeq
      <3>5. (Printed \o inbound) \o <<byte>> = Printed \o (inbound \o <<byte>>)
        BY <1>3, <2>2, <3>3, Associative, SMTT(60)
      <3>6. Telnet!Shown' = Telnet!Shown \o <<byte>>
        <4>1. <<-1>> \in Seq(Int)
          OBVIOUS
        <4>2. (<<-1>> \o served) \o <<byte>> = <<-1>> \o (served \o <<byte>>)
          BY <2>2, <3>3, <4>1, ConcatAssociative
        <4> QED
          BY <3>4, <4>2 DEF Telnet!Shown, Telnet!Connected
      <3>7. Printed' \o (inbound' \o <<>>) = Telnet!Shown'
        BY <1>1, <3>2, <3>4, <3>5, <3>6
      <3> QED
        BY <1>3, <3>7 DEF Accounts
    <2>7. TelnetOutput'
      BY <1>1, <2>1, <2>6 DEF TelnetOutput
    <2> QED
      BY <1>2, <2>4, <2>5, <2>7
  <1>7. 0 \in Int /\ Len(served) + 1 \in Int
    BY LenProperties DEF TelnetTypes
  <1> QED
    BY <1>4, <1>5, <1>6, <1>7 DEF Telnet!Network, Telnet!Nul

LEMMA TelnetStepIInv == TelnetIInv /\ [ConnNext]_connVars => TelnetIInv'
  <1> SUFFICES ASSUME TelnetIInv, [ConnNext]_connVars PROVE TelnetIInv'
    OBVIOUS
  <1>1. CASE Telnet!Next
    BY <1>1, TelnetMainIInv, TelnetReadIInv, TelnetNetworkIInv DEF Telnet!Next
  <1>2. CASE UNCHANGED telnetVars
    <2>1. UNCHANGED <<process, writer, reader, socketFd, wild, typed, line, delivered, stdio,
                      screen, remote, reset, served, inbound>>
      BY <1>2 DEF telnetVars
    <2>2. TelnetTypes' /\ TelnetLines' /\ TelnetControl'
      BY <2>1 DEF TelnetIInv, TelnetTypes, TelnetLines, TelnetControl
    <2>3. TelnetOutput'
      BY <2>1, OutputKept
    <2> QED
      BY <2>2, <2>3 DEF TelnetIInv
  <1> QED
    BY <1>1, <1>2, TelnetSteps

LEMMA TelnetImplies == TelnetIInv => Telnet!Conversation
  <1> SUFFICES ASSUME TelnetIInv PROVE Telnet!Conversation
    OBVIOUS
  <1> USE DEF TelnetIInv
  <1>1. delivered = [k \in 1..Len(delivered) |-> k] /\ Len(delivered) <= typed
    <2>1. delivered \in [1..Len(delivered) -> Int]
      BY LenProperties DEF TelnetTypes
    <2> QED
      BY <2>1 DEF TelnetLines
  <1>2. \A printed, unread \in Seq(Int) :
           Accounts(printed, unread) => Telnet!IsPrefix(printed, Telnet!Shown)
    BY PrefixOfConcat, ConcatProperties DEF Accounts
  <1>3. Printed \in Seq(Int) /\ <<>> \in Seq(Int) /\ inbound \in Seq(Int)
    BY ConcatProperties, EmptySeq DEF Printed, TelnetTypes
  <1>4. ASSUME process = "disconnected" PROVE Telnet!Front(screen) \in Seq(Int)
    <2>1. screen \in Seq(Int) /\ Len(screen) \in Nat
      BY LenProperties DEF TelnetTypes
    <2>2. \A k \in 1..(Len(screen) - 1) : screen[k] \in Int
      BY <2>1, ElementOfSeq
    <2> QED
      BY <2>1, <2>2, SubSeqProperties DEF Telnet!Front
  <1>5. ASSUME Telnet!Plain, process = "disconnected"
        PROVE  /\ Telnet!IsPrefix(Telnet!Front(screen), Telnet!Shown)
               /\ remote = "fin" => Telnet!Front(screen) = Telnet!Shown
    <2>1. Telnet!IsPrefix(Telnet!Front(screen), Telnet!Shown)
      BY <1>2, <1>3, <1>4, <1>5 DEF TelnetOutput
    <2>2. ASSUME remote = "fin" PROVE Telnet!Front(screen) = Telnet!Shown
      <3>1. Telnet!Front(screen) \o (<<>> \o <<>>) = Telnet!Shown
        BY <1>5, <2>2 DEF TelnetOutput, Accounts
      <3> QED
        BY <1>3, <1>4, <1>5, <3>1, ConcatEmptySeq
    <2> QED
      BY <2>1, <2>2
  <1>6. ASSUME Telnet!Plain, process # "disconnected"
        PROVE  Telnet!IsPrefix(screen \o stdio, Telnet!Shown)
    <2>1. CASE socketFd # "none"
      BY <1>2, <1>3, <1>6, <2>1 DEF TelnetOutput, Printed
    <2>2. CASE socketFd = "none"
      <3>1. screen \o stdio = <<>>
        BY <1>3, <2>2, ConcatEmptySeq DEF TelnetOutput
      <3>2. Telnet!Shown \in Seq(Int) /\ <<>> \o Telnet!Shown = Telnet!Shown
        BY ShownIsSeq, ConcatEmptySeq
      <3> QED
        BY <1>3, <3>1, <3>2, PrefixOfConcat
    <2> QED
      BY <2>1, <2>2
  <1>7. process = "disconnected" => Telnet!Last(screen) = Telnet!Notice
    BY DEF TelnetOutput
  <1> QED
    BY <1>1, <1>5, <1>6, <1>7 DEF Telnet!Conversation, TelnetControl

\* The telnet client sends the user's lines once and in order, prints what its
\* server sent and the notice behind all of it after a proper end, and ends only
\* of its connection or of a full buffer, for every number of lines and bytes.
THEOREM ConversationCorrect == ConnSpec => []Conversation
  <1>1. TelnetIInv => Conversation
    BY TelnetImplies DEF Conversation
  <1> QED
    BY <1>1, TelnetInitIInv, TelnetStepIInv, PTL DEF ConnSpec

-----------------------------------------------------------------------------
(* The buffers of UnixStreamTelnetServerWithSelect.c.  The lemmas are about    *)
(* least numbers, sums of the elements of a sequence and strings in arrays.    *)

LEMMA LeastNumber ==
  ASSUME NEW S, S \subseteq Nat, S # {}
  PROVE  \E m \in S : \A n \in S : m <= n
  <1> DEFINE R == {ss \in Nat \X Nat : ss[1] < ss[2]}
  <1>1. IsWellFoundedOn(R, Nat)
    BY NatLessThanWellFounded DEF OpToRel
  <1> HIDE DEF R
  <1>2. PICK m \in S : \A n \in S : ~(<<n, m>> \in R)
    BY <1>1, WFMin
  <1>3. \A n \in S : ~(n < m)
    BY <1>2 DEF R
  <1> QED
    BY <1>3

LEMMA Induction ==
  ASSUME NEW S, 0 \in S, \A n \in Nat : n \in S => n + 1 \in S
  PROVE  Nat \subseteq S
  <1> SUFFICES ASSUME Nat \ S # {} PROVE FALSE
    OBVIOUS
  <1>1. PICK m \in Nat \ S : \A n \in Nat \ S : m <= n
    BY LeastNumber
  <1>2. m - 1 \in Nat /\ m - 1 \in S
    BY <1>1
  <1> QED
    BY <1>1, <1>2

\* A set with an upper bound has a largest element.
LEMMA Largest ==
  ASSUME NEW S, S \subseteq Int, 0 \in S, NEW B \in Nat, \A x \in S : x <= B
  PROVE  Relays!Max(S) \in S /\ \A x \in S : x <= Relays!Max(S)
  <1> DEFINE T == {n \in Nat : \A x \in S : x <= n}
  <1>1. T \subseteq Nat /\ T # {}
    OBVIOUS
  <1>2. PICK m \in T : \A n \in T : m <= n
    BY <1>1, LeastNumber
  <1>3. m \in S
    <2> SUFFICES ASSUME m \notin S PROVE FALSE
      OBVIOUS
    <2>1. m \in Nat /\ m # 0 /\ \A x \in S : x <= m /\ x # m
      BY <1>2
    <2>2. m - 1 \in T
      BY <2>1
    <2> QED
      BY <1>2, <2>1, <2>2
  <1>4. \E x \in S : \A y \in S : x >= y
    BY <1>2, <1>3
  <1> QED
    BY <1>4 DEF Relays!Max

\* What it is to be the sums of w's elements, and that there is exactly one way.
SumsOf(F, w, n) == F[0] = 0 /\ \A k \in 1..n : F[k] = F[k - 1] + w[k]

LEMMA SumsExist ==
  ASSUME NEW w, NEW n \in Nat, \A k \in 1..n : w[k] \in Nat
  PROVE  \E F \in [0..n -> Nat] : SumsOf(F, w, n)
  <1> DEFINE S == {k \in Nat : k <= n => \E F \in [0..k -> Nat] : SumsOf(F, w, k)}
  <1>1. 0 \in S
    <2> DEFINE F == [k \in 0..0 |-> 0]
    <2>1. F \in [0..0 -> Nat] /\ SumsOf(F, w, 0)
      BY DEF SumsOf
    <2> QED
      BY <2>1
  <1>2. ASSUME NEW k \in Nat, k \in S PROVE k + 1 \in S
    <2> SUFFICES ASSUME k + 1 <= n
                 PROVE  \E G \in [0..(k + 1) -> Nat] : SumsOf(G, w, k + 1)
      OBVIOUS
    <2>1. PICK F \in [0..k -> Nat] : SumsOf(F, w, k)
      BY <1>2
    <2> HIDE DEF S
    <2>2. w[k + 1] \in Nat
      OBVIOUS
    <2> DEFINE G == [j \in 0..(k + 1) |-> IF j = k + 1 THEN F[k] + w[k + 1] ELSE F[j]]
    <2>3. \A j \in 0..(k + 1) : j = k + 1 \/ j \in 0..k
      OBVIOUS
    <2>4. G \in [0..(k + 1) -> Nat]
      BY <2>1, <2>2, <2>3
    <2>5. \A j \in 0..k : G[j] = F[j]
      OBVIOUS
    <2>6. G[k + 1] = F[k] + w[k + 1]
      OBVIOUS
    <2> HIDE DEF G
    <2>7. ASSUME NEW j \in 1..(k + 1) PROVE G[j] = G[j - 1] + w[j]
      <3>1. j - 1 \in 0..k /\ (j = k + 1 \/ j \in 1..k)
        OBVIOUS
      <3>2. CASE j = k + 1
        <4>1. j - 1 = k
          BY <3>2
        <4> QED
          BY <2>5, <2>6, <3>1, <3>2, <4>1
      <3>3. CASE j \in 1..k
        <4>1. F[j] = F[j - 1] + w[j]
          BY <2>1, <3>3 DEF SumsOf
        <4>2. G[j] = F[j] /\ G[j - 1] = F[j - 1]
          BY <2>5, <3>1, <3>3
        <4> QED
          BY <4>1, <4>2
      <3> QED
        BY <3>1, <3>2, <3>3
    <2>8. G[0] = 0
      BY <2>1, <2>5 DEF SumsOf
    <2> QED
      BY <2>4, <2>7, <2>8 DEF SumsOf
  <1> HIDE DEF S
  <1>3. n \in S
    BY <1>1, <1>2, Induction
  <1> QED
    BY <1>3 DEF S

LEMMA SameSums ==
  ASSUME NEW w, NEW n \in Nat, NEW F, NEW G, SumsOf(F, w, n), SumsOf(G, w, n)
  PROVE  F[n] = G[n]
  <1> DEFINE S == {k \in Nat : k <= n => F[k] = G[k]}
  <1>1. 0 \in S
    BY DEF SumsOf
  <1>2. ASSUME NEW k \in Nat, k \in S PROVE k + 1 \in S
    <2> SUFFICES ASSUME k + 1 <= n PROVE F[k + 1] = G[k + 1]
      OBVIOUS
    <2>1. k + 1 \in 1..n /\ (k + 1) - 1 = k /\ F[k] = G[k]
      BY <1>2
    <2> HIDE DEF S
    <2> QED
      BY <2>1 DEF SumsOf
  <1> HIDE DEF S
  <1>3. n \in S
    BY <1>1, <1>2, Induction
  <1> QED
    BY <1>3 DEF S

\* strlen() and what is before it.
LEMMA StringOf ==
  ASSUME NEW n \in Nat, NEW bytes \in [1..n -> Int]
  PROVE  \E m \in 0..n :
           /\ Relays!StringIn(bytes) \in Seq(Int) /\ Len(Relays!StringIn(bytes)) = m
           /\ \A k \in 1..m : Relays!StringIn(bytes)[k] = bytes[k] /\ bytes[k] # 0
           /\ m < n => bytes[m + 1] = 0
  <1> DEFINE S == {k \in 1..n : bytes[k] = 0} \union {n + 1}
  <1>1. bytes \in Seq(Int) /\ Len(bytes) = n
    <2>1. bytes \in Seq(Int)
      BY SeqDef
    <2> QED
      BY <2>1, LenProperties
  <1>2. PICK z \in S : \A k \in S : z <= k
    <2>1. S \subseteq Nat /\ S # {}
      OBVIOUS
    <2> HIDE DEF S
    <2> QED
      BY <2>1, LeastNumber
  <1>3. Relays!Min(S) \in S /\ \A k \in S : Relays!Min(S) <= k
    BY <1>2 DEF Relays!Min
  <1> DEFINE m == Relays!Min(S) - 1
  <1>4. m \in 0..n /\ (m < n => bytes[m + 1] = 0) /\ m + 1 = Relays!Min(S)
    BY <1>3
  <1>5. \A k \in 1..m : bytes[k] # 0
    BY <1>3, <1>4
  <1>6. Relays!StringIn(bytes) = SubSeq(bytes, 1, m)
    BY <1>1 DEF Relays!StringIn, Relays!Nul
  <1> HIDE DEF m, S
  <1>7. /\ SubSeq(bytes, 1, m) \in Seq(Int) /\ Len(SubSeq(bytes, 1, m)) = m
        /\ \A k \in 1..m : SubSeq(bytes, 1, m)[k] = bytes[k]
    <2>1. \A k \in 1..m : bytes[k] \in Int
      BY <1>4
    <2> QED
      BY <1>1, <1>4, <2>1, SubSeqProperties
  <1> QED
    BY <1>4, <1>5, <1>6, <1>7

\* The prefixes of a pass, and what one more text adds to them.
Written(received) ==
    [k \in 1..Len(received) |->
        IF received[k] = 0 THEN 0 ELSE Relays!LabelLength(Speakers[k]) + 1]

LEMMA PrefixesOf ==
  ASSUME NEW received \in Seq(Int), Len(received) <= Len(Speakers)
  PROVE  \E F \in [0..Len(received) -> Nat] :
           /\ SumsOf(F, Written(received), Len(received))
           /\ Relays!Prefixes(received) = F[Len(received)]
  <1> DEFINE n == Len(received)   w == Written(received)
             P(F) == F = [k \in 0..n |-> IF k = 0 THEN 0
                            ELSE F[k - 1] + (IF received[k] = 0 THEN 0
                                             ELSE Relays!LabelLength(Speakers[k]) + 1)]
  <1>1. n \in Nat /\ Len(Speakers) \in Nat
    BY RelayAssumption, LenProperties
  <1>2. \A k \in 1..n : Speakers[k] \in Nat \ {0}
    BY <1>1, RelayAssumption, ElementOfSeq
  <1>3. /\ DOMAIN w = 1..n
        /\ \A k \in 1..n : w[k] = (IF received[k] = 0 THEN 0
                                   ELSE Relays!LabelLength(Speakers[k]) + 1)
    BY DEF Written
  <1>4. \A k \in 1..n : w[k] \in Nat
    <2> SUFFICES ASSUME NEW k \in 1..n PROVE w[k] \in Nat
      OBVIOUS
    <2>1. Relays!LabelLength(Speakers[k]) + 1 \in Nat
      BY <1>2, RelayAssumption DEF Relays!LabelLength
    <2> QED
      BY <1>3, <2>1
  <1> HIDE DEF w, n
  <1>5. PICK F \in [0..n -> Nat] : SumsOf(F, w, n)
    BY <1>1, <1>4, SumsExist
  <1>6. \A k \in 0..n : k = 0 \/ k \in 1..n
    BY <1>1
  <1>7. P(F)
    <2>1. \A k \in 0..n : F[k] = IF k = 0 THEN 0
                            ELSE F[k - 1] + (IF received[k] = 0 THEN 0
                                             ELSE Relays!LabelLength(Speakers[k]) + 1)
      BY <1>3, <1>5, <1>6 DEF SumsOf
    <2> QED
      BY <1>5, <2>1
  <1>8. P(CHOOSE G : P(G))
    BY <1>7
  <1> DEFINE G == CHOOSE H : P(H)
  <1>9. Relays!Prefixes(received) = G[n]
    BY DEF Relays!Prefixes, n
  <1> HIDE DEF G
  <1>10. /\ DOMAIN G = 0..n
         /\ \A k \in 0..n : G[k] = IF k = 0 THEN 0
                            ELSE G[k - 1] + (IF received[k] = 0 THEN 0
                                             ELSE Relays!LabelLength(Speakers[k]) + 1)
    BY <1>8 DEF G
  <1>11. SumsOf(G, w, n)
    <2>1. \A k \in 1..n : k \in 0..n /\ k # 0
      BY <1>1
    <2>2. 0 \in 0..n
      BY <1>1
    <2> QED
      BY <1>3, <1>10, <2>1, <2>2 DEF SumsOf
  <1>12. F[n] = G[n]
    BY <1>1, <1>5, <1>11, SameSums
  <1> QED
    BY <1>5, <1>9, <1>12 DEF n, w

LEMMA PrefixesAdd ==
  ASSUME NEW received \in Seq(Int), NEW x \in Int, Len(received) < Len(Speakers)
  PROVE  /\ Relays!Prefixes(received) \in Nat
         /\ Relays!Prefixes(Append(received, x)) = Relays!Prefixes(received)
              + (IF x = 0 THEN 0 ELSE Relays!LabelLength(Speakers[Len(received) + 1]) + 1)
  <1> DEFINE n == Len(received)   longer == Append(received, x)
  <1>1. n \in Nat /\ Len(Speakers) \in Nat
    BY RelayAssumption, LenProperties
  <1>2. /\ longer \in Seq(Int) /\ Len(longer) = n + 1
        /\ \A k \in 1..n : longer[k] = received[k]
        /\ longer[n + 1] = x
    BY AppendProperties
  <1>3. PICK F \in [0..n -> Nat] : /\ SumsOf(F, Written(received), n)
                                   /\ Relays!Prefixes(received) = F[n]
    BY <1>1, PrefixesOf
  <1> HIDE DEF longer
  <1>4. PICK G \in [0..(n + 1) -> Nat] : /\ SumsOf(G, Written(longer), n + 1)
                                         /\ Relays!Prefixes(longer) = G[n + 1]
    BY <1>1, <1>2, PrefixesOf
  <1>5. /\ \A k \in 1..n : Written(longer)[k] = Written(received)[k]
        /\ Written(longer)[n + 1] = (IF x = 0 THEN 0
                                     ELSE Relays!LabelLength(Speakers[n + 1]) + 1)
    BY <1>1, <1>2 DEF Written
  <1> HIDE DEF n
  <1>6. SumsOf(G, Written(received), n)
    BY <1>1, <1>4, <1>5 DEF SumsOf
  <1>7. F[n] = G[n]
    BY <1>1, <1>3, <1>6, SameSums
  <1>8. G[n + 1] = G[n] + Written(longer)[n + 1]
    BY <1>1, <1>4 DEF SumsOf
  <1>9. n \in 0..n
    BY <1>1
  <1> QED
    BY <1>3, <1>4, <1>5, <1>7, <1>8, <1>9 DEF n, longer

\* What the buffer may hold: prefixes and texts of this pass, at its beginning.
RelayTypes ==
    /\ Relays!TypeOK
    /\ lengths \in Seq({-1} \union 0..BufferSize)
    /\ nuls \in Seq(SUBSET Nat)
    /\ relayed \in Seq(Seq(Int))

Trace(p, byte) ==
    /\ \E e \in 1..speaker : lengths[e] # 0
    /\ byte = -1 \/ (byte \in 1..speaker /\ lengths[byte] # 0)
    /\ p <= Relays!Prefixes(lengths) + Relays!Longest

RelayTraces == \A p \in 1..BufferSize : buffer[p] # 0 => Trace(p, buffer[p])

RelayIInv == RelayTypes /\ RelayTraces /\ Relays!RelayedText

LEMMA RelaySteps ==
  ASSUME [ConnNext]_connVars
  PROVE  Relays!Next \/ UNCHANGED relayVars
  BY DEF ConnNext, MainStep, StepOf, Optional, Ended, Only, connVars

\* An empty pass.
LEMMA RelayClean ==
  ASSUME buffer' = Relays!Zeroes, speaker' = 0, lengths' = <<>>, nuls' = <<>>,
         relayed' = <<>>, overrun' = FALSE
  PROVE  RelayIInv'
  <1>1. /\ <<>> \in Seq({-1} \union 0..BufferSize) /\ <<>> \in Seq(Seq(Int))
        /\ <<>> \in Seq(SUBSET Nat) /\ Len(<<>>) = 0 /\ 0 \in 0..Len(Speakers)
    BY EmptySeq, RelayAssumption, LenProperties
  <1>2. Len(Speakers) \in Nat
    BY RelayAssumption, LenProperties
  <1>3. /\ buffer' \in [1..BufferSize -> Relays!Label..Len(Speakers)]
        /\ \A p \in 1..BufferSize : buffer'[p] = 0
    BY <1>2 DEF Relays!Zeroes, Relays!Nul, Relays!Label
  <1>4. RelayTypes'
    BY <1>1, <1>2, <1>3 DEF RelayTypes, Relays!TypeOK
  <1>5. RelayTraces'
    BY <1>3 DEF RelayTraces
  <1>6. Relays!RelayedText'
    BY DEF Relays!RelayedText
  <1> QED
    BY <1>4, <1>5, <1>6 DEF RelayIInv

LEMMA RelayInitIInv == ConnInit => RelayIInv
  <1> SUFFICES ASSUME Relays!Init PROVE RelayIInv
    BY DEF ConnInit
  <1>1. /\ <<>> \in Seq({-1} \union 0..BufferSize) /\ <<>> \in Seq(Seq(Int))
        /\ <<>> \in Seq(SUBSET Nat) /\ Len(<<>>) = 0
    BY EmptySeq
  <1>2. Len(Speakers) \in Nat
    BY RelayAssumption, LenProperties
  <1>3. /\ buffer \in [1..BufferSize -> Relays!Label..Len(Speakers)]
        /\ \A p \in 1..BufferSize : buffer[p] = 0
    BY <1>2 DEF Relays!Init, Relays!Zeroes, Relays!Nul, Relays!Label
  <1>4. RelayTypes
    <2>1. speaker = 0 /\ lengths = <<>> /\ nuls = <<>> /\ relayed = <<>>
      BY DEF Relays!Init
    <2>2. overrun \in BOOLEAN
      BY DEF Relays!Init
    <2>3. /\ Len(lengths) = speaker /\ Len(nuls) = speaker /\ Len(relayed) = speaker
          /\ speaker \in 0..Len(Speakers)
      BY <1>1, <2>1
    <2>4. Relays!TypeOK
      BY <1>3, <2>2, <2>3 DEF Relays!TypeOK
    <2> QED
      BY <1>1, <2>1, <2>4 DEF RelayTypes
  <1>5. RelayTraces
    BY <1>3 DEF RelayTraces
  <1>6. Relays!RelayedText
    BY DEF Relays!Init, Relays!RelayedText
  <1> QED
    BY <1>4, <1>5, <1>6 DEF RelayIInv

\* One more speaker, who was silent, has failed or has sent n bytes.
LEMMA RelayGrows ==
  ASSUME RelayTypes, NEW n \in {-1} \union 0..BufferSize, NEW bytes \in Seq(Int),
         NEW zeroes \in SUBSET Nat, speaker < Len(Speakers), speaker' = speaker + 1,
         lengths' = Append(lengths, n), nuls' = Append(nuls, zeroes),
         relayed' = Append(relayed, bytes)
  PROVE  /\ speaker' \in 1..Len(Speakers) /\ Speakers[speaker'] \in Nat \ {0}
         /\ lengths' \in Seq({-1} \union 0..BufferSize) /\ Len(lengths') = speaker'
         /\ nuls' \in Seq(SUBSET Nat) /\ Len(nuls') = speaker'
         /\ relayed' \in Seq(Seq(Int)) /\ Len(relayed') = speaker'
         /\ \A s \in 1..speaker :
              lengths'[s] = lengths[s] /\ nuls'[s] = nuls[s] /\ relayed'[s] = relayed[s]
         /\ lengths'[speaker'] = n /\ nuls'[speaker'] = zeroes
         /\ relayed'[speaker'] = bytes
         /\ Relays!Longest \in Nat /\ Relays!Longest' \in Nat
         /\ Relays!Longest <= Relays!Longest' /\ n <= Relays!Longest'
         /\ Relays!Prefixes(lengths) \in Nat
         /\ Relays!Prefixes(lengths)' = Relays!Prefixes(lengths)
              + (IF n = 0 THEN 0 ELSE Relays!LabelLength(Speakers[speaker']) + 1)
         /\ \A s \in 1..(speaker + 1) : Relays!Earlier(s)' = Relays!Earlier(s)
         /\ \A p, byte \in Int : Trace(p, byte) => Trace(p, byte)'
  <1>1. /\ Len(Speakers) \in Nat /\ speaker \in Nat /\ BufferSize \in Nat
        /\ Len(lengths) = speaker /\ Len(relayed) = speaker
        /\ lengths \in Seq({-1} \union 0..BufferSize) /\ relayed \in Seq(Seq(Int))
        /\ nuls \in Seq(SUBSET Nat) /\ Len(nuls) = speaker
    BY RelayAssumption, LenProperties DEF RelayTypes, Relays!TypeOK
  <1>2. /\ lengths' \in Seq({-1} \union 0..BufferSize) /\ Len(lengths') = speaker + 1
        /\ \A s \in 1..speaker : lengths'[s] = lengths[s]
        /\ lengths'[speaker + 1] = n
    BY <1>1, AppendProperties
  <1>3. /\ relayed' \in Seq(Seq(Int)) /\ Len(relayed') = speaker + 1
        /\ \A s \in 1..speaker : relayed'[s] = relayed[s]
        /\ relayed'[speaker + 1] = bytes
    BY <1>1, AppendProperties, SMTT(60)
  <1>14. /\ nuls' \in Seq(SUBSET Nat) /\ Len(nuls') = speaker + 1
         /\ \A s \in 1..speaker : nuls'[s] = nuls[s]
         /\ nuls'[speaker + 1] = zeroes
    BY <1>1, AppendProperties
  <1>4. speaker' \in 1..Len(Speakers) /\ Speakers[speaker'] \in Nat \ {0}
    BY <1>1, RelayAssumption, ElementOfSeq
  <1>5. lengths \in Seq(Int)
    BY <1>1
  <1>6. /\ Relays!Prefixes(lengths) \in Nat
        /\ Relays!Prefixes(lengths)' = Relays!Prefixes(lengths)
              + (IF n = 0 THEN 0 ELSE Relays!LabelLength(Speakers[speaker']) + 1)
    <2>1. n \in Int
      BY <1>1
    <2>2. Relays!Prefixes(lengths)' = Relays!Prefixes(Append(lengths, n))
      BY DEF Relays!Prefixes
    <2> QED
      BY <1>1, <1>5, <2>1, <2>2, PrefixesAdd
  <1> DEFINE S == {0} \union {lengths[s] : s \in 1..speaker}
             T == {0} \union {lengths'[s] : s \in 1..(speaker + 1)}
  <1>7. /\ S \subseteq Int /\ 0 \in S /\ \A x \in S : x <= BufferSize
        /\ T \subseteq Int /\ 0 \in T /\ \A x \in T : x <= BufferSize
    <2>1. /\ \A x \in {-1} \union 0..BufferSize : x \in Int /\ x <= BufferSize
          /\ 0 \in Int /\ 0 <= BufferSize
      BY <1>1
    <2>4. \A s \in 1..speaker : lengths[s] \in {-1} \union 0..BufferSize
      BY <1>1, ElementOfSeq
    <2>5. \A s \in 1..(speaker + 1) : lengths'[s] \in {-1} \union 0..BufferSize
      BY <1>2, ElementOfSeq
    <2>2. S \subseteq Int /\ 0 \in S /\ \A x \in S : x <= BufferSize
      BY <2>1, <2>4
    <2>3. T \subseteq Int /\ 0 \in T /\ \A x \in T : x <= BufferSize
      BY <2>1, <2>5
    <2> QED
      BY <2>2, <2>3
  <1>8. S \subseteq T /\ n \in T
    BY <1>1, <1>2
  <1>9. Relays!Longest = Relays!Max(S) /\ Relays!Longest' = Relays!Max(T)
    BY DEF Relays!Longest, Relays!Max
  <1> HIDE DEF S, T
  <1>10. /\ Relays!Max(S) \in S /\ \A x \in S : x <= Relays!Max(S)
         /\ Relays!Max(T) \in T /\ \A x \in T : x <= Relays!Max(T)
    BY <1>1, <1>7, Largest
  <1>11. /\ Relays!Longest \in Nat /\ Relays!Longest' \in Nat
         /\ Relays!Longest <= Relays!Longest' /\ n <= Relays!Longest'
    <2>1. Relays!Max(S) \in Int /\ 0 <= Relays!Max(S) /\ Relays!Max(S) \in T
      BY <1>7, <1>8, <1>10
    <2>2. /\ Relays!Max(T) \in Int /\ 0 <= Relays!Max(T) /\ n <= Relays!Max(T)
          /\ Relays!Max(S) <= Relays!Max(T)
      BY <1>7, <1>8, <1>10, <2>1
    <2> QED
      BY <1>9, <2>1, <2>2
  <1>12. ASSUME NEW s \in 1..(speaker + 1) PROVE Relays!Earlier(s)' = Relays!Earlier(s)
    <2>1. \A e \in 1..(s - 1) : e \in 1..speaker
      BY <1>1
    <2> QED
      BY <1>2, <2>1 DEF Relays!Earlier
  <1>13. ASSUME NEW p \in Int, NEW byte \in Int, Trace(p, byte) PROVE Trace(p, byte)'
    <2>1. \A e \in 1..speaker : e \in 1..speaker' /\ lengths'[e] = lengths[e]
      BY <1>1, <1>2
    <2>2. /\ \E e \in 1..speaker' : lengths'[e] # 0
          /\ byte = -1 \/ (byte \in 1..speaker' /\ lengths'[byte] # 0)
      BY <1>13, <2>1 DEF Trace
    <2>3. Relays!Prefixes(lengths) <= Relays!Prefixes(lengths)'
      <3>1. Relays!LabelLength(Speakers[speaker']) + 1 \in Nat
        BY <1>4, RelayAssumption DEF Relays!LabelLength
      <3> QED
        BY <1>6, <3>1
    <2>4. p <= Relays!Prefixes(lengths)' + Relays!Longest'
      <3>1. Relays!Prefixes(lengths)' \in Nat
        <4>1. Relays!LabelLength(Speakers[speaker']) + 1 \in Nat
          BY <1>4, RelayAssumption DEF Relays!LabelLength
        <4> QED
          BY <1>6, <4>1
      <3>2. p <= Relays!Prefixes(lengths) + Relays!Longest
        BY <1>13 DEF Trace
      <3> QED
        BY <1>6, <1>11, <2>3, <3>1, <3>2
    <2> QED
      BY <2>2, <2>4 DEF Trace
  <1> QED
    BY <1>2, <1>3, <1>4, <1>6, <1>11, <1>12, <1>13, <1>14

LEMMA RelaySilent ==
  ASSUME RelayIInv, Relays!Silent
  PROVE  RelayIInv'
  <1> USE DEF RelayIInv
  <1>1. /\ speaker < Len(Speakers) /\ ~overrun /\ speaker' = speaker + 1
        /\ lengths' = Append(lengths, 0) /\ nuls' = Append(nuls, {})
        /\ relayed' = Append(relayed, <<>>) /\ buffer' = buffer /\ overrun' = overrun
    BY DEF Relays!Silent
  <1>2. /\ speaker \in Nat /\ Len(Speakers) \in Nat /\ BufferSize \in Nat
        /\ <<>> \in Seq(Int) /\ 0 \in {-1} \union 0..BufferSize /\ {} \in SUBSET Nat
        /\ buffer \in [1..BufferSize -> Int]
    BY RelayAssumption, LenProperties, EmptySeq DEF RelayTypes, Relays!TypeOK, Relays!Label
  <1>3. /\ speaker' \in 1..Len(Speakers)
        /\ lengths' \in Seq({-1} \union 0..BufferSize) /\ Len(lengths') = speaker'
        /\ nuls' \in Seq(SUBSET Nat) /\ Len(nuls') = speaker'
        /\ relayed' \in Seq(Seq(Int)) /\ Len(relayed') = speaker'
        /\ \A s \in 1..speaker :
             lengths'[s] = lengths[s] /\ nuls'[s] = nuls[s] /\ relayed'[s] = relayed[s]
        /\ relayed'[speaker'] = <<>>
        /\ \A s \in 1..(speaker + 1) : Relays!Earlier(s)' = Relays!Earlier(s)
        /\ \A p, byte \in Int : Trace(p, byte) => Trace(p, byte)'
    BY <1>1, <1>2, RelayGrows
  <1>4. RelayTypes'
    BY <1>1, <1>3 DEF RelayTypes, Relays!TypeOK
  <1>5. RelayTraces'
    <2>1. \A p \in 1..BufferSize : p \in Int /\ buffer[p] \in Int
      BY <1>2
    <2> QED
      BY <1>1, <1>3, <2>1 DEF RelayTraces
  <1>6. Relays!RelayedText'
    <2> SUFFICES ASSUME NEW s \in 1..speaker', relayed'[s] # <<>>
                 PROVE  Relays!Whole(s, Relays!Earlier(s)', lengths'[s], nuls'[s],
                                     relayed'[s])
      BY <1>1 DEF Relays!RelayedText
    <2>1. s \in 1..speaker /\ s \in 1..(speaker + 1)
      BY <1>1, <1>2, <1>3
    <2> QED
      BY <1>3, <2>1 DEF Relays!RelayedText
  <1> QED
    BY <1>4, <1>5, <1>6

\* Where the zero bytes of a text of n bytes may be.
Zeros(n) == SUBSET (NulAt \cap 1..n)

\* The first zero byte ends the text, or nothing does.
LEMMA StrlenOf ==
  ASSUME NEW n \in Int, n >= -1, NEW zeroes \in Zeros(n)
  PROVE  /\ Relays!Strlen(n, zeroes) \in Int /\ Relays!Strlen(n, zeroes) <= n
         /\ \A k \in zeroes : k \in 1..n /\ Relays!Strlen(n, zeroes) < k
         /\ Relays!Strlen(n, zeroes) < n => Relays!Strlen(n, zeroes) + 1 \in zeroes
  <1> DEFINE S == zeroes \union {n + 1}
  <1>1. zeroes \subseteq 1..n /\ S \subseteq Nat /\ S # {} /\ n + 1 \in S
    BY DEF Zeros
  <1> HIDE DEF S
  <1>2. PICK z \in S : \A k \in S : z <= k
    BY <1>1, LeastNumber
  <1>3. Relays!Min(S) \in S /\ \A k \in S : Relays!Min(S) <= k
    BY <1>2 DEF Relays!Min
  <1>4. Relays!Strlen(n, zeroes) = Relays!Min(S) - 1
    BY DEF Relays!Strlen, S
  <1>5. PICK least \in Nat : /\ least = Relays!Min(S) /\ least \in S
                             /\ \A k \in S : least <= k
    BY <1>1, <1>3
  <1>6. /\ least <= n + 1 /\ Relays!Strlen(n, zeroes) = least - 1
        /\ least # n + 1 => least \in zeroes
    BY <1>1, <1>4, <1>5 DEF S
  <1>7. \A k \in zeroes : k \in 1..n /\ least <= k
    BY <1>1, <1>5 DEF S
  <1> QED
    BY <1>6, <1>7

\* The string in the buffer after recv() holds the text up to its first zero byte,
\* and if it has none what follows the n bytes has been there before.
LEMMA RelayedString ==
  ASSUME RelayIInv, NEW n \in {-1} \union 1..BufferSize, NEW zeroes \in Zeros(n),
         speaker < Len(Speakers), NEW said \in Int, said = Relays!Strlen(n, zeroes)
  PROVE  \E m \in 0..BufferSize :
           LET string == Relays!StringIn(Relays!Received(n, zeroes))
           IN /\ string \in Seq(Int) /\ Len(string) = m
              /\ said <= n /\ said <= m /\ (said < n => said = m)
              /\ \A k \in 1..m : string[k] = (IF k <= n THEN speaker + 1 ELSE buffer[k])
              /\ \A k \in (n + 1)..m : k >= 1 => buffer[k] # 0
  <1> DEFINE R == Relays!Received(n, zeroes)
  <1>1. /\ speaker \in Nat /\ BufferSize \in Nat /\ n \in Int /\ n >= -1
        /\ buffer \in [1..BufferSize -> Int]
    BY RelayAssumption DEF RelayIInv, RelayTypes, Relays!TypeOK, Relays!Label
  <1>2. /\ R \in [1..BufferSize -> Int]
        /\ \A k \in 1..BufferSize :
             R[k] = IF k > n THEN buffer[k] ELSE IF k \in zeroes THEN 0 ELSE speaker + 1
    BY <1>1 DEF Relays!Received, Relays!Nul
  <1> HIDE DEF R
  <1>3. PICK m \in 0..BufferSize :
           /\ Relays!StringIn(R) \in Seq(Int) /\ Len(Relays!StringIn(R)) = m
           /\ \A k \in 1..m : Relays!StringIn(R)[k] = R[k] /\ R[k] # 0
           /\ m < BufferSize => R[m + 1] = 0
    BY <1>1, <1>2, StringOf
  <1>4. /\ said <= n /\ \A k \in zeroes : k \in 1..n /\ said < k
        /\ said < n => said + 1 \in zeroes
    BY <1>1, StrlenOf
  <1>5. \A k \in 1..m : k \in 1..BufferSize
    BY <1>1, <1>3
  <1>7. said <= m
    <2> SUFFICES ASSUME m < said PROVE FALSE
      BY <1>3
    <2>1. /\ m + 1 \in 1..BufferSize /\ ~(m + 1 > n) /\ m < BufferSize
          /\ ~(said < m + 1)
      BY <1>1, <1>3, <1>4
    <2>2. m + 1 \notin zeroes
      BY <1>4, <2>1
    <2>3. R[m + 1] = speaker + 1 /\ R[m + 1] = 0
      BY <1>2, <1>3, <2>1, <2>2
    <2> QED
      BY <1>1, <2>3
  <1>8. ASSUME said < n PROVE said = m
    <2>1. said + 1 \in zeroes /\ said + 1 \in 1..BufferSize /\ ~(said + 1 > n)
      BY <1>1, <1>4, <1>8
    <2>2. R[said + 1] = 0
      BY <1>2, <2>1
    <2>3. ~(said + 1 \in 1..m)
      BY <1>3, <2>2
    <2> QED
      BY <1>3, <1>7, <2>1, <2>3
  <1>6. ASSUME NEW k \in (n + 1)..m, k >= 1 PROVE buffer[k] # 0
    <2>1. k \in 1..m /\ k > n
      BY <1>1, <1>3, <1>6
    <2> QED
      BY <1>2, <1>3, <1>5, <2>1
  <1>9. ASSUME NEW k \in 1..m PROVE R[k] = (IF k <= n THEN speaker + 1 ELSE buffer[k])
    <2>1. R[k] # 0 /\ k \in 1..BufferSize /\ (k <= n <=> ~(k > n))
      BY <1>1, <1>3, <1>5
    <2> QED
      BY <1>2, <2>1
  <1> QED
    BY <1>3, <1>4, <1>6, <1>7, <1>8, <1>9 DEF R

\* sprintf(): the label, and the string behind it.
LEMMA RelayedMessage ==
  ASSUME NEW d \in Nat \ {0}, NEW string \in Seq(Int)
  PROVE  LET begin == Relays!LabelLength(d) + 1
             message == Relays!Prefix(d) \o string
         IN /\ begin \in Nat /\ begin = PrependSize - 3 + d
            /\ Len(message) = begin + Len(string)
            /\ \A k \in 1..begin : message[k] = -1
            /\ \A k \in 1..Len(string) : message[begin + k] = string[k]
  <1> DEFINE begin == Relays!LabelLength(d) + 1   label == Relays!Prefix(d)
             message == label \o string
  <1>1. begin \in Nat /\ begin = PrependSize - 3 + d
    BY RelayAssumption DEF Relays!LabelLength
  <1>2. label = [k \in 1..begin |-> -1]
    BY DEF Relays!Prefix, Relays!Label
  <1> HIDE DEF begin, label
  <1>4. label \in Seq(Int) /\ Len(label) = begin /\ \A k \in 1..begin : label[k] = -1
    <2>1. label \in [1..begin -> Int]
      BY <1>2
    <2>2. label \in Seq(Int)
      BY <1>1, <2>1, SeqDef
    <2> QED
      BY <1>1, <1>2, <2>1, <2>2, LenProperties
  <1>5. Len(string) \in Nat
    BY LenProperties
  <1>6. /\ Len(label \o string) = begin + Len(string)
        /\ \A k \in 1..begin : (label \o string)[k] = -1
        /\ \A k \in 1..Len(string) : (label \o string)[begin + k] = string[k]
    <2>1. /\ Len(label \o string) = begin + Len(string)
          /\ \A k \in 1..(begin + Len(string)) :
               (label \o string)[k] = IF k <= begin THEN label[k] ELSE string[k - begin]
      BY <1>4, ConcatProperties
    <2>2. \A k \in 1..begin : k \in 1..(begin + Len(string)) /\ k <= begin
      BY <1>1, <1>5
    <2>3. \A k \in 1..Len(string) :
             begin + k \in 1..(begin + Len(string)) /\ ~(begin + k <= begin)
             /\ (begin + k) - begin = k
      BY <1>1, <1>5
    <2> QED
      BY <1>4, <2>1, <2>2, <2>3, SMTT(60)
  <1> QED
    BY <1>1, <1>6 DEF begin, label

Digits == Speakers[speaker + 1]

\* The array after sprintf(), byte by byte: the prefix, the string of m bytes, n of
\* which are new at most, a zero, and what has been there before or was received.
Formatted(after, begin, m, n, zeroes) ==
    \A k \in 1..BufferSize :
        after[k] = IF k <= begin THEN -1
                   ELSE IF k <= begin + m
                   THEN IF k - begin <= n THEN speaker + 1 ELSE buffer[k - begin]
                   ELSE IF k = begin + m + 1 THEN 0 ELSE Relays!Received(n, zeroes)[k]

\* What is sent of it, when nothing has been overrun.
LEMMA RelayedWhole ==
  ASSUME BufferSize \in Nat, PrependSize \in Nat, speaker \in Nat,
         RelayIInv, NEW n \in {-1} \union 1..BufferSize, speaker < Len(Speakers),
         NEW zeroes \in Zeros(n), NEW said \in Int, said = Relays!Strlen(n, zeroes),
         Digits \in Nat \ {0}, NEW begin \in Nat, begin = PrependSize - 3 + Digits,
         NEW m \in 0..BufferSize, begin + m < BufferSize,
         said <= n, said <= m, said < n => said = m,
         n + PrependSize <= BufferSize, Digits <= 3,
         NEW after \in [1..BufferSize -> Int],
         Formatted(after, begin, m, n, zeroes)
  PROVE  /\ SubSeq(after, 1, Relays!SendLength(n)) \in Seq(Int)
         /\ Relays!Whole(speaker + 1, Relays!Earlier(speaker + 1), n, zeroes,
                         SubSeq(after, 1, Relays!SendLength(n)))
  <1> DEFINE total == n + PrependSize   bytes == SubSeq(after, 1, total)
             earlier == Relays!Earlier(speaker + 1)
  <1>1. /\ speaker \in Nat /\ BufferSize \in Nat /\ n \in Int /\ total \in Nat /\ m \in Nat
        /\ begin <= PrependSize /\ PrependSize \in Nat /\ n >= -1
        /\ begin + n <= total
    <2>1. speaker \in Nat
      BY LenProperties, RelayAssumption DEF RelayIInv, RelayTypes, Relays!TypeOK
    <2>2. /\ PrependSize \in Nat /\ PrependSize >= 4 /\ BufferSize \in Nat
          /\ n \in Int /\ n >= -1 /\ m \in Nat
      BY RelayAssumption
    <2> QED
      BY <2>1, <2>2
  <1>2. /\ bytes \in Seq(Int) /\ Len(bytes) = total
        /\ \A k \in 1..total : bytes[k] = after[k] /\ k \in 1..BufferSize
    <2>1. \A k \in 1..total : k \in 1..BufferSize /\ after[k] \in Int /\ (1 + k) - 1 = k
      BY <1>1
    <2>2. /\ bytes \in Seq(Int) /\ Len(bytes) = IF 1 <= total THEN total - 1 + 1 ELSE 0
          /\ \A k \in 1..(total - 1 + 1) : bytes[k] = after[1 + k - 1]
      BY <1>1, <2>1, SubSeqProperties
    <2>3. total - 1 + 1 = total /\ (~(1 <= total) => total = 0)
      BY <1>1
    <2> QED
      BY <1>1, <2>1, <2>2, <2>3
  <1>3. total = begin + n + 3 - Digits
    BY <1>1
  <1>4. Relays!SendLength(n) = total
    BY DEF Relays!SendLength
  <1> HIDE DEF total, bytes
  <1>5. \A k \in 1..Relays!Min({begin, total}) : bytes[k] = -1
    <2>1. Relays!Min({begin, total}) \in {begin, total}
          /\ \A x \in {begin, total} : Relays!Min({begin, total}) <= x
      <3>1. \E x \in {begin, total} : \A y \in {begin, total} : x <= y
        BY <1>1
      <3> QED
        BY <3>1 DEF Relays!Min
    <2> DEFINE least == Relays!Min({begin, total})
    <2>2. least \in Nat /\ least <= begin /\ least <= total
      BY <1>1, <2>1
    <2> HIDE DEF least
    <2>3. \A k \in 1..least : k \in 1..total /\ k <= begin
      BY <1>1, <2>2
    <2>4. \A k \in 1..least : bytes[k] = -1
      BY <1>2, <2>3 DEF Formatted
    <2> QED
      BY <2>4 DEF least
  <1>6. \A k \in 1..said : bytes[begin + k] = speaker + 1
    <2> SUFFICES ASSUME NEW k \in 1..said PROVE bytes[begin + k] = speaker + 1
      OBVIOUS
    <2>1. begin + k \in 1..total /\ (begin + k) - begin = k
      BY <1>1
    <2>2. ~(begin + k <= begin) /\ begin + k <= begin + m /\ k <= n
      BY <1>1
    <2> QED
      BY <1>2, <2>1, <2>2 DEF Formatted
  <1>11. ASSUME said < n PROVE bytes[begin + said + 1] = 0
    <2>1. /\ begin + m + 1 \in 1..total /\ said = m
          /\ ~(begin + m + 1 <= begin) /\ ~(begin + m + 1 <= begin + m)
      BY <1>1, <1>11
    <2> QED
      BY <1>2, <2>1 DEF Formatted
  <1>7. /\ Relays!Max({said, 0}) \in Int /\ said <= Relays!Max({said, 0})
        /\ 0 <= Relays!Max({said, 0})
    <2>1. \E x \in {said, 0} : \A y \in {said, 0} : x >= y
      BY <1>1
    <2>2. /\ Relays!Max({said, 0}) \in {said, 0}
          /\ \A y \in {said, 0} : Relays!Max({said, 0}) >= y
      BY <2>1 DEF Relays!Max
    <2> QED
      BY <1>1, <2>2
  <1>8. \A p \in 1..BufferSize :
           \/ buffer[p] = 0
           \/ buffer[p] = -1 /\ earlier # {}
           \/ buffer[p] \in earlier
    <2> SUFFICES ASSUME NEW p \in 1..BufferSize, buffer[p] # 0
                 PROVE  (buffer[p] = -1 /\ earlier # {}) \/ buffer[p] \in earlier
      OBVIOUS
    <2>1. Trace(p, buffer[p])
      BY DEF RelayIInv, RelayTraces
    <2>2. (speaker + 1) - 1 = speaker
      BY <1>1
    <2> QED
      BY <2>1, <2>2 DEF Trace, Relays!Earlier
  <1>9. ASSUME NEW k \in (begin + Relays!Max({said, 0}) + 1)..total
        PROVE  bytes[k] \in {0} \union earlier \union (IF earlier = {} THEN {} ELSE {-1})
                            \union (IF said < n THEN {speaker + 1} ELSE {})
    <2>1. /\ k \in 1..total /\ ~(k <= begin) /\ ~(k - begin <= said)
          /\ k - begin \in Nat /\ k - begin >= 1
      BY <1>1, <1>7
    <2>2. bytes[k] = after[k] /\ k \in 1..BufferSize
      BY <1>2, <2>1
    <2>3. CASE k <= begin + m
      <3>1. k - begin \in 1..BufferSize /\ ~(k - begin <= n)
        BY <1>1, <2>1, <2>2, <2>3
      <3>2. bytes[k] = buffer[k - begin]
        BY <2>1, <2>2, <2>3, <3>1 DEF Formatted
      <3> QED
        BY <1>8, <3>1, <3>2
    <2>4. CASE ~(k <= begin + m)
      <3>1. bytes[k] = 0 \/ bytes[k] = Relays!Received(n, zeroes)[k]
        BY <2>1, <2>2, <2>4 DEF Formatted
      <3>2. CASE k > n
        <4>1. Relays!Received(n, zeroes)[k] = buffer[k]
          BY <2>2, <3>2 DEF Relays!Received
        <4> QED
          BY <1>8, <2>2, <3>1, <4>1
      <3>3. CASE ~(k > n)
        <4>1. Relays!Received(n, zeroes)[k] \in {0, speaker + 1}
          BY <2>2, <3>3 DEF Relays!Received, Relays!Nul
        <4>2. said < n
          BY <1>1, <2>1, <2>4, <3>3
        <4> QED
          BY <3>1, <4>1, <4>2
      <3> QED
        BY <3>2, <3>3
    <2> QED
      BY <2>3, <2>4
  <1> HIDE DEF earlier
  <1>10. Relays!Whole(speaker + 1, earlier, n, zeroes, bytes)
    <2>1. Relays!LabelLength(Speakers[speaker + 1]) + 1 = begin
      <3>1. Relays!LabelLength(Digits) + 1 = begin
        BY <1>1 DEF Relays!LabelLength
      <3> QED
        BY <3>1 DEF Digits
    <2>2. total = begin + n + 3 - Speakers[speaker + 1]
      BY <1>3 DEF Digits
    <2>3. {bytes[k] : k \in (begin + Relays!Max({said, 0}) + 1)..Len(bytes)}
            \subseteq {0} \union earlier \union (IF earlier = {} THEN {} ELSE {-1})
                    \union (IF said < n THEN {speaker + 1} ELSE {})
      <3> DEFINE allowed == {0} \union earlier \union (IF earlier = {} THEN {} ELSE {-1})
                               \union (IF said < n THEN {speaker + 1} ELSE {})
                 places == (begin + Relays!Max({said, 0}) + 1)..total
      <3>1. \A k \in places : bytes[k] \in allowed
        BY <1>9
      <3> HIDE DEF allowed, places
      <3>2. {bytes[k] : k \in places} \subseteq allowed
        BY <3>1, Zenon
      <3>3. Len(bytes) = total
        BY <1>2
      <3> QED
        BY <3>2, <3>3 DEF allowed, places
    <2>4. \A k \in 1..Relays!Min({begin, Len(bytes)}) : bytes[k] = -1
      BY <1>2, <1>5
    <2> HIDE DEF bytes
    <2> QED
      BY <1>2, <1>6, <1>11, <2>1, <2>2, <2>3, <2>4 DEF Relays!Whole, Relays!Nul, Relays!Label
  <1> QED
    BY <1>2, <1>4, <1>10 DEF bytes, earlier

LEMMA RelayRelays ==
  ASSUME RelayIInv, NEW n \in {-1} \union 1..BufferSize, NEW zeroes \in Zeros(n),
         Relays!Relay(n, zeroes)
  PROVE  RelayIInv'
  <1> DEFINE begin == Relays!LabelLength(Digits) + 1
             string == Relays!StringIn(Relays!Received(n, zeroes))
             whole == Relays!Message(n, zeroes, Digits)
             after == [k \in 1..BufferSize |->
                         IF k <= Len(whole) THEN whole[k]
                         ELSE IF k = Len(whole) + 1 THEN Relays!Nul
                         ELSE Relays!Received(n, zeroes)[k]]
             bytes == IF overrun' THEN <<>> ELSE SubSeq(after, 1, Relays!SendLength(n))
  <1>1. /\ speaker < Len(Speakers) /\ ~overrun /\ speaker' = speaker + 1
        /\ lengths' = Append(lengths, n) /\ nuls' = Append(nuls, zeroes)
        /\ overrun' = Relays!Overruns(n, zeroes, Digits)
        /\ buffer' = (IF overrun' THEN buffer ELSE after)
        /\ relayed' = Append(relayed, bytes)
    BY DEF Relays!Relay, Digits
  <1>2. /\ BufferSize \in Nat /\ PrependSize \in Nat /\ PrependSize >= 4
        /\ Len(Speakers) \in Nat
    BY RelayAssumption, LenProperties
  <1>3. /\ speaker \in Nat /\ n \in {-1} \union 0..BufferSize /\ n \in Int /\ n # 0
        /\ buffer \in [1..BufferSize -> Relays!Label..Len(Speakers)]
    BY <1>2 DEF RelayIInv, RelayTypes, Relays!TypeOK
  <1>17. PICK said \in Int : said = Relays!Strlen(n, zeroes)
    BY <1>3, StrlenOf
  <1>18. zeroes \in SUBSET Nat
    BY DEF Zeros
  <1>4. PICK m \in 0..BufferSize :
           /\ string \in Seq(Int) /\ Len(string) = m
           /\ said <= n /\ said <= m /\ (said < n => said = m)
           /\ \A k \in 1..m : string[k] = (IF k <= n THEN speaker + 1 ELSE buffer[k])
           /\ \A k \in (n + 1)..m : k >= 1 => buffer[k] # 0
    <2>1. speaker < Len(Speakers) /\ said = Relays!Strlen(n, zeroes)
      BY <1>1, <1>17
    <2> HIDE DEF whole, after
    <2> QED
      BY <2>1, RelayedString
  <1>5. Digits \in Nat \ {0}
    BY <1>1, <1>2, <1>3, RelayAssumption, ElementOfSeq DEF Digits
  <1> HIDE DEF string, whole, after
  <1>6. /\ begin \in Nat /\ begin = PrependSize - 3 + Digits
        /\ Len(whole) = begin + m
        /\ \A k \in 1..begin : whole[k] = -1
        /\ \A k \in 1..m : whole[begin + k] = string[k]
    <2>1. whole = Relays!Prefix(Digits) \o string
      BY DEF whole, string, Relays!Message
    <2>2. string \in Seq(Int) /\ Len(string) = m
      BY <1>4
    <2> DEFINE lead == Relays!LabelLength(Digits) + 1
    <2>3. /\ lead \in Nat /\ lead = PrependSize - 3 + Digits
          /\ Len(Relays!Prefix(Digits) \o string) = lead + Len(string)
          /\ \A k \in 1..lead : (Relays!Prefix(Digits) \o string)[k] = -1
          /\ \A k \in 1..Len(string) :
               (Relays!Prefix(Digits) \o string)[lead + k] = string[k]
      BY ONLY <1>5, <2>2, RelayedMessage
    <2> QED
      BY <2>1, <2>2, <2>3
  <1>7. Relays!SendLength(n) = n + PrependSize
    BY DEF Relays!SendLength
  <1> HIDE DEF begin
  <1>8. overrun' <=> \/ Relays!LabelLength(Digits) >= PrependSize
                    \/ m = BufferSize
                    \/ begin + m >= BufferSize
                    \/ n + PrependSize > BufferSize
    BY <1>1, <1>4, <1>6, <1>7 DEF Relays!Overruns, string, whole
  <1>9. Relays!LabelLength(Digits) >= PrependSize <=> Digits > 3
    BY <1>2, <1>5 DEF Relays!LabelLength
  <1> HIDE DEF bytes
  <1>10. /\ after \in [1..BufferSize -> Relays!Label..Len(Speakers)]
         /\ after \in [1..BufferSize -> Int]
         /\ Formatted(after, begin, m, n, zeroes)
    <2>1. ASSUME NEW k \in 1..BufferSize
          PROVE  /\ after[k] = IF k <= begin THEN -1
                               ELSE IF k <= begin + m
                               THEN IF k - begin <= n THEN speaker + 1 ELSE buffer[k - begin]
                               ELSE IF k = begin + m + 1 THEN 0
                               ELSE Relays!Received(n, zeroes)[k]
                 /\ after[k] \in Relays!Label..Len(Speakers)
      <3>1. /\ after[k] = IF k <= begin + m THEN whole[k]
                          ELSE IF k = begin + m + 1 THEN 0 ELSE Relays!Received(n, zeroes)[k]
            /\ buffer[k] \in Relays!Label..Len(Speakers)
        BY <1>3, <1>6 DEF after, Relays!Nul
      <3>2. CASE k <= begin
        <4>1. k \in 1..begin /\ k <= begin + m /\ -1 \in Relays!Label..Len(Speakers)
          BY <1>2, <1>4, <1>6, <3>2 DEF Relays!Label
        <4> QED
          BY <1>6, <3>1, <3>2, <4>1
      <3>3. CASE ~(k <= begin) /\ k <= begin + m
        <4>1. /\ k - begin \in 1..m /\ begin + (k - begin) = k
              /\ k - begin \in 1..BufferSize
          BY <1>2, <1>4, <1>6, <3>3
        <4>2. whole[k] = IF k - begin <= n THEN speaker + 1 ELSE buffer[k - begin]
          BY <1>4, <1>6, <4>1
        <4>3. /\ speaker + 1 \in Relays!Label..Len(Speakers)
              /\ buffer[k - begin] \in Relays!Label..Len(Speakers)
          BY <1>1, <1>2, <1>3, <4>1 DEF Relays!Label
        <4> QED
          BY <3>1, <3>3, <4>2, <4>3
      <3>4. CASE ~(k <= begin + m)
        <4>1. ~(k <= begin)
          BY <1>3, <1>4, <1>6, <3>4
        <4>2. Relays!Received(n, zeroes)[k] \in {buffer[k], 0, speaker + 1}
          BY DEF Relays!Received, Relays!Nul
        <4>3. {0, speaker + 1} \subseteq Relays!Label..Len(Speakers)
          BY <1>1, <1>2, <1>3 DEF Relays!Label
        <4> QED
          BY <3>1, <3>4, <4>1, <4>2, <4>3
      <3> QED
        BY <3>2, <3>3, <3>4
    <2>2. after = [k \in 1..BufferSize |-> after[k]]
      BY DEF after
    <2>3. \A x \in Relays!Label..Len(Speakers) : x \in Int
      BY <1>2 DEF Relays!Label
    <2> QED
      BY <2>1, <2>2, <2>3 DEF Formatted
  <1>11. ~overrun' => /\ bytes \in Seq(Int)
                      /\ Relays!Whole(speaker + 1, Relays!Earlier(speaker + 1), n, zeroes,
                                      bytes)
    <2> SUFFICES ASSUME ~overrun'
                 PROVE  /\ SubSeq(after, 1, Relays!SendLength(n)) \in Seq(Int)
                        /\ Relays!Whole(speaker + 1, Relays!Earlier(speaker + 1), n, zeroes,
                                        SubSeq(after, 1, Relays!SendLength(n)))
      BY DEF bytes
    <2>1. begin + m < BufferSize /\ n + PrependSize <= BufferSize /\ Digits <= 3
      BY <1>2, <1>3, <1>4, <1>5, <1>6, <1>8, <1>9
    <2> QED
      BY <1>1, <1>2, <1>3, <1>4, <1>5, <1>6, <1>10, <1>17, <2>1, RelayedWhole
  <1>12. bytes \in Seq(Int)
    BY <1>11, EmptySeq DEF bytes
  <1>13. /\ speaker' \in 1..Len(Speakers)
         /\ lengths' \in Seq({-1} \union 0..BufferSize) /\ Len(lengths') = speaker'
         /\ nuls' \in Seq(SUBSET Nat) /\ Len(nuls') = speaker'
         /\ relayed' \in Seq(Seq(Int)) /\ Len(relayed') = speaker'
         /\ \A s \in 1..speaker :
              lengths'[s] = lengths[s] /\ nuls'[s] = nuls[s] /\ relayed'[s] = relayed[s]
         /\ lengths'[speaker'] = n /\ nuls'[speaker'] = zeroes
         /\ relayed'[speaker'] = bytes
         /\ Relays!Longest \in Nat /\ Relays!Longest' \in Nat
         /\ Relays!Longest <= Relays!Longest' /\ n <= Relays!Longest'
         /\ Relays!Prefixes(lengths) \in Nat
         /\ Relays!Prefixes(lengths)' = Relays!Prefixes(lengths) + begin
         /\ \A s \in 1..(speaker + 1) : Relays!Earlier(s)' = Relays!Earlier(s)
         /\ \A p, byte \in Int : Trace(p, byte) => Trace(p, byte)'
    <2>1. /\ Relays!Prefixes(lengths)' = Relays!Prefixes(lengths)
              + (IF n = 0 THEN 0 ELSE Relays!LabelLength(Speakers[speaker']) + 1)
          /\ speaker' \in 1..Len(Speakers)
          /\ lengths' \in Seq({-1} \union 0..BufferSize) /\ Len(lengths') = speaker'
          /\ nuls' \in Seq(SUBSET Nat) /\ Len(nuls') = speaker'
          /\ relayed' \in Seq(Seq(Int)) /\ Len(relayed') = speaker'
          /\ \A s \in 1..speaker :
               lengths'[s] = lengths[s] /\ nuls'[s] = nuls[s] /\ relayed'[s] = relayed[s]
          /\ lengths'[speaker'] = n /\ nuls'[speaker'] = zeroes
          /\ relayed'[speaker'] = bytes
          /\ Relays!Longest \in Nat /\ Relays!Longest' \in Nat
          /\ Relays!Longest <= Relays!Longest' /\ n <= Relays!Longest'
          /\ Relays!Prefixes(lengths) \in Nat
          /\ \A s \in 1..(speaker + 1) : Relays!Earlier(s)' = Relays!Earlier(s)
          /\ \A p, byte \in Int : Trace(p, byte) => Trace(p, byte)'
      BY <1>1, <1>3, <1>12, <1>18, RelayGrows DEF RelayIInv
    <2>2. Relays!LabelLength(Speakers[speaker']) + 1 = begin
      BY <1>1 DEF begin, Digits
    <2> QED
      BY <1>3, <2>1, <2>2
  <1>14. RelayTypes'
    <2>1. overrun' \in BOOLEAN
      BY <1>8
    <2>2. buffer' \in [1..BufferSize -> Relays!Label..Len(Speakers)]
      BY <1>1, <1>3, <1>10
    <2> QED
      BY <1>2, <1>13, <2>1, <2>2 DEF RelayTypes, Relays!TypeOK
  <1>15. RelayTraces'
    <2>1. \A q \in 1..BufferSize : q \in Int /\ buffer[q] \in Int /\ buffer'[q] \in Int
      BY <1>1, <1>2, <1>3, <1>10 DEF Relays!Label
    <2> SUFFICES ASSUME NEW p \in 1..BufferSize, NEW byte \in Int,
                        byte = buffer'[p], byte # 0
                 PROVE  Trace(p, byte)'
      BY <2>1 DEF RelayTraces, Trace
    <2>2. \A q \in 1..BufferSize : buffer[q] = byte => Trace(q, byte) /\ Trace(q, byte)'
      BY <1>13, <2>1 DEF RelayIInv, RelayTraces
    <2>3. CASE overrun'
      BY <1>1, <2>2, <2>3
    <2>4. CASE ~overrun'
      <3>1. byte = IF p <= begin THEN -1
                   ELSE IF p <= begin + m
                   THEN IF p - begin <= n THEN speaker + 1 ELSE buffer[p - begin]
                   ELSE IF p = begin + m + 1 THEN 0
                   ELSE Relays!Received(n, zeroes)[p]
        BY <1>1, <1>10, <2>4 DEF Formatted
      <3>2. speaker' \in 1..speaker' /\ lengths'[speaker'] # 0
        BY <1>1, <1>3, <1>13
      <3>3. /\ Relays!Prefixes(lengths)' \in Nat /\ begin <= Relays!Prefixes(lengths)'
            /\ Relays!Longest' \in Nat /\ n <= Relays!Longest' /\ begin \in Nat
        <4>1. /\ Relays!Prefixes(lengths)' = Relays!Prefixes(lengths) + begin
              /\ Relays!Prefixes(lengths) \in Nat /\ begin \in Nat
          BY <1>6, <1>13
        <4> QED
          BY <1>13, <4>1
      <3>4. CASE p <= begin
        <4>1. byte = -1
          BY <3>1, <3>4
        <4>2. p <= Relays!Prefixes(lengths)' + Relays!Longest'
          BY <3>3, <3>4
        <4> QED
          BY <3>2, <4>1, <4>2 DEF Trace
      <3>5. CASE ~(p <= begin) /\ p <= begin + m /\ p - begin <= n
        <4>1. byte = speaker'
          BY <1>1, <3>1, <3>5
        <4>2. p <= Relays!Prefixes(lengths)' + Relays!Longest'
          BY <1>3, <3>3, <3>5
        <4> QED
          BY <3>2, <4>1, <4>2 DEF Trace
      <3>6. CASE ~(p <= begin) /\ p <= begin + m /\ ~(p - begin <= n)
        <4>1. PICK q \in 1..BufferSize : q = p - begin /\ buffer[q] = byte
          <5>1. p - begin \in 1..BufferSize /\ byte = buffer[p - begin]
            BY <1>2, <1>6, <3>1, <3>6, SMTT(60)
          <5> QED
            BY <5>1
        <4>2. Trace(q, byte) /\ Trace(q, byte)'
          BY <2>2, <4>1
        <4>3. q <= Relays!Prefixes(lengths) + Relays!Longest
          BY <4>2 DEF Trace
        <4>4. /\ Relays!Prefixes(lengths)' = Relays!Prefixes(lengths) + begin
              /\ Relays!Prefixes(lengths) \in Nat /\ Relays!Longest \in Nat
              /\ Relays!Longest <= Relays!Longest'
          BY <1>13
        <4>5. p <= Relays!Prefixes(lengths)' + Relays!Longest'
          BY <1>2, <3>3, <4>1, <4>3, <4>4
        <4> QED
          BY <4>2, <4>5 DEF Trace
      <3>7. CASE ~(p <= begin) /\ ~(p <= begin + m) /\ p > n
        <4>1. byte = buffer[p]
          BY <3>1, <3>7 DEF Relays!Received
        <4> QED
          BY <2>2, <4>1
      <3>8. CASE ~(p <= begin) /\ ~(p <= begin + m) /\ ~(p > n)
        <4>1. byte = speaker'
          BY <1>1, <3>1, <3>8 DEF Relays!Received, Relays!Nul
        <4>2. p <= Relays!Prefixes(lengths)' + Relays!Longest'
          BY <1>3, <3>3, <3>8
        <4> QED
          BY <3>2, <4>1, <4>2 DEF Trace
      <3> QED
        BY <3>4, <3>5, <3>6, <3>7, <3>8
    <2> QED
      BY <2>3, <2>4
  <1>16. Relays!RelayedText'
    <2>1. ASSUME NEW s \in 1..speaker', relayed'[s] # <<>>
          PROVE  Relays!Whole(s, Relays!Earlier(s)', lengths'[s], nuls'[s], relayed'[s])
      <3>1. CASE s = speaker'
        <4>1. ~overrun'
          BY <1>13, <2>1, <3>1 DEF bytes
        <4>2. s = speaker + 1 /\ s \in 1..(speaker + 1)
          BY <1>1, <1>3, <3>1
        <4> QED
          BY <1>11, <1>13, <3>1, <4>1, <4>2
      <3>2. CASE s # speaker'
        <4>1. s \in 1..speaker /\ s \in 1..(speaker + 1)
          BY <1>1, <1>3, <2>1, <3>2
        <4> QED
          BY <1>13, <2>1, <4>1 DEF RelayIInv, Relays!RelayedText
      <3> QED
        BY <3>1, <3>2
    <2>2. ASSUME overrun'
          PROVE  \/ Digits > 3
                 \/ Relays!Prefixes(lengths)' + Relays!Longest' >= BufferSize
                 \/ n + PrependSize > BufferSize
      <3>1. CASE m = BufferSize \/ begin + m >= BufferSize
        <4>1. m <= Relays!Prefixes(lengths) + Relays!Longest'
          <5>1. CASE m <= n \/ m = 0
            BY <1>3, <1>13, <5>1
          <5>2. CASE ~(m <= n) /\ m # 0
            <6>1. m \in 1..BufferSize /\ m \in (n + 1)..m /\ m >= 1
              BY <1>2, <1>3, <5>2
            <6>2. Trace(m, buffer[m])
              BY <1>4, <6>1 DEF RelayIInv, RelayTraces
            <6>3. m <= Relays!Prefixes(lengths) + Relays!Longest
              BY <6>2 DEF Trace
            <6> QED
              BY <1>13, <6>3
          <5> QED
            BY <5>1, <5>2
        <4>2. /\ Relays!Prefixes(lengths)' = Relays!Prefixes(lengths) + begin
              /\ Relays!Prefixes(lengths) \in Nat /\ Relays!Longest' \in Nat
              /\ begin \in Nat /\ m \in Nat
          BY <1>2, <1>6, <1>13
        <4> QED
          BY <1>2, <3>1, <4>1, <4>2
      <3> QED
        BY <1>8, <1>9, <2>2, <3>1
    <2>3. Speakers[speaker'] = Digits /\ lengths'[speaker'] = n
      BY <1>1, <1>13 DEF Digits
    <2> QED
      BY <2>1, <2>2, <2>3 DEF Relays!RelayedText
  <1> QED
    BY <1>14, <1>15, <1>16 DEF RelayIInv

LEMMA RelayStepIInv ==
  ASSUME RelayIInv, [ConnNext]_connVars
  PROVE  RelayIInv'
  <1>1. Relays!Next \/ UNCHANGED relayVars
    BY RelaySteps
  <1>2. CASE Relays!Pass
    <2>1. /\ buffer' = Relays!Zeroes /\ speaker' = 0 /\ lengths' = <<>>
          /\ nuls' = <<>> /\ relayed' = <<>> /\ overrun' = FALSE
      BY <1>2 DEF Relays!Pass, RelayIInv, RelayTypes, Relays!TypeOK
    <2> QED
      BY <2>1, RelayClean
  <1>3. CASE Relays!Silent
    BY <1>3, RelaySilent
  <1>4. ASSUME NEW n \in {-1} \union 1..BufferSize, NEW zeroes \in Zeros(n),
               Relays!Relay(n, zeroes)
        PROVE  RelayIInv'
    BY <1>4, RelayRelays
  <1>5. CASE UNCHANGED relayVars
    BY <1>5 DEF relayVars, RelayIInv, RelayTypes, RelayTraces, Trace, Relays!TypeOK,
       Relays!RelayedText, Relays!Prefixes, Relays!Longest, Relays!Earlier
  <1> QED
    BY <1>1, <1>2, <1>3, <1>4, <1>5 DEF Relays!Next, Zeros

\* Everybody gets the prefix and the text up to its first zero byte, then nothing but
\* zeroes, what such a byte has cut off, and what an earlier text of the same pass has
\* left, and sprintf() and strcpy() stay inside their arrays unless a bound that
\* RelayedText names is passed.
THEOREM RelayCorrect == ConnSpec => []RelayedText
  <1>1. RelayIInv => RelayedText
    BY DEF RelayIInv, RelayedText
  <1> QED
    BY <1>1, RelayInitIInv, RelayStepIInv, PTL DEF ConnSpec

-----------------------------------------------------------------------------
(* The types of all programs: what the invariants above leave out. *)

\* The uploads: FileTransferProofs has shown it of the server alone.
LEMMA UploadTypes ==
  /\ ConnInit => IInv
  /\ IInv /\ [ConnNext]_connVars => IInv'
  /\ IInv => TypeOK
  <1>1. ConnInit => IInv
    BY InitIInv DEF ConnInit
  <1>2. ASSUME [ConnNext]_connVars PROVE [Next]_vars
    BY <1>2 DEF ConnNext, MainStep, StepOf, Optional, Ended, Only, connVars, Next
  <1>3. ASSUME IInv PROVE TypeOK
    <2>1. Types
      BY <1>3 DEF IInv
    <2>2. Cardinality(current) <= 1
      <3>1. current = {} \/ \E k \in Clients : current = {k}
        BY <1>3 DEF IInv, ParentInv
      <3>2. Cardinality({}) = 0 /\ \A k \in Clients : Cardinality({k}) = 1
        BY FS_EmptySet, FS_Singleton
      <3> QED
        BY <3>1, <3>2
    <2>3. file \in Seq(Clients \X (1..MaxBlocks))
      <3>1. PICK k \in Clients, n \in 0..MaxBlocks : file = Blocks(k, n)
        BY <1>3 DEF IInv, FileInv
      <3>2. n \in Nat /\ \A j \in 1..n : <<k, j>> \in Clients \X (1..MaxBlocks)
        BY TransferAssumption
      <3>3. file \in [1..n -> Clients \X (1..MaxBlocks)]
        BY <3>1, <3>2 DEF Blocks
      <3> QED
        BY <3>2, <3>3, SeqDef
    <2> QED
      BY <2>1, <2>2, <2>3 DEF Types, TypeOK
  <1> QED
    BY <1>1, <1>2, <1>3, StepIInv

\* UnixStreamSocketServer.c gives up behind the last address.
GreetAddress ==
    /\ address \in 1..(Addresses + 1)
    /\ server = "address" => address <= Addresses

LEMMA GreetAddressKept ==
  /\ ConnInit => GreetAddress
  /\ GreetAddress /\ [ConnNext]_connVars => GreetAddress'
  <1> USE GreetAssumption DEF GreetAddress
  <1>1. ConnInit => GreetAddress
    BY DEF ConnInit, Greet!Init
  <1>2. ASSUME GreetAddress, [ConnNext]_connVars PROVE GreetAddress'
    <2>1. CASE Greet!NextAddress
      BY <1>2, <2>1 DEF Greet!NextAddress
    <2>2. CASE UNCHANGED address /\ (server' = "address" => server = "address")
      BY <1>2, <2>2
    <2>3. CASE Greet!Process
      BY <2>1, <2>2, <2>3 DEF Greet!Process, Greet!Bind, Greet!SetUpFails, Greet!Listen,
         Greet!Accept, Greet!Fork, Greet!ForkFails, Greet!Return, Greet!Reap,
         Greet!HelperClose, Greet!HelperSend, Greet!HelperReturn
    <2>4. ASSUME NEW k \in Guests,
                 Greet!Connect(k) \/ Greet!NoSocket(k) \/ Greet!KillGuest(k) \/ Greet!Guest(k)
          PROVE  GreetAddress'
      BY <2>2, <2>4 DEF Greet!Connect, Greet!NoSocket, Greet!KillGuest, Greet!Guest,
         Greet!RecvClosed, Greet!Recv, Greet!serverVars
    <2>5. CASE UNCHANGED greetingVars
      BY <2>2, <2>5 DEF greetingVars
    <2> QED
      BY <1>2, <2>3, <2>4, <2>5, GreetSteps DEF Greet!Next
  <1> QED
    BY <1>1, <1>2

\* The queue of the Unix domain socket never gets longer than listen() allows.
LocalRoom == Len(backlogged) <= QueueLen

LEMMA LocalRoomKept ==
  /\ ConnInit => LocalRoom
  /\ LocalIInv /\ LocalRoom /\ [ConnNext]_connVars => LocalRoom'
  <1>1. ASSUME ConnInit PROVE LocalRoom
    <2>1. backlogged = <<>> /\ Len(<<>>) = 0
      BY <1>1, EmptySeq DEF ConnInit, Local!Init
    <2> QED
      BY <2>1, QueueLenAssumption DEF LocalRoom
  <1>2. ASSUME LocalIInv, LocalRoom, [ConnNext]_connVars PROVE LocalRoom'
    <2>1. backlogged \in Seq(Locals) /\ Len(backlogged) \in Nat /\ QueueLen \in Nat
      BY <1>2, QueueLenAssumption, LenProperties DEF LocalIInv, LocalTypes
    <2>2. CASE backlogged' = backlogged
      BY <1>2, <2>2 DEF LocalRoom
    <2>3. ASSUME NEW k \in Locals, Len(backlogged) < QueueLen,
                 backlogged' = Append(backlogged, k)
          PROVE  LocalRoom'
      <3>1. Len(backlogged') = Len(backlogged) + 1
        BY <2>1, <2>3, AppendProperties
      <3> QED
        BY <2>1, <2>3, <3>1 DEF LocalRoom
    <2>4. CASE backlogged # <<>> /\ backlogged' = Tail(backlogged)
      <3>1. Len(backlogged') = Len(backlogged) - 1
        BY <2>1, <2>4, HeadTailProperties
      <3> QED
        BY <1>2, <2>1, <3>1 DEF LocalRoom
    <2>5. CASE backlogged' = <<>>
      <3>1. Len(backlogged') = 0
        BY <2>5, EmptySeq
      <3> QED
        BY <2>1, <3>1 DEF LocalRoom
    <2>6. CASE UNCHANGED localVars
      BY <2>2, <2>6 DEF localVars
    <2>7. ASSUME NEW s \in Servers, Local!Server(s) \/ Local!Kill(s) PROVE LocalRoom'
      BY <2>2, <2>4, <2>5, <2>7
      DEF Local!Server, Local!Socket, Local!Bind, Local!Listen, Local!Fails, Local!Accept, Local!Close,
          Local!Kill
    <2>8. ASSUME NEW k \in Locals, Local!Connect(k) PROVE LocalRoom'
      BY <2>2, <2>3, <2>8 DEF Local!Connect
    <2> QED
      BY <1>2, <2>6, <2>7, <2>8, LocalSteps DEF Local!Next
  <1> QED
    BY <1>1, <1>2

-----------------------------------------------------------------------------
(* UnixDatagramSocketServer.c. *)

GramSizes ==
    /\ flight \subseteq Gram!Datagrams
    /\ copies \in 0..MaxCopies
    /\ text = <<>> \/ text \in Senders \X (0..(MaxBytes - 1))
    /\ zeroAt \in 0..MaxBytes
    /\ report = <<>> \/ report \in Senders \X (0..MaxBytes) \X {Gram!IntSize}

LEMMA GramSizesKept ==
  /\ ConnInit => GramSizes
  /\ GramIInv /\ GramSizes /\ [ConnNext]_connVars => GramSizes'
  <1>1. ConnInit => GramSizes
    BY DatagramAssumption, MaxCopiesAssumption DEF ConnInit, Gram!Init, GramSizes
  <1>2. ASSUME GramIInv, GramSizes, [ConnNext]_connVars PROVE GramSizes'
    <2> USE DatagramAssumption, MaxCopiesAssumption
    <2>1. /\ flight \subseteq Gram!Datagrams /\ copies \in 0..MaxCopies /\ zeroAt \in 0..MaxBytes
          /\ text = <<>> \/ text \in Senders \X (0..(MaxBytes - 1))
          /\ report = <<>> \/ report \in Senders \X (0..MaxBytes) \X {Gram!IntSize}
          /\ byteTotal \in 0..(MaxBytes - 1)
      BY <1>2 DEF GramSizes, GramIInv
    <2>2. ASSUME NEW s \in Senders, Gram!SendTo(s) \/ Gram!SendFails(s) PROVE GramSizes'
      <3>1. flight' \subseteq Gram!Datagrams
        BY <2>1, <2>2 DEF Gram!SendTo, Gram!SendFails, Gram!Datagrams
      <3>2. UNCHANGED <<copies, text, zeroAt, report>>
        BY <2>2 DEF Gram!SendTo, Gram!SendFails
      <3> QED
        BY <2>1, <3>1, <3>2 DEF GramSizes
    <2>3. ASSUME NEW d \in Gram!Datagrams, Gram!Arrive(d) PROVE GramSizes'
      <3>1. flight' \subseteq flight /\ UNCHANGED <<text, zeroAt, report>>
        BY <2>3 DEF Gram!Arrive
      <3>2. copies' \in 0..MaxCopies
        <4>1. copies' = copies \/ (copies < MaxCopies /\ copies' = copies + 1)
          BY <2>3 DEF Gram!Arrive
        <4> QED
          BY <2>1, <4>1
      <3> QED
        BY <2>1, <3>1, <3>2 DEF GramSizes
    <2>4. CASE Gram!Bind \/ UNCHANGED datagramVars
      BY <2>1, <2>4 DEF Gram!Bind, datagramVars, GramSizes
    <2>5. CASE Gram!RecvFrom
      <3>1. Head(arrived) \in Senders \X Lengths
        <4>1. arrived \in Seq(Senders \X Lengths) /\ arrived # <<>>
          BY <1>2, <2>5 DEF GramIInv, Gram!RecvFrom
        <4> QED
          BY <4>1, HeadTailProperties
      <3>2. Head(arrived)[1] \in Senders /\ Head(arrived)[2] \in Nat
        BY <3>1
      <3>3. byteTotal' \in 0..(MaxBytes - 1)
        <4>1. \A n \in Nat : Gram!Cut(n) \in 0..(MaxBytes - 1)
          BY DEF Gram!Cut
        <4> QED
          BY <2>5, <3>2, <4>1 DEF Gram!RecvFrom
      <3>4. text' \in Senders \X (0..(MaxBytes - 1))
        BY <2>5, <3>2, <3>3 DEF Gram!RecvFrom
      <3>5. zeroAt' \in 0..MaxBytes
        <4>1. zeroAt' \in byteTotal'..MaxBytes \/ zeroAt' = zeroAt
          BY <2>5 DEF Gram!RecvFrom
        <4> QED
          BY <2>1, <3>3, <4>1
      <3>6. UNCHANGED <<flight, copies, report>>
        BY <2>5 DEF Gram!RecvFrom
      <3> QED
        BY <2>1, <3>4, <3>5, <3>6 DEF GramSizes
    <2>6. CASE Gram!PrintText
      <3>1. /\ UNCHANGED <<flight, copies, text, zeroAt>>
            /\ report' = <<text[1], zeroAt, Gram!IntSize>>
            /\ receiver = "print"
        BY <2>6 DEF Gram!PrintText
      <3>2. text[1] \in Senders
        <4>1. PICK s \in Senders : text = <<s, byteTotal>>
          BY <1>2, <3>1 DEF GramIInv
        <4> QED
          BY <4>1
      <3>3. report' \in Senders \X (0..MaxBytes) \X {Gram!IntSize}
        BY <2>1, <3>1, <3>2
      <3> QED
        BY <2>1, <3>1, <3>3 DEF GramSizes
    <2>7. CASE Gram!Terminate
      <3>1. UNCHANGED <<flight, copies, text, report>> /\ zeroAt' = byteTotal
        BY <2>7 DEF Gram!Terminate
      <3>2. zeroAt' \in 0..MaxBytes
        BY <2>1, <3>1
      <3> QED
        BY <2>1, <3>1, <3>2 DEF GramSizes
    <2> QED
      BY <1>2, <2>2, <2>3, <2>4, <2>5, <2>6, <2>7, GramSteps DEF Gram!Next, Gram!Receiver
  <1> QED
    BY <1>1, <1>2

-----------------------------------------------------------------------------
(* UnixTelnetClient.c. *)

\* What the server sends, what printf() adds to it, and the notice.
Bytes == 0..ServerBytes
Printable == -1..ServerBytes
Displayable == -2..ServerBytes

TelnetSizes ==
    /\ wild \in BOOLEAN
    /\ typed \in 0..UserLines /\ line \in 0..UserLines
    /\ delivered \in Seq(1..UserLines)
    /\ served \in Seq(Bytes) /\ inbound \in Seq(Bytes)
    /\ stdio \in Seq(Printable) /\ screen \in Seq(Displayable)

LEMMA WiderSeq ==
  ASSUME NEW S, NEW T, S \subseteq T, NEW s \in Seq(S)
  PROVE  s \in Seq(T)
  <1>1. Len(s) \in Nat /\ \A k \in 1..Len(s) : s[k] \in T
    BY LenProperties, ElementOfSeq
  <1>2. s \in [1..Len(s) -> T]
    BY <1>1, LenProperties
  <1> QED
    BY <1>1, <1>2, SeqDef

\* printf() and fflush(), for the types.
LEMMA TelnetPrints ==
  ASSUME TelnetSizes, NEW bytes
  PROVE  /\ bytes \in Seq(Printable) /\ Telnet!Printf(bytes) =>
              stdio' \in Seq(Printable) /\ screen' \in Seq(Displayable)
         /\ bytes \in Seq(Displayable) /\ Telnet!Flush(bytes) =>
              stdio' \in Seq(Printable) /\ screen' \in Seq(Displayable)
  <1>1. stdio \in Seq(Printable) /\ screen \in Seq(Displayable)
    BY DEF TelnetSizes
  <1>2. Printable \subseteq Displayable
    BY TelnetAssumption DEF Printable, Displayable
  <1>3. stdio \in Seq(Displayable)
    BY <1>1, <1>2, WiderSeq
  <1>4. screen \o stdio \in Seq(Displayable)
    BY <1>1, <1>3, ConcatProperties
  <1>5. ASSUME bytes \in Seq(Displayable) PROVE (screen \o stdio) \o bytes \in Seq(Displayable)
    BY <1>4, <1>5, ConcatProperties
  <1>6. ASSUME bytes \in Seq(Printable)
        PROVE  bytes \in Seq(Displayable) /\ stdio \o bytes \in Seq(Printable)
    <2>1. bytes \in Seq(Displayable)
      BY <1>2, <1>6, WiderSeq
    <2> QED
      BY <1>1, <1>6, <2>1, ConcatProperties
  <1>7. <<>> \in Seq(Printable)
    BY EmptySeq
  <1> QED
    BY <1>1, <1>5, <1>6, <1>7 DEF Telnet!Printf, Telnet!Flush

LEMMA TelnetSizesKept ==
  /\ ConnInit => TelnetSizes
  /\ TelnetSizes /\ [ConnNext]_connVars => TelnetSizes'
  /\ TelnetIInv /\ TelnetSizes => Telnet!TypeOK
  <1> DEFINE Output == stdio' \in Seq(Printable) /\ screen' \in Seq(Displayable)
  <1>1. ConnInit => TelnetSizes
    <2>1. \A S : <<>> \in Seq(S)
      BY EmptySeq
    <2>2. 0 \in 0..UserLines
      BY TelnetAssumption
    <2> QED
      BY <2>1, <2>2 DEF ConnInit, Telnet!Init, TelnetSizes
  <1>2. ASSUME TelnetSizes, Telnet!Next PROVE TelnetSizes'
    <2>1. /\ wild \in BOOLEAN /\ typed \in 0..UserLines /\ line \in 0..UserLines
          /\ delivered \in Seq(1..UserLines)
          /\ served \in Seq(Bytes) /\ inbound \in Seq(Bytes)
          /\ stdio \in Seq(Printable) /\ screen \in Seq(Displayable)
      BY <1>2 DEF TelnetSizes
    <2>2. ASSUME UNCHANGED <<wild, typed, line, delivered, served, inbound>>, Output
          PROVE  TelnetSizes'
      BY <2>1, <2>2 DEF TelnetSizes
    <2>3. CASE Telnet!Exit
      <3>1. UNCHANGED <<wild, typed, line, delivered, served, inbound>> /\ Telnet!Flush(<<>>)
        BY <2>3 DEF Telnet!Exit, Telnet!connection
      <3>2. <<>> \in Seq(Displayable)
        BY EmptySeq
      <3> QED
        BY <1>2, <2>2, <3>1, <3>2, TelnetPrints
    <2>4. CASE Telnet!RecvZero
      <3>1. UNCHANGED <<wild, typed, line, delivered, served, inbound>> /\ Telnet!Flush(<<-2>>)
        BY <2>4 DEF Telnet!RecvZero, Telnet!connection, Telnet!Notice
      <3>2. -2 \in Displayable
        BY TelnetAssumption DEF Displayable
      <3>3. <<-2>> \in Seq(Displayable)
        BY <3>2
      <3> QED
        BY <1>2, <2>2, <3>1, <3>3, TelnetPrints
    <2>5. CASE Telnet!Connect
      <3>1. UNCHANGED <<wild, typed, line, delivered, served, inbound>> /\ Telnet!Printf(<<-1>>)
        BY <2>5 DEF Telnet!Connect, Telnet!connection, Telnet!Connected
      <3>2. -1 \in Printable
        BY TelnetAssumption DEF Printable
      <3>3. <<-1>> \in Seq(Printable)
        BY <3>2
      <3> QED
        BY <1>2, <2>2, <3>1, <3>3, TelnetPrints
    <2>6. CASE \/ Telnet!NoSocket \/ Telnet!PthreadCreate \/ Telnet!SendFails \/ Telnet!SigPipe
               \/ Telnet!RecvFails \/ Telnet!RecvCrashes
      <3>1. UNCHANGED <<wild, typed, line, delivered, served, inbound, stdio, screen>>
        BY <2>6 DEF Telnet!NoSocket, Telnet!PthreadCreate, Telnet!SendFails, Telnet!SigPipe,
           Telnet!RecvFails, Telnet!RecvCrashes, Telnet!connection
      <3> QED
        BY <2>1, <2>2, <3>1
    <2>7. CASE Telnet!Fgets
      <3>1. UNCHANGED <<wild, delivered, served, inbound, stdio, screen>>
        BY <2>7 DEF Telnet!Fgets, Telnet!connection
      <3>2. \/ typed < UserLines /\ typed' = typed + 1 /\ line' = typed'
            \/ line' = 0 /\ typed' = typed
        BY <2>7 DEF Telnet!Fgets
      <3>3. typed' \in 0..UserLines /\ line' \in 0..UserLines
        BY <2>1, <3>2, TelnetAssumption
      <3> QED
        BY <2>1, <3>1, <3>3 DEF TelnetSizes
    <2>8. CASE Telnet!Send
      <3>1. UNCHANGED <<wild, typed, line, served, inbound, stdio, screen>>
        BY <2>8 DEF Telnet!Send, Telnet!connection
      <3>2. delivered' = delivered \/ (line # 0 /\ delivered' = Append(delivered, line))
        BY <2>8 DEF Telnet!Send
      <3>3. line # 0 => line \in 1..UserLines
        BY <2>1
      <3>4. delivered' \in Seq(1..UserLines)
        <4>1. CASE line # 0 /\ delivered' = Append(delivered, line)
          BY <2>1, <3>3, <4>1, AppendProperties
        <4> QED
          BY <2>1, <3>2, <4>1
      <3> QED
        BY <2>1, <3>1, <3>4 DEF TelnetSizes
    <2>9. ASSUME NEW n \in 1..BufferBytes, Telnet!RecvBytes(n) PROVE TelnetSizes'
      <3>1. /\ n <= Len(inbound) /\ n \in Nat /\ n >= 1
            /\ UNCHANGED <<typed, line, delivered, served>>
            /\ inbound' = SubSeq(inbound, n + 1, Len(inbound))
            /\ Telnet!Printf(Telnet!Text(SubSeq(inbound, 1, n)))
        BY <2>9 DEF Telnet!RecvBytes
      <3>8. wild' \in BOOLEAN
        <4>1. wild' \in {FALSE, n = BufferBytes}
          BY <2>9 DEF Telnet!RecvBytes
        <4>2. (n = BufferBytes) \in BOOLEAN
          OBVIOUS
        <4> QED
          BY <4>1, <4>2, Zenon
      <3>2. Len(inbound) \in Nat /\ \A k \in 1..Len(inbound) : inbound[k] \in Bytes
        BY <2>1, LenProperties, ElementOfSeq
      <3>3. SubSeq(inbound, 1, n) \in Seq(Bytes)
        BY <3>1, <3>2, SubSeqProperties
      <3>4. inbound' \in Seq(Bytes)
        BY <3>1, <3>2, SubSeqProperties
      <3>5. Bytes \subseteq Printable
        BY TelnetAssumption DEF Bytes, Printable
      <3>6. Telnet!Text(SubSeq(inbound, 1, n)) \in Seq(Printable)
        <4>1. Telnet!Text(SubSeq(inbound, 1, n)) \in Seq(Bytes)
          BY <3>3, TextOf
        <4> QED
          BY <3>5, <4>1, WiderSeq
      <3>7. Output
        BY <1>2, <3>1, <3>6, TelnetPrints
      <3> QED
        BY <2>1, <3>1, <3>4, <3>7, <3>8 DEF TelnetSizes
    <2>10. CASE Telnet!Network
      <3>1. UNCHANGED <<wild, typed, line, delivered, stdio, screen>>
        BY <2>10 DEF Telnet!Network
      <3>2. served' \in Seq(Bytes) /\ inbound' \in Seq(Bytes)
        <4>1. ASSUME NEW byte \in Bytes, Telnet!ServerSends(byte)
              PROVE  served' \in Seq(Bytes) /\ inbound' \in Seq(Bytes)
          BY <2>1, <4>1, AppendProperties DEF Telnet!ServerSends
        <4>2. Telnet!ServerSends(Len(served) + 1) => Len(served) + 1 \in Bytes
          <5>1. Len(served) \in Nat
            BY <2>1, LenProperties
          <5>2. Telnet!ServerSends(Len(served) + 1) => Len(served) < ServerBytes
            BY DEF Telnet!ServerSends
          <5> QED
            BY <5>1, <5>2, TelnetAssumption DEF Bytes
        <4>3. 0 \in Bytes
          BY TelnetAssumption DEF Bytes
        <4>4. CASE Telnet!ServerCloses
          BY <2>1, <4>4 DEF Telnet!ServerCloses
        <4>5. CASE Telnet!Resets
          <5>1. served' = served /\ (inbound' = inbound \/ inbound' = <<>>)
            BY <4>5 DEF Telnet!Resets
          <5> QED
            BY <2>1, <5>1, EmptySeq
        <4> QED
          BY <2>10, <4>1, <4>2, <4>3, <4>4, <4>5 DEF Telnet!Network, Telnet!Nul
      <3> QED
        BY <2>1, <3>1, <3>2 DEF TelnetSizes
    <2> QED
      BY <1>2, <2>3, <2>4, <2>5, <2>6, <2>7, <2>8, <2>9, <2>10
      DEF Telnet!Next, Telnet!MainThread, Telnet!ThreadRead
  <1>3. ASSUME TelnetSizes, [ConnNext]_connVars PROVE TelnetSizes'
    <2>1. CASE UNCHANGED telnetVars
      BY <1>3, <2>1 DEF telnetVars, TelnetSizes
    <2> QED
      BY <1>2, <1>3, <2>1, TelnetSteps
  <1>4. ASSUME TelnetIInv, TelnetSizes PROVE Telnet!TypeOK
    BY <1>4 DEF TelnetIInv, TelnetTypes, TelnetSizes, Telnet!TypeOK, Telnet!Nul,
       Telnet!Connected, Telnet!Notice, Bytes, Printable, Displayable
  <1> QED
    BY <1>1, <1>3, <1>4

-----------------------------------------------------------------------------
\* Every program of this module stays within its types, for every value of the
\* constants.
ConnTypesIInv ==
    /\ IInv
    /\ GreetIInv /\ GreetAddress
    /\ LocalIInv /\ LocalRoom
    /\ GramIInv /\ GramSizes
    /\ TelnetIInv /\ TelnetSizes
    /\ RelayIInv

THEOREM ConnTypesCorrect == ConnSpec => []ConnTypeOK
  <1>1. ConnInit => ConnTypesIInv
    BY UploadTypes, GreetInitIInv, GreetAddressKept, LocalInitIInv, LocalRoomKept,
       GramInitIInv, GramSizesKept, TelnetInitIInv, TelnetSizesKept, RelayInitIInv
    DEF ConnTypesIInv
  <1>2. ConnTypesIInv /\ [ConnNext]_connVars => ConnTypesIInv'
    BY UploadTypes, GreetStepIInv, GreetAddressKept, LocalStepIInv, LocalRoomKept,
       GramStepIInv, GramSizesKept, TelnetStepIInv, TelnetSizesKept, RelayStepIInv
    DEF ConnTypesIInv
  <1>3. ConnTypesIInv => ConnTypeOK
    <2> SUFFICES ASSUME ConnTypesIInv PROVE ConnTypeOK
      OBVIOUS
    <2>1. TypeOK /\ Telnet!TypeOK
      BY UploadTypes, TelnetSizesKept DEF ConnTypesIInv
    <2>2. Greet!TypeOK
      BY DEF ConnTypesIInv, GreetIInv, GreetTypes, GreetAddress, Greet!TypeOK
    <2>3. Local!TypeOK
      BY DEF ConnTypesIInv, LocalIInv, LocalTypes, LocalRoom, Local!TypeOK
    <2>4. Gram!TypeOK
      BY DatagramAssumption
      DEF ConnTypesIInv, GramIInv, GramSizes, Gram!TypeOK, Gram!Datagrams
    <2>5. Relays!TypeOK
      BY DEF ConnTypesIInv, RelayIInv, RelayTypes
    <2> QED
      BY <2>1, <2>2, <2>3, <2>4, <2>5 DEF ConnTypeOK
  <1> QED
    BY <1>1, <1>2, <1>3, PTL DEF ConnSpec

-----------------------------------------------------------------------------
(* MemoryResidence.c. *)

LEMMA Quotient ==
  ASSUME NEW j \in Nat, NEW d \in Nat \ {0}
  PROVE  /\ j \div d \in Nat /\ j % d \in 0..(d - 1)
         /\ j = d * (j \div d) + (j % d)
  BY Z3

LEMMA Multiple ==
  ASSUME NEW k \in Nat, NEW d \in Nat \ {0}
  PROVE  d * k \in Nat /\ (d * k) % d = 0 /\ (d * k) \div d = k
  BY Z3

LEMMA ProductOrder ==
  ASSUME NEW j \in Nat, NEW k \in Nat, NEW d \in Nat \ {0}
  PROVE  j <= k => d * j <= d * k
  BY Z3

\* The step and the length on the command line are not what is locked: with gaps
\* between the pieces asked for, the page behind the first of them is locked too.
THEOREM LengthIgnored ==
  ASSUME NEW pages \in Nat \ {0}, NEW step \in Nat \ {0}, NEW len \in Nat \ {0},
         len < step, len < pages
  PROVE  /\ Compute!Locks(pages, step, len) = {<<0, pages>>}
         /\ ~Compute!LockedAsAsked(pages, step, len)
  <1>1. \A j \in 0..pages : j % step = 0 /\ j + pages <= pages <=> j = 0
    <2>1. 0 % step = 0
      BY Z3
    <2> QED
      BY <2>1
  <1>2. {j \in 0..pages : j % step = 0 /\ j + pages <= pages} = {0}
    BY <1>1
  <1>3. Compute!Locks(pages, step, len) = {<<0, pages>>}
    BY <1>2 DEF Compute!Locks
  <1>4. len \in Compute!Locked(pages, step, len)
    <2>1. Compute!Locked(pages, step, len) = 0..(0 + pages - 1)
      BY <1>3 DEF Compute!Locked
    <2> QED
      BY <2>1
  <1>5. len \notin Compute!Asked(pages, step, len)
    <2> SUFFICES ASSUME NEW j \in 0..len, j % step = 0, len < j + len
                 PROVE  FALSE
      BY DEF Compute!Asked
    <2> DEFINE k == j \div step
    <2>1. j \in Nat /\ j < step /\ j # 0
      OBVIOUS
    <2>2. k \in Nat /\ j = step * k + 0
      BY <2>1, Quotient
    <2> HIDE DEF k
    <2>3. CASE k = 0
      <3>1. step * k = 0
        BY <2>3
      <3> QED
        BY <2>1, <2>2, <3>1
    <2>4. CASE k # 0
      <3>1. step * 1 <= step * k /\ step * k \in Nat
        BY <2>2, <2>4, ProductOrder, Multiple
      <3> QED
        BY <2>1, <2>2, <3>1
    <2> QED
      BY <2>3, <2>4
  <1> QED
    BY <1>3, <1>4, <1>5 DEF Compute!LockedAsAsked
==============================================================================
