------------------------------- MODULE Datagrams -------------------------------
(***************************************************************************)
(* UnixDatagramSocketServer.c, UnixDatagramSocketClient.c and              *)
(* UnixDatagramSocketBroadcaster.c: senders fire one datagram each and     *)
(* end; the server receives one, prints it and ends.  The network loses,   *)
(* duplicates and reorders.  A datagram is its sender and its length.      *)
(***************************************************************************)
EXTENDS Integers, Sequences

CONSTANTS
    Senders,     \* clients and broadcasters
    Lengths,     \* the lengths strlen(argv[2]) may have, at least 0
    MaxBytes,    \* MAX_BYTES, 256 in the code
    MaxCopies    \* bound: duplicates the network makes

VARIABLES
    receiver,    \* "bind", "recv", "print", "terminate", "ended", "failed"
    sender,      \* sender -> "off", "sent" or "failed"
    flight,      \* datagrams on their way
    copies,      \* duplicates made so far
    arrived,     \* datagrams in the socket's queue
    byteTotal,   \* the result of recvfrom()
    text,        \* buffer: the sender whose bytes it holds, then how many of them
    zeroAt,      \* index of the first zero byte in buffer or behind it (MaxBytes),
                 \* whatever put it there
    report       \* what was printed: the sender, how many characters of the
                 \* buffer, and the number of bytes told; <<>> before

datagramVars == <<receiver, sender, flight, copies, arrived, byteTotal, text, zeroAt, report>>

Datagrams == Senders \X Lengths
IntSize == 4     \* sizeof byteTotal

TypeOK ==
    /\ receiver \in {"bind", "recv", "print", "terminate", "ended", "failed"}
    /\ sender \in [Senders -> {"off", "sent", "failed"}]
    /\ flight \subseteq Datagrams
    /\ copies \in 0..MaxCopies
    /\ arrived \in Seq(Datagrams)
    /\ byteTotal \in 0..(MaxBytes - 1)
    /\ text = <<>> \/ text \in Senders \X (0..(MaxBytes - 1))
    /\ zeroAt \in 0..MaxBytes
    /\ report = <<>> \/ report \in Senders \X (0..MaxBytes) \X {IntSize}

\* buffer is not initialised; the zero byte that ends the scan of printf() may be
\* behind it.
Init ==
    /\ receiver = "bind"
    /\ sender = [s \in Senders |-> "off"]
    /\ flight = {} /\ copies = 0 /\ arrived = <<>>
    /\ byteTotal = 0 /\ text = <<>>
    /\ zeroAt \in 0..MaxBytes
    /\ report = <<>>

-----------------------------------------------------------------------------
(* The senders and the network. *)

\* sendto(), the message printed, and the end of the process.
SendTo(s) ==
    /\ sender[s] = "off"
    /\ \E n \in Lengths : flight' = flight \union {<<s, n>>}
    /\ sender' = [sender EXCEPT ![s] = "sent"]
    /\ UNCHANGED <<receiver, copies, arrived, byteTotal, text, zeroAt, report>>

\* getaddrinfo(), socket(), setsockopt() or sendto() fails.
SendFails(s) ==
    /\ sender[s] = "off"
    /\ sender' = [sender EXCEPT ![s] = "failed"]
    /\ UNCHANGED <<receiver, flight, copies, arrived, byteTotal, text, zeroAt, report>>

\* A datagram gets to the socket, or is lost: also when nobody is bound to it.
Arrive(d) ==
    /\ d \in flight
    /\ \/ flight' = flight \ {d} /\ UNCHANGED copies
       \/ copies < MaxCopies /\ copies' = copies + 1 /\ UNCHANGED flight
    /\ \/ receiver \in {"recv", "print", "terminate"} /\ arrived' = Append(arrived, d)
       \/ UNCHANGED arrived
    /\ UNCHANGED <<receiver, sender, byteTotal, text, zeroAt, report>>

-----------------------------------------------------------------------------
(* The server. *)

\* The loop over the addresses: one of them is bound, or none.
Bind ==
    /\ receiver = "bind"
    /\ receiver' \in {"recv", "failed"}
    /\ UNCHANGED <<sender, flight, copies, arrived, byteTotal, text, zeroAt, report>>

\* Mutant: recvfrom() may fill the whole buffer.
CutNot(n) == IF n < MaxBytes THEN n ELSE MaxBytes

\* What recvfrom(..., MAX_BYTES - 1, ...) returns of a datagram of n bytes.
Cut(n) == IF n < MaxBytes THEN n ELSE MaxBytes - 1

RecvFrom ==
    /\ receiver = "recv" /\ arrived # <<>>
    /\ byteTotal' = Cut(Head(arrived)[2])
    /\ text' = <<Head(arrived)[1], byteTotal'>>
    /\ arrived' = Tail(arrived)
    /\ receiver' = "print"
    /\ zeroAt' \in (IF zeroAt < byteTotal' THEN byteTotal'..MaxBytes ELSE {zeroAt})
    /\ UNCHANGED <<sender, flight, copies, report>>

\* printf() with sizeof byteTotal, before the terminator is there.
PrintText ==
    /\ receiver = "print"
    /\ report' = <<text[1], zeroAt, IntSize>>
    /\ receiver' = "terminate"
    /\ UNCHANGED <<sender, flight, copies, arrived, byteTotal, text, zeroAt>>

\* buffer[byteTotal] = '\0', close() and exit(): what arrived later is gone.
Terminate ==
    /\ receiver = "terminate"
    /\ zeroAt' = byteTotal
    /\ arrived' = <<>>
    /\ receiver' = "ended"
    /\ UNCHANGED <<sender, flight, copies, byteTotal, text, report>>

Receiver == Bind \/ RecvFrom \/ PrintText \/ Terminate

Next ==
    \/ Receiver
    \/ \E s \in Senders : SendTo(s) \/ SendFails(s)
    \/ \E d \in Datagrams : Arrive(d)

FairSpec == Init /\ [][Next]_datagramVars /\ WF_datagramVars(Receiver)

-----------------------------------------------------------------------------
(* Properties. *)

\* Whatever is lost, duplicated or reordered, the one thing printed is from one
\* sender that has sent it, all of its bytes up to the size of the buffer, and
\* perhaps what the buffer held behind them before; the terminator is set inside the
\* buffer, afterwards.
\* (The number printed with it is not what the comment there calls it, "the size of
\* the message in bytes", but IntSize for every message: nothing is claimed of it.)
OnePrinted ==
    /\ byteTotal < MaxBytes
    /\ report # <<>> =>
         /\ sender[report[1]] = "sent"
         /\ report[2] >= byteTotal
         /\ text = <<report[1], byteTotal>>
    /\ receiver = "ended" => zeroAt = byteTotal

\* A datagram that reached the socket makes the server print and end; without
\* one it waits for ever.
Asks == arrived # <<>>
Served == receiver = "ended" /\ report # <<>>
ReceiverEnds == Asks ~> Served
===============================================================================
