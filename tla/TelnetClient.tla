------------------------------ MODULE TelnetClient ------------------------------
(***************************************************************************)
(* UnixTelnetClient.c: the main thread sends what the user types, line by  *)
(* line, and a second thread prints what the server sends.  Nobody ever    *)
(* leaves the loops: the process ends when one of the threads meets the    *)
(* end of the connection, and they race for it.                            *)
(***************************************************************************)
EXTENDS Integers, Sequences, SequencesExt

CONSTANTS
    UserLines,   \* bound: lines the user types before the end of the input
    ServerBytes, \* bound: bytes the server sends
    BufferBytes  \* MAX_BYTES, 2048 in the code

Nul == 0         \* the byte at which printf("%s") stops
Connected == -1  \* the line "Successfully connected"
Notice == -2     \* the line "Server disconnected"

VARIABLES
    process,     \* "running", "failed", "disconnected", "killed"
    writer,      \* main thread: "connect", "create", "fgets", "send", "exit"
    reader,      \* second thread: "none", "recv", "exit"
    socketFd,    \* "none", "open", "closed" (connect() has failed)
    wild,        \* the byte behind read_buf was overwritten, and mattered
    typed,       \* lines fgets() has returned
    line,        \* the one in buf, 0 for the empty string
    delivered,   \* the lines send() has taken
    remote,      \* "up", or "fin" once the server has closed
    reset,       \* "no", "pending" (reported to nobody yet), "told"
    served,      \* the bytes the server has sent
    inbound,     \* those recv() has not returned
    stdio,       \* the buffer of stdout
    screen       \* what was written to it

connection == <<remote, reset, served, inbound>>
telnetVars ==
    <<process, writer, reader, socketFd, wild, typed, line, delivered, stdio, screen,
      connection>>

TypeOK ==
    /\ process \in {"running", "failed", "disconnected", "killed"}
    /\ writer \in {"connect", "create", "fgets", "send", "exit"}
    /\ reader \in {"none", "recv", "exit"}
    /\ socketFd \in {"none", "open", "closed"} /\ wild \in BOOLEAN
    /\ typed \in 0..UserLines /\ line \in 0..UserLines
    /\ delivered \in Seq(1..UserLines)
    /\ remote \in {"up", "fin"} /\ reset \in {"no", "pending", "told"}
    /\ served \in Seq(Nul..ServerBytes) /\ inbound \in Seq(Nul..ServerBytes)
    /\ stdio \in Seq(Connected..ServerBytes) /\ screen \in Seq(Notice..ServerBytes)

Init ==
    /\ process = "running" /\ writer = "connect" /\ reader = "none"
    /\ socketFd = "none" /\ wild = FALSE
    /\ typed = 0 /\ line = 0 /\ delivered = <<>>
    /\ remote = "up" /\ reset = "no" /\ served = <<>> /\ inbound = <<>>
    /\ stdio = <<>> /\ screen = <<>>

-----------------------------------------------------------------------------
(* The server and the network. *)

ServerSends(byte) ==
    /\ socketFd = "open" /\ remote = "up" /\ reset = "no"
    /\ Len(served) < ServerBytes
    /\ served' = Append(served, byte) /\ inbound' = Append(inbound, byte)
    /\ UNCHANGED <<remote, reset>>

ServerCloses ==
    /\ socketFd = "open" /\ remote = "up" /\ reset = "no"
    /\ remote' = "fin"
    /\ UNCHANGED <<reset, served, inbound>>

\* A reset may cost bytes that have arrived, but not after the end of the file.
Resets ==
    /\ socketFd = "open" /\ reset = "no"
    /\ reset' = "pending"
    /\ inbound' \in {inbound} \union (IF remote = "up" THEN {<<>>} ELSE {})
    /\ UNCHANGED <<remote, served>>

Network ==
    /\ process = "running"
    /\ ServerCloses \/ Resets \/ ServerSends(Nul) \/ ServerSends(Len(served) + 1)
    /\ UNCHANGED <<process, writer, reader, socketFd, wild, typed, line, delivered,
                   stdio, screen>>

-----------------------------------------------------------------------------
(* stdout and the end of the process. *)

\* A buffered stream writes when it likes.
Printf(bytes) ==
    \/ screen' = screen \o stdio \o bytes /\ stdio' = <<>>
    \/ stdio' = stdio \o bytes /\ UNCHANGED screen

Ends(how) == process' = how
Flush(bytes) == screen' = screen \o stdio \o bytes /\ stdio' = <<>>

\* exit(EXIT_FAILURE), by either thread, writes what is buffered.
Exit ==
    /\ Ends("failed") /\ Flush(<<>>)
    /\ UNCHANGED <<writer, reader, socketFd, wild, typed, line, delivered, connection>>

-----------------------------------------------------------------------------
(* The main thread. *)

\* No address has a socket: exit(EXIT_FAILURE).
NoSocket ==
    /\ writer = "connect"
    /\ writer' = "exit"
    /\ UNCHANGED <<process, reader, socketFd, wild, typed, line, delivered, stdio, screen,
                   connection>>

\* Only the first address with a socket is tried.  When connect() fails the
\* socket is closed, and the loop is left as if it had not.
Connect ==
    /\ writer = "connect"
    /\ socketFd' \in {"open", "closed"}
    /\ Printf(<<Connected>>)
    /\ writer' = "create"
    /\ UNCHANGED <<process, reader, wild, typed, line, delivered, connection>>

PthreadCreate ==
    /\ writer = "create"
    /\ \/ writer' = "fgets" /\ reader' = "recv"
       \/ writer' = "exit" /\ UNCHANGED reader
    /\ UNCHANGED <<process, socketFd, wild, typed, line, delivered, stdio, screen, connection>>

\* memset() and fgets(): a line, or at the end of the input what memset() left.
Fgets ==
    /\ writer = "fgets"
    /\ \/ typed < UserLines /\ typed' = typed + 1 /\ line' = typed'
       \/ typed = UserLines /\ line' = 0 /\ UNCHANGED typed
    /\ writer' = "send"
    /\ UNCHANGED <<process, reader, socketFd, wild, delivered, stdio, screen, connection>>

\* Mutant: the buffer is not cleared, and what it holds is sent again at the end
\* of the input.
SendStale ==
    /\ writer = "send" /\ socketFd = "open" /\ reset = "no"
    /\ delivered' = Append(delivered, IF line = 0 THEN UserLines ELSE line)
    /\ writer' = "fgets"
    /\ UNCHANGED <<process, reader, socketFd, wild, typed, line, stdio, screen, connection>>

\* send() of strlen(buf) bytes, none for the empty string.
Send ==
    /\ writer = "send" /\ socketFd = "open" /\ reset = "no"
    /\ delivered' = IF line = 0 THEN delivered ELSE Append(delivered, line)
    /\ writer' = "fgets"
    /\ UNCHANGED <<process, reader, socketFd, wild, typed, line, stdio, screen, connection>>

\* The descriptor is closed, or send() is the first to hear of the reset.
SendFails ==
    /\ writer = "send"
    /\ \/ socketFd = "closed" /\ UNCHANGED reset
       \/ remote = "up" /\ reset = "pending" /\ reset' = "told"
    /\ writer' = "exit"
    /\ UNCHANGED <<process, reader, socketFd, wild, typed, line, delivered, stdio, screen,
                   remote, served, inbound>>

\* Somebody has heard of it, or the end of the file came first: SIGPIPE, and
\* what is in the buffer of stdout is lost.
SigPipe ==
    /\ writer = "send"
    /\ reset = "told" \/ (remote = "fin" /\ reset = "pending")
    /\ Ends("killed")
    /\ UNCHANGED <<writer, reader, socketFd, wild, typed, line, delivered, stdio, screen,
                   connection>>

-----------------------------------------------------------------------------
(* thread_read. *)

\* The bytes before the first Nul.
Text(bytes) ==
    IF Contains(bytes, Nul) THEN SubSeq(bytes, 1, SelectInSeq(bytes, LAMBDA x : x = Nul) - 1)
    ELSE bytes

\* recv() of n bytes, the terminator and printf().  With n = BufferBytes the
\* terminator is written behind the array, over nothing or over the pointer to
\* sockFd.
RecvBytes(n) ==
    /\ reader = "recv" /\ socketFd = "open" /\ ~wild
    /\ n <= Len(inbound)
    /\ Printf(Text(SubSeq(inbound, 1, n)))
    /\ inbound' = SubSeq(inbound, n + 1, Len(inbound))
    /\ wild' \in {FALSE, n = BufferBytes}
    /\ UNCHANGED <<process, writer, reader, socketFd, typed, line, delivered, remote,
                   reset, served>>

\* recv() = 0: the notice, fflush() and _exit(EXIT_SUCCESS).
RecvZero ==
    /\ reader = "recv" /\ socketFd = "open" /\ ~wild
    /\ inbound = <<>> /\ (remote = "fin" \/ reset = "told")
    /\ Flush(<<Notice>>)
    /\ Ends("disconnected")
    /\ UNCHANGED <<writer, reader, socketFd, wild, typed, line, delivered, connection>>

RecvFails ==
    /\ reader = "recv"
    /\ \/ (socketFd = "closed" \/ wild) /\ UNCHANGED reset
       \/ inbound = <<>> /\ remote = "up" /\ reset = "pending" /\ reset' = "told"
    /\ reader' = "exit"
    /\ UNCHANGED <<process, writer, socketFd, wild, typed, line, delivered, stdio, screen,
                   remote, served, inbound>>

\* A wild pointer may also end the process on the spot.
RecvCrashes ==
    /\ reader = "recv" /\ wild
    /\ Ends("killed")
    /\ UNCHANGED <<writer, reader, socketFd, wild, typed, line, delivered, stdio, screen,
                   connection>>

-----------------------------------------------------------------------------
MainThread ==
    /\ process = "running"
    /\ \/ NoSocket \/ Connect \/ PthreadCreate \/ Fgets
       \/ Send \/ SendFails \/ SigPipe
       \/ writer = "exit" /\ Exit

ThreadRead ==
    /\ process = "running"
    /\ \/ \E n \in 1..BufferBytes : RecvBytes(n)
       \/ RecvZero \/ RecvFails \/ RecvCrashes
       \/ reader = "exit" /\ Exit

Next == MainThread \/ ThreadRead \/ Network

\* A user need not type: only the second thread has to go on.
FairSpec == Init /\ [][Next]_telnetVars /\ WF_telnetVars(ThreadRead)

-----------------------------------------------------------------------------
(* Properties. *)

Plain == ~Contains(served, Nul)
Shown == <<Connected>> \o served

\* Lines go out once and in order, also after the end of the input.  What is
\* printed is what the server has sent, and after a proper end the notice comes
\* behind the whole of it, unless a Nul was among it.  A reset is announced as
\* a proper end only when the main thread has met it first and its exit() is
\* overtaken.  The client never ends of its own: it was not connected, it has no
\* second thread, the connection has ended, or recv() has filled the buffer.
Conversation ==
    /\ delivered = [k \in 1..Len(delivered) |-> k] /\ Len(delivered) <= typed
    /\ Plain => (IsPrefix(screen \o stdio, Shown)
                 \/ (IsPrefix(Front(screen), Shown) /\ Last(screen) = Notice))
    /\ process = "disconnected" =>
         /\ Last(screen) = Notice
         /\ remote = "fin" /\ Plain => Front(screen) = Shown
         /\ remote = "up" => writer = "exit"
    /\ process # "running" =>
         \/ socketFd # "open" \/ reader = "none"
         \/ remote = "fin" \/ reset # "no"
         \/ Len(served) >= BufferBytes

\* When the server has gone the client ends, whatever its user does.
Asks == reader = "recv" /\ (remote = "fin" \/ reset # "no")
Served == process # "running"
ClientEnds == Asks ~> Served
=============================================================================
