----------------------------- MODULE FileTransfer -----------------------------
(***************************************************************************)
(* UnixFileTransferStreamServer.c and UnixFileTransferStreamClient.c: each *)
(* client sends one file block by block over its own connection; the       *)
(* server forks a child per connection that writes what it receives to one *)
(* hard-coded path, and waits for that child before it accepts again.      *)
(* A block is what one fread() of the client returns; block k of client c  *)
(* is <<c, k>>.                                                            *)
(***************************************************************************)
EXTENDS Integers, Sequences, FiniteSets, Functions

CONSTANTS
    Clients,
    MaxBlocks,   \* bound: blocks in a file
    Window       \* blocks a connection holds before the client's send() blocks

ASSUME TransferAssumption ==
    Clients # {} /\ MaxBlocks \in Nat /\ Window \in Nat \ {0}

VARIABLES
    client,      \* client -> "off", "sending", "ok" or "failed"
    size,        \* client -> blocks in its file, as stat() told
    length,      \* client -> blocks in its file now
    sent,        \* client -> blocks it has passed to send()
    queue,       \* connections not accepted yet
    conn,        \* client -> "none", "queued", "open", or "closed" by the server
    rcvd,        \* client -> blocks the server received
    parent,      \* "poll", "fork" (accepted, about to fork), "wait"
    current,     \* the connection the parent accepted last
    child,       \* client -> state of the process that serves it
    file,        \* what is at the hard-coded path
    torn,        \* the blocks of file of which fwrite() left only a part, or nothing
    reported     \* the child that wrote file has called perror()

clientVars == <<client, size, length, sent>>
fileVars == <<file, torn>>
serverVars == <<rcvd, parent, current, child, fileVars, reported>>
vars == <<clientVars, queue, conn, serverVars>>

\* "nofile": fopen() failed, and the comment "Handle error" is all there is.
ChildStates == {"none", "fopen", "recv", "nofile", "exited"}

TypeOK ==
    /\ client \in [Clients -> {"off", "sending", "ok", "failed"}]
    /\ size \in [Clients -> 0..MaxBlocks] /\ length \in [Clients -> 0..MaxBlocks]
    /\ sent \in [Clients -> 0..MaxBlocks]
    /\ rcvd \in [Clients -> 0..MaxBlocks]
    /\ queue \in Seq(Clients)
    /\ conn \in [Clients -> {"none", "queued", "open", "closed"}]
    /\ parent \in {"poll", "fork", "wait"}
    /\ current \subseteq Clients /\ Cardinality(current) <= 1
    /\ child \in [Clients -> ChildStates]
    /\ file \in Seq(Clients \X (1..MaxBlocks))
    /\ torn \subseteq 1..MaxBlocks /\ reported \in BOOLEAN

Init ==
    /\ client = [c \in Clients |-> "off"]
    /\ size \in [Clients -> 0..MaxBlocks] /\ length = size
    /\ sent = [c \in Clients |-> 0]
    /\ queue = <<>>
    /\ conn = [c \in Clients |-> "none"]
    /\ rcvd = [c \in Clients |-> 0]
    /\ parent = "poll"
    /\ current = {}
    /\ child = [c \in Clients |-> "none"]
    /\ file = <<>> /\ torn = {} /\ reported = FALSE

-----------------------------------------------------------------------------
(* The client. *)

Become(c, state) == client' = [client EXCEPT ![c] = state]

Connect(c) ==
    /\ client[c] = "off"
    /\ Become(c, "sending")
    /\ conn' = [conn EXCEPT ![c] = "queued"]
    /\ queue' = Append(queue, c)
    /\ UNCHANGED <<size, length, sent, serverVars>>

\* Somebody writes to the file, or cuts it, between stat() and the last fread().
FileChanges(c) ==
    /\ client[c] = "sending" /\ length[c] = size[c]
    /\ \E n \in (0..MaxBlocks) \ {size[c]} : length' = [length EXCEPT ![c] = n]
    /\ UNCHANGED <<client, size, sent, queue, conn, serverVars>>

\* fread() a block and send() it; when the server has closed the connection the
\* kernel still takes data until the reset has come back.
SendBlock(c) ==
    /\ client[c] = "sending" /\ sent[c] < length[c]
    /\ conn[c] = "closed" \/ sent[c] - rcvd[c] < Window
    /\ sent' = [sent EXCEPT ![c] = @ + 1]
    /\ UNCHANGED <<client, size, length, queue, conn, serverVars>>

\* send() meets the reset: exit(EXIT_FAILURE), or SIGPIPE.
SendFails(c) ==
    /\ client[c] = "sending" /\ sent[c] < length[c]
    /\ conn[c] = "closed"
    /\ Become(c, "failed")
    /\ UNCHANGED <<size, length, sent, queue, conn, serverVars>>

\* End of file, or the number of bytes stat() told is reached and there are more:
\* "Full file sent".  In a file that grows the last block may step over that
\* number, and the loop goes on.  Close the socket, exit(EXIT_SUCCESS).
Finish(c) ==
    /\ client[c] = "sending"
    /\ sent[c] >= length[c] \/ sent[c] = size[c]
    /\ Become(c, "ok")
    /\ UNCHANGED <<size, length, sent, queue, conn, serverVars>>

\* fopen() or stat() fails after connect(), fread() fails in the middle of the file
\* and the client calls exit(EXIT_FAILURE), or it is killed: its kernel closes the
\* connection with the same FIN as after Finish, since the server sends nothing.
GivesUp(c) ==
    /\ client[c] = "sending"
    /\ Become(c, "failed")
    /\ UNCHANGED <<size, length, sent, queue, conn, serverVars>>

-----------------------------------------------------------------------------
(* The server's parent process. *)

\* poll() reports the listener and accept() takes the oldest connection.
Accept ==
    /\ parent = "poll" /\ queue # <<>>
    /\ current' = {Head(queue)}
    /\ queue' = Tail(queue)
    /\ conn' = [conn EXCEPT ![Head(queue)] = "open"]
    /\ parent' = "fork"
    /\ UNCHANGED <<clientVars, rcvd, child, fileVars, reported>>

\* fork(): the child keeps new_fd open, the parent closes it and waits.
Fork ==
    /\ parent = "fork"
    /\ child' = [c \in Clients |-> IF c \in current THEN "fopen" ELSE child[c]]
    /\ parent' = "wait"
    /\ UNCHANGED <<clientVars, queue, conn, rcvd, current, fileVars, reported>>

\* Mutant: the parent does not close its copy of the connection.
ForkFailsLeaks ==
    /\ parent = "fork"
    /\ current' = {}
    /\ parent' = "poll"
    /\ UNCHANGED <<clientVars, queue, conn, rcvd, child, fileVars, reported>>

\* fork() = -1.  "if (fork < 0)" tests the function, not its result, so the
\* parent goes on in the else branch: it closes the only descriptor of the
\* connection, and wait() returns at once.
ForkFails ==
    /\ parent = "fork"
    /\ conn' = [c \in Clients |-> IF c \in current THEN "closed" ELSE conn[c]]
    /\ current' = {}
    /\ parent' = "poll"
    /\ UNCHANGED <<clientVars, queue, rcvd, child, fileVars, reported>>

\* Mutant: the parent goes on without waiting.
WaitNot ==
    /\ parent = "wait"
    /\ current' = {}
    /\ parent' = "poll"
    /\ UNCHANGED <<clientVars, queue, conn, rcvd, child, fileVars, reported>>

\* wait(NULL) returns when the child has ended.
Wait ==
    /\ parent = "wait"
    /\ \A c \in current : child[c] = "exited"
    /\ current' = {}
    /\ parent' = "poll"
    /\ UNCHANGED <<clientVars, queue, conn, rcvd, child, fileVars, reported>>

-----------------------------------------------------------------------------
(* handle_file_transfer, in the child that serves c. *)

\* fopen(path, "wb") truncates the file.
Fopen(c) ==
    /\ child[c] = "fopen"
    /\ file' = <<>> /\ torn' = {} /\ reported' = FALSE
    /\ child' = [child EXCEPT ![c] = "recv"]
    /\ UNCHANGED <<clientVars, queue, conn, rcvd, parent, current>>

FopenFails(c) ==
    /\ child[c] = "fopen"
    /\ child' = [child EXCEPT ![c] = "nofile"]
    /\ UNCHANGED <<clientVars, queue, conn, rcvd, parent, current, fileVars, reported>>

\* fwrite() of a block at the child's own offset, rcvd[c].
WriteAt(offset, block) ==
    file' = [k \in 1..(IF offset < Len(file) THEN Len(file) ELSE offset + 1) |->
               IF k = offset + 1 THEN block ELSE file[k]]

\* recv() of the next block, which goes to fwrite().
RecvNext(c) ==
    /\ child[c] = "recv"
    /\ rcvd[c] < sent[c]
    /\ rcvd' = [rcvd EXCEPT ![c] = @ + 1]
    /\ WriteAt(rcvd[c], <<c, rcvd[c] + 1>>)
    /\ UNCHANGED <<clientVars, queue, conn, parent, current, child>>

RecvBlock(c) == RecvNext(c) /\ UNCHANGED <<torn, reported>>

\* The disk is full: of the n-th block and of those before it that stdio had held
\* back a part is lost, perhaps all.
Loses(n) == \E first \in 1..n : torn' = torn \union (first..n)

\* A short fwrite() is reported, and the loop goes on with the next block.
WriteFails(c) == RecvNext(c) /\ Loses(rcvd[c] + 1) /\ reported' = TRUE

HungUp(c) == rcvd[c] = sent[c] /\ client[c] \in {"ok", "failed"}

Exit(c) ==
    /\ conn' = [conn EXCEPT ![c] = "closed"]
    /\ child' = [child EXCEPT ![c] = "exited"]

\* recv() = 0: "the client has hung up", close and exit(EXIT_SUCCESS).  Nobody
\* looks at what fclose() returns when the last blocks do not fit on the disk.
RecvEnd(c) ==
    /\ child[c] = "recv"
    /\ HungUp(c)
    /\ Exit(c)
    /\ UNCHANGED torn \/ Loses(rcvd[c])
    /\ UNCHANGED <<clientVars, queue, rcvd, parent, current, file, reported>>

\* recv() = -1, for which the network is enough: the child reports it and exits
\* with what it has, and exit() flushes the file like fclose().
RecvFails(c) ==
    /\ child[c] = "recv"
    /\ Exit(c)
    /\ reported' = TRUE
    /\ UNCHANGED torn \/ Loses(rcvd[c])
    /\ UNCHANGED <<clientVars, queue, rcvd, parent, current, file>>

\* Without a file the first fwrite(), or the fclose(), crashes the child; when the
\* connection breaks before, it exits.
NoFileEnds(c) ==
    /\ child[c] = "nofile"
    /\ Exit(c)
    /\ UNCHANGED <<clientVars, queue, rcvd, parent, current, fileVars, reported>>

NoFileCrash(c) == (rcvd[c] < sent[c] \/ HungUp(c)) /\ NoFileEnds(c)

-----------------------------------------------------------------------------
Upload(c) == SendBlock(c) \/ SendFails(c) \/ Finish(c)
Parent == Accept \/ Fork \/ ForkFails \/ Wait
Child(c) ==
    \/ Fopen(c) \/ FopenFails(c) \/ RecvBlock(c) \/ WriteFails(c) \/ RecvEnd(c)
    \/ NoFileCrash(c)

\* What may come between, and nobody may count on: the file changes, the client
\* gives up, the connection breaks.
Mishap(c) == FileChanges(c) \/ GivesUp(c) \/ RecvFails(c) \/ NoFileEnds(c)

\* Every client has come and gone and the parent waits for more.
Over ==
    /\ \A c \in Clients : client[c] \notin {"off", "sending"}
    /\ parent = "poll" /\ queue = <<>>
    /\ UNCHANGED vars

Next ==
    \/ \E c \in Clients : Connect(c) \/ Upload(c) \/ Child(c) \/ Mishap(c)
    \/ Parent
    \/ Over

\* Both loops only wait for each other: the client reads a local file, not a
\* user, so a connected client goes on.
Fairness ==
    /\ WF_vars(Parent)
    /\ \A c \in Clients : WF_vars(Upload(c)) /\ WF_vars(Child(c))

Spec == Init /\ [][Next]_vars
FairSpec == Spec /\ Fairness

-----------------------------------------------------------------------------
(* Properties. *)

\* What is not on the disk is a tail of the file.
TailLost == \A k \in torn : k..Len(file) \subseteq torn

\* Because the parent waits, two children never share the hard-coded path: while
\* a child receives, the file is what that child has received, and afterwards it
\* stays one client's upload, never a mixture.  An upload is incomplete only when
\* the client gave up, its file changed, or the server has printed an
\* error; but what fclose() could not write is lost in silence, a tail of the file.
OneUploadAtATime ==
    /\ \A c \in Clients : child[c] = "recv" =>
         /\ file = [k \in 1..rcvd[c] |-> <<c, k>>]
         /\ ~reported => torn = {}
    /\ \E c \in Clients : \A k \in DOMAIN file : file[k] = <<c, k>>
    /\ \A c \in Clients :
         child[c] = "exited" /\ <<c, 1>> \in Range(file) =>
             \/ Len(file) = size[c] /\ TailLost
             \/ client[c] = "failed" \/ length[c] # size[c]
             \/ reported

\* A connected client gets an answer (its own success or a failure),
\* and its connection does not stay with the server for ever, although the
\* server serves one connection at a time.
Asks(c) == client[c] = "sending"
Served(c) == client[c] \in {"ok", "failed"} /\ conn[c] = "closed"
EveryoneServed == \A c \in Clients : Asks(c) ~> Served(c)
===============================================================================
