------------------------------ MODULE LocalServer ------------------------------
(***************************************************************************)
(* UnixSocketsForIPC.c: a server on a socket of the file system accepts    *)
(* and closes connections for ever.  Its unlink() comes after the endless  *)
(* loop, so the file outlives the server, and bind() of the next one       *)
(* fails.  Several runs of the server, and clients that connect once.      *)
(***************************************************************************)
EXTENDS Integers, Sequences

CONSTANTS
    Servers,     \* runs of the server
    NoServer,
    Locals,      \* clients
    QueueLen     \* MAX_QUEUE_LEN, 10 in the code

VARIABLES
    path,        \* the run whose socket is at SOCKET_PATH, NoServer without file
    run,         \* server -> "socket", "bind", "listen", "accept", "close",
                 \* "failed" or "killed"
    local,       \* client -> "off", "queued", "open", "closed" or "refused"
    backlogged   \* the connections that wait for accept()

localVars == <<path, run, local, backlogged>>

TypeOK ==
    /\ path \in Servers \union {NoServer}
    /\ run \in [Servers -> {"socket", "bind", "listen", "accept", "close", "failed",
                            "killed"}]
    /\ local \in [Locals -> {"off", "queued", "open", "closed", "refused"}]
    /\ backlogged \in Seq(Locals) /\ Len(backlogged) <= QueueLen

Init ==
    /\ path = NoServer
    /\ run = [s \in Servers |-> "socket"]
    /\ local = [c \in Locals |-> "off"]
    /\ backlogged = <<>>

RunTo(s, state) == run' = [run EXCEPT ![s] = state]

\* socket(), bind() or listen() fails for a reason of the kernel's own, which has
\* nothing to do with the path: exit(EXIT_FAILURE).  After bind() the file stays.
Fails(s) ==
    /\ run[s] \in {"socket", "bind", "listen"}
    /\ RunTo(s, "failed")
    /\ UNCHANGED <<path, local, backlogged>>

Socket(s) ==
    /\ run[s] = "socket"
    /\ RunTo(s, "bind")
    /\ UNCHANGED <<path, local, backlogged>>

\* Mutant: the file is removed before bind(), as programs of this kind do.
BindUnlinks(s) ==
    /\ run[s] = "bind"
    /\ path' = s
    /\ RunTo(s, "listen")
    /\ UNCHANGED <<local, backlogged>>

\* EADDRINUSE if there is a file, whoever made it.
Bind(s) ==
    /\ run[s] = "bind"
    /\ IF path = NoServer
       THEN path' = s /\ RunTo(s, "listen")
       ELSE UNCHANGED path /\ RunTo(s, "failed")
    /\ UNCHANGED <<local, backlogged>>

Listen(s) ==
    /\ run[s] = "listen"
    /\ RunTo(s, "accept")
    /\ UNCHANGED <<path, local, backlogged>>

\* A failed accept() is tried again and changes nothing.
Accept(s) ==
    /\ run[s] = "accept" /\ path = s /\ backlogged # <<>>
    /\ local' = [local EXCEPT ![Head(backlogged)] = "open"]
    /\ backlogged' = Tail(backlogged)
    /\ RunTo(s, "close")
    /\ UNCHANGED path

\* Nothing is sent or received; there is one open connection.
Close(s) ==
    /\ run[s] = "close"
    /\ local' = [c \in Locals |-> IF local[c] = "open" THEN "closed" ELSE local[c]]
    /\ RunTo(s, "accept")
    /\ UNCHANGED <<path, backlogged>>

Server(s) ==
    Socket(s) \/ Bind(s) \/ Listen(s) \/ Fails(s) \/ Accept(s) \/ Close(s)

\* The only end of the loop: a signal.  The kernel closes everything, and leaves
\* the file.
Kill(s) ==
    /\ run[s] \notin {"failed", "killed"}
    /\ RunTo(s, "killed")
    /\ IF path = s
       THEN /\ local' = [c \in Locals |-> IF local[c] \in {"queued", "open"}
                                          THEN "closed" ELSE local[c]]
            /\ backlogged' = <<>>
       ELSE UNCHANGED <<local, backlogged>>
    /\ UNCHANGED path

Listening(s) == path = s /\ run[s] \in {"accept", "close"}

\* connect() waits for room in the queue of a server that listens, and is
\* refused without one.
Connect(c) ==
    /\ local[c] = "off"
    /\ IF \E s \in Servers : Listening(s)
       THEN /\ Len(backlogged) < QueueLen
            /\ local' = [local EXCEPT ![c] = "queued"]
            /\ backlogged' = Append(backlogged, c)
       ELSE /\ local' = [local EXCEPT ![c] = "refused"]
            /\ UNCHANGED backlogged
    /\ UNCHANGED <<path, run>>

Next ==
    \/ \E s \in Servers : Server(s) \/ Kill(s)
    \/ \E c \in Locals : Connect(c)

FairSpec ==
    /\ Init /\ [][Next]_localVars
    /\ \A s \in Servers : WF_localVars(Server(s))

-----------------------------------------------------------------------------
(* Properties. *)

\* However the runs are started, killed or fail, one of them serves the path at
\* most, and every connection is its: a second run never takes the path away from
\* clients that wait at the first.  The price is that after a crash, or after a
\* listen() that failed, the path belongs to a run that is gone.
PathOwned ==
    /\ \A s \in Servers : run[s] \in {"listen", "accept", "close"} => path = s
    /\ (\E c \in Locals : local[c] \in {"queued", "open"}) =>
         \E s \in Servers : Listening(s)

\* A client that got into the queue sees its connection closed.
Asks(c) == local[c] = "queued"
Served(c) == local[c] = "closed"
ClientsEnd == \A c \in Locals : Asks(c) ~> Served(c)
===============================================================================
