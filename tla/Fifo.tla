--------------------------------- MODULE Fifo ---------------------------------
(***************************************************************************)
(* FIFO.c: a run creates the FIFO unless it is there, forks, and its child *)
(* writes one message that the parent reads.  open() waits for the other   *)
(* side, whichever run that belongs to, and nothing removes the FIFO, so   *)
(* runs that overlap mix.  A message is the run whose child wrote it.      *)
(***************************************************************************)
EXTENDS Integers, Sequences, FiniteSets

CONSTANTS Runs        \* the runs of the program

VARIABLES
    exists,      \* FIFO_NAME is in the file system
    reader,      \* run -> its parent: "start", "mkfifo", "fork", "open",
                 \* "opening" (waits in open()), "read", "done", "failed"
    writer,      \* run -> its child: "none", "open", "opening", "write",
                 \* "close", "done", "killed"
    fifo,        \* messages written and not read
    got          \* run -> what read() of its parent returned

fifoVars == <<exists, reader, writer, fifo, got>>

TypeOK ==
    /\ exists \in BOOLEAN
    /\ reader \in [Runs -> {"start", "mkfifo", "fork", "open", "opening", "read",
                            "done", "failed"}]
    /\ writer \in [Runs -> {"none", "open", "opening", "write", "close", "done", "killed"}]
    /\ fifo \in Seq(Runs)
    /\ got \in [Runs -> Seq(Runs)]

Init ==
    /\ exists \in BOOLEAN
    /\ reader = [r \in Runs |-> "start"]
    /\ writer = [r \in Runs |-> "none"]
    /\ fifo = <<>>
    /\ got = [r \in Runs |-> <<>>]

\* Who holds an end, the callers that wait in open() included.
Readers == {r \in Runs : reader[r] \in {"opening", "read"}}
Writers == {r \in Runs : writer[r] \in {"opening", "write", "close"}}

ReaderTo(r, state) == reader' = [reader EXCEPT ![r] = state]
WriterTo(r, state) == writer' = [writer EXCEPT ![r] = state]

\* The kernel drops what is in the FIFO when the last end is closed.
Drained(messages) == IF Readers' \union Writers' = {} THEN <<>> ELSE messages

\* access()
Start(r) ==
    /\ reader[r] = "start"
    /\ ReaderTo(r, IF exists THEN "fork" ELSE "mkfifo")
    /\ UNCHANGED <<exists, writer, fifo, got>>

\* mkfifo() fails when another run has created the FIFO since access().
Mkfifo(r) ==
    /\ reader[r] = "mkfifo"
    /\ ReaderTo(r, IF exists THEN "failed" ELSE "fork")
    /\ exists' = TRUE
    /\ UNCHANGED <<writer, fifo, got>>

Fork(r) ==
    /\ reader[r] = "fork"
    /\ ReaderTo(r, "open") /\ WriterTo(r, "open")
    /\ UNCHANGED <<exists, fifo, got>>

\* fork() = -1 is not 0: the caller takes the branch of the parent.
ForkFails(r) ==
    /\ reader[r] = "fork"
    /\ ReaderTo(r, "open")
    /\ UNCHANGED <<exists, writer, fifo, got>>

\* open(O_RDONLY) lets in the writers that wait, and waits itself if there is
\* no writer.
OpenRead(r) ==
    /\ reader[r] = "open"
    /\ ReaderTo(r, IF Writers = {} THEN "opening" ELSE "read")
    /\ writer' = [w \in Runs |-> IF writer[w] = "opening" THEN "write" ELSE writer[w]]
    /\ UNCHANGED <<exists, fifo, got>>

OpenWrite(r) ==
    /\ writer[r] = "open"
    /\ WriterTo(r, IF Readers = {} THEN "opening" ELSE "write")
    /\ reader' = [w \in Runs |-> IF reader[w] = "opening" THEN "read" ELSE reader[w]]
    /\ UNCHANGED <<exists, fifo, got>>

\* The message is smaller than PIPE_BUF: it is written whole.  Without a reader
\* the child dies of SIGPIPE.
Write(r) ==
    /\ writer[r] = "write"
    /\ WriterTo(r, IF Readers = {} THEN "killed" ELSE "close") /\ UNCHANGED reader
    /\ fifo' = IF Readers = {} THEN Drained(fifo) ELSE Append(fifo, r)
    /\ UNCHANGED <<exists, got>>

CloseWrite(r) ==
    /\ writer[r] = "close"
    /\ WriterTo(r, "done") /\ UNCHANGED reader
    /\ fifo' = Drained(fifo)
    /\ UNCHANGED <<exists, got>>

\* Mutant: the messages that are read stay in the FIFO.
ReadKeeps(r) ==
    /\ reader[r] = "read" /\ (fifo # <<>> \/ Writers = {})
    /\ got' = [got EXCEPT ![r] = fifo]
    /\ ReaderTo(r, "done") /\ UNCHANGED writer
    /\ fifo' = Drained(fifo)
    /\ UNCHANGED exists

\* One read() of BUFSIZ bytes takes all there is; the end of the file leaves
\* msg_buf as it was, uninitialised, and is printed too.  Then the parent exits.
Read(r) ==
    /\ reader[r] = "read" /\ (fifo # <<>> \/ Writers = {})
    /\ got' = [got EXCEPT ![r] = fifo]
    /\ ReaderTo(r, "done")
    /\ fifo' = <<>>
    /\ UNCHANGED <<exists, writer>>

\* A run that has started goes on.
Step(r) ==
    \/ Mkfifo(r) \/ Fork(r) \/ ForkFails(r)
    \/ OpenRead(r) \/ Read(r)
    \/ OpenWrite(r) \/ Write(r) \/ CloseWrite(r)

\* Everybody has ended or waits in open() for the same side.
Over ==
    /\ \A r \in Runs : /\ reader[r] \in {"done", "failed", "opening"}
                        /\ writer[r] \in {"none", "opening", "done", "killed"}
    /\ Readers = {} \/ Writers = {}
    /\ UNCHANGED fifoVars

Next == (\E r \in Runs : Start(r) \/ Step(r)) \/ Over

\* Nobody has to start a run.
FairSpec == Init /\ [][Next]_fifoVars /\ \A r \in Runs : WF_fifoVars(Step(r))

-----------------------------------------------------------------------------
(* Properties. *)

Received(r) == \E s \in Runs : \E k \in DOMAIN got[s] : got[s][k] = r

Alone(r) == \A s \in Runs \ {r} : reader[s] = "start"

\* A message is read once at most and never dropped: what a child has written is in
\* the FIFO, where somebody is there to read it, or in the buffer of one parent,
\* perhaps of another run, while its own printed an uninitialised buffer.  This, a
\* child that dies of SIGPIPE and a failed mkfifo() are the work of a second run: a
\* run alone prints its own child's message.
OneReader ==
    /\ \A r, s \in Runs : \A k \in DOMAIN got[r], l \in DOMAIN got[s] :
         (got[r][k] = got[s][l]) => (r = s /\ k = l)
    /\ \A r \in Runs :
         writer[r] \in {"close", "done"} => Received(r) \/ \E k \in DOMAIN fifo : fifo[k] = r
    /\ fifo # <<>> => Readers # {}
    /\ \A r \in Runs : Alone(r) =>
         /\ reader[r] # "failed" /\ writer[r] # "killed"
         /\ reader[r] = "done" => got[r] = <<r>>

\* A run ends if no other is started; what can keep it waiting for ever is a
\* fork() that failed.  When runs overlap, the two processes of a run never wait
\* for each other: one that waits for ever has lost its partner before.
RunsEnd ==
    /\ \A r \in Runs :
         ([](Alone(r)) /\ <>(reader[r] # "start"))
             => <>(reader[r] = "done" \/ (reader[r] = "opening" /\ writer[r] = "none"))
    /\ \A r \in Runs :
         <>[](reader[r] = "done" \/ writer[r] \in {"none", "done", "killed"})
===============================================================================
