-------------------------------- MODULE Pipes --------------------------------
(***************************************************************************)
(* Pipes.c: the parent writes a message into a pipe, the child reads it    *)
(* one byte at a time until the end of file, and the parent waits for it.  *)
(* The end of file only comes when no process holds the write end, so who  *)
(* closes which descriptor when is what makes the program terminate.       *)
(***************************************************************************)
EXTENDS Integers, Sequences, FiniteSets

CONSTANTS
    Length,      \* bytes of the message, 53 in the code
    Capacity     \* bytes the pipe holds before write() blocks

Processes == {"parent", "child"}

VARIABLES
    parent,      \* "fork", "closeRead", "write", "closeWrite", "wait", "done"
    child,       \* "none", "closeWrite", "read", "newline", "closeRead", "done"
    readers,     \* the processes that hold pipefd[0]
    writers,     \* the processes that hold pipefd[1]
    written,     \* bytes of the message the kernel has taken
    pipe,        \* the bytes in the pipe, as offsets in the message
    out          \* what the child wrote to its standard output

vars == <<parent, child, readers, writers, written, pipe, out>>

NewLine == 0

TypeOK ==
    /\ parent \in {"fork", "closeRead", "write", "closeWrite", "wait", "done", "failed"}
    /\ child \in {"none", "closeWrite", "read", "newline", "closeRead", "done"}
    /\ readers \subseteq Processes /\ writers \subseteq Processes
    /\ written \in 0..Length
    /\ pipe \in Seq(1..Length) /\ Len(pipe) <= Capacity
    /\ out \in Seq(0..Length)

Init ==
    /\ parent = "fork" /\ child = "none"
    /\ readers = {"parent"} /\ writers = {"parent"}
    /\ written = 0
    /\ pipe = <<>> /\ out = <<>>

\* fork() duplicates both ends.
Fork ==
    /\ parent = "fork"
    /\ parent' = "closeRead" /\ child' = "closeWrite"
    /\ readers' = Processes /\ writers' = Processes
    /\ UNCHANGED <<written, pipe, out>>

ForkFails ==
    /\ parent = "fork"
    /\ parent' = "failed"
    /\ readers' = {} /\ writers' = {}
    /\ UNCHANGED <<child, written, pipe, out>>

ParentCloseRead ==
    /\ parent = "closeRead"
    /\ readers' = readers \ {"parent"}
    /\ parent' = "write"
    /\ UNCHANGED <<child, writers, written, pipe, out>>

\* Mutant: what follows a partial write starts at the first byte again.
ParentWriteRestarts ==
    /\ parent = "write"
    /\ readers # {}
    /\ \E n \in 1..(Length - written) :
         /\ Len(pipe) + n <= Capacity
         /\ pipe' = pipe \o [k \in 1..n |-> k]
         /\ written' = written + n
    /\ parent' = IF written' = Length THEN "closeWrite" ELSE "write"
    /\ UNCHANGED <<child, readers, writers, out>>

\* Mutant: sizeof message instead of strlen(message), one byte more.
ParentWriteNul ==
    /\ parent = "write"
    /\ readers # {}
    /\ \E n \in 1..(Length + 1 - written) :
         /\ Len(pipe) + n <= Capacity
         /\ pipe' = pipe \o [k \in 1..n |-> written + k]
         /\ written' = written + n
    /\ parent' = IF written' = Length + 1 THEN "closeWrite" ELSE "write"
    /\ UNCHANGED <<child, readers, writers, out>>

\* The part of write() that fits in the pipe; the call blocks for the rest.
ParentWrite ==
    /\ parent = "write"
    /\ readers # {}
    /\ \E n \in 1..(Length - written) :
         /\ Len(pipe) + n <= Capacity
         /\ pipe' = pipe \o [k \in 1..n |-> written + k]
         /\ written' = written + n
    /\ parent' = IF written' = Length THEN "closeWrite" ELSE "write"
    /\ UNCHANGED <<child, readers, writers, out>>

ParentCloseWrite ==
    /\ parent = "closeWrite"
    /\ writers' = writers \ {"parent"}
    /\ parent' = "wait"
    /\ UNCHANGED <<child, readers, written, pipe, out>>

\* wait(NULL), then exit(EXIT_SUCCESS).
ParentWait ==
    /\ parent = "wait" /\ child = "done"
    /\ parent' = "done"
    /\ UNCHANGED <<child, readers, writers, written, pipe, out>>

\* Mutant: the child keeps its copy of the write end.
ChildKeepsWriteEnd ==
    /\ child = "closeWrite"
    /\ child' = "read"
    /\ UNCHANGED <<parent, readers, writers, written, pipe, out>>

\* The child closes its copy of the write end before it reads.
ChildCloseWrite ==
    /\ child = "closeWrite"
    /\ writers' = writers \ {"child"}
    /\ child' = "read"
    /\ UNCHANGED <<parent, readers, written, pipe, out>>

\* read() of one byte, and write() of it to the standard output.
ChildRead ==
    /\ child = "read" /\ pipe # <<>>
    /\ out' = Append(out, Head(pipe))
    /\ pipe' = Tail(pipe)
    /\ UNCHANGED <<parent, child, readers, writers, written>>

\* read() = 0: the pipe is empty and no write end is open.
ChildReadEnd ==
    /\ child = "read" /\ pipe = <<>> /\ writers = {}
    /\ child' = "newline"
    /\ UNCHANGED <<parent, readers, writers, written, pipe, out>>

ChildNewLine ==
    /\ child = "newline"
    /\ out' = Append(out, NewLine)
    /\ child' = "closeRead"
    /\ UNCHANGED <<parent, readers, writers, written, pipe>>

\* close(pipefd[0]) and _exit().
ChildCloseRead ==
    /\ child = "closeRead"
    /\ readers' = readers \ {"child"}
    /\ child' = "done"
    /\ UNCHANGED <<parent, writers, written, pipe, out>>

Parent ==
    \/ Fork \/ ForkFails
    \/ ParentCloseRead \/ ParentWrite \/ ParentCloseWrite \/ ParentWait
Child == ChildCloseWrite \/ ChildRead \/ ChildReadEnd \/ ChildNewLine \/ ChildCloseRead

Over == parent \in {"done", "failed"} /\ UNCHANGED vars

Next == Parent \/ Child \/ Over

\* Both processes are scheduled by the kernel.
FairSpec == Init /\ [][Next]_vars /\ WF_vars(Parent) /\ WF_vars(Child)

-----------------------------------------------------------------------------
(* Properties. *)

\* The child prints the message in order without losing or repeating a byte, and
\* the line break only after all of it, whatever the pipe's capacity.
InOrder ==
    \A k \in DOMAIN out : out[k] = IF k <= Length THEN k ELSE NewLine

\* A byte is in the message's unwritten rest, in the pipe, or printed; a parent
\* that has written never meets a pipe without reader (SIGPIPE).
Conserved ==
    /\ child \in {"none", "closeWrite", "read"} => written = Len(pipe) + Len(out)
    /\ parent \in {"closeRead", "write"} => readers # {}

\* Both processes end, with the whole message and its line break printed: the
\* child sees the end of file because it closed its own copy of the write end.
Completes ==
    <>(parent = "failed" \/ (parent = "done" /\ child = "done" /\ Len(out) = Length + 1))
===============================================================================
