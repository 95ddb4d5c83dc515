----------------------------- MODULE SharedMemory -----------------------------
(***************************************************************************)
(* UnixSharedMemory.c: a parent attaches a System V segment and forks a    *)
(* child that writes a text into it; when the child is gone the parent     *)
(* prints the text.  Both then remove the segment and detach it.  Removal  *)
(* takes the key away at once and the memory with the last attachment, and *)
(* several runs of the program may share a segment.                        *)
(***************************************************************************)
EXTENDS Integers, FiniteSets

CONSTANT Runs        \* runs of the program, one after the other or at once

Processes == {"parent", "child"}
NoSegment == 0       \* segments are numbered from 1

VARIABLES
    pc,          \* run -> process -> the call it is about to make
    shmid,       \* run -> the segment shmget() returned
    attached,    \* the processes, <<run, process>>, that have it mapped
    keyed,       \* the segment the key names, or NoSegment
    latest,      \* the number of the last segment that was created
    removed,     \* the segments IPC_RMID was called on
    text,        \* segment -> "zeros", "part" or "whole"
    printed      \* run -> what the parent printed, or "nothing"

vars == <<pc, shmid, attached, keyed, latest, removed, text, printed>>

Calls ==
    {"get", "attach", "fork", "wait", "print", "none", "write", "writing",
     "remove", "detach", "exited", "failed", "left"}

TypeOK ==
    /\ pc \in [Runs -> [Processes -> Calls]]
    /\ shmid \in [Runs -> 0..latest]
    /\ attached \subseteq Runs \X Processes
    /\ latest \in 0..Cardinality(Runs) /\ keyed \in 0..latest
    /\ removed \subseteq 1..latest
    /\ text \in [1..latest -> {"zeros", "part", "whole"}]
    /\ printed \in [Runs -> {"nothing", "zeros", "part", "whole"}]

Init ==
    /\ pc = [r \in Runs |-> [parent |-> "get", child |-> "none"]]
    /\ shmid = [r \in Runs |-> NoSegment]
    /\ attached = {}
    /\ keyed = NoSegment /\ latest = NoSegment
    /\ removed = {}
    /\ text = [s \in {} |-> "zeros"]
    /\ printed = [r \in Runs |-> "nothing"]

\* Where the parent is when the run is over: it has returned, or exited because
\* shmget() or shmat(), or fork(), failed.
Ends == {"exited", "failed", "left"}

GoTo(r, p, call) == pc' = [pc EXCEPT ![r][p] = call]

AttachedTo(s) == {x \in attached : shmid[x[1]] = s}

\* The memory is there until it has been removed and nobody is attached.
Exists(s) == s \in 1..latest /\ (s \notin removed \/ AttachedTo(s) # {})

\* shmget(key, IPC_CREAT): the segment of that key, or a new one.
Get(r) ==
    /\ pc[r].parent = "get"
    /\ GoTo(r, "parent", "attach")
    /\ IF keyed = NoSegment
         THEN /\ latest' = latest + 1 /\ keyed' = latest + 1
              /\ text' = [s \in 1..(latest + 1) |-> IF s <= latest THEN text[s] ELSE "zeros"]
         ELSE UNCHANGED <<latest, keyed, text>>
    /\ shmid' = [shmid EXCEPT ![r] = keyed']
    /\ UNCHANGED <<attached, removed, printed>>

\* shmget() fails: exit(EXIT_FAILURE).
GetFails(r) ==
    /\ pc[r].parent = "get"
    /\ GoTo(r, "parent", "failed")
    /\ UNCHANGED <<shmid, attached, keyed, latest, removed, text, printed>>

\* shmat() maps the segment.
Attach(r) ==
    /\ pc[r].parent = "attach"
    /\ Exists(shmid[r])
    /\ attached' = attached \union {<<r, "parent">>}
    /\ GoTo(r, "parent", "fork")
    /\ UNCHANGED <<shmid, keyed, latest, removed, text, printed>>

\* Another run has destroyed the segment meanwhile, or the kernel refuses:
\* exit(EXIT_FAILURE) without removing it.
AttachFails(r) ==
    /\ pc[r].parent = "attach"
    /\ GoTo(r, "parent", "left")
    /\ UNCHANGED <<shmid, attached, keyed, latest, removed, text, printed>>

\* The child inherits the mapping.
Fork(r) ==
    /\ pc[r].parent = "fork"
    /\ pc' = [pc EXCEPT ![r] = [parent |-> "wait", child |-> "write"]]
    /\ attached' = attached \union {<<r, "child">>}
    /\ UNCHANGED <<shmid, keyed, latest, removed, text, printed>>

\* exit(EXIT_FAILURE) detaches; the segment is not removed, and keeps its key.
ForkFails(r) ==
    /\ pc[r].parent = "fork"
    /\ GoTo(r, "parent", "left")
    /\ attached' = attached \ {<<r, "parent">>}
    /\ UNCHANGED <<shmid, keyed, latest, removed, text, printed>>

\* sprintf() into the segment, byte by byte.  All runs write the same text, so
\* writing over a whole text changes nothing.
StartWrite(r) ==
    /\ pc[r].child = "write"
    /\ text' = [text EXCEPT ![shmid[r]] = IF @ = "whole" THEN @ ELSE "part"]
    /\ GoTo(r, "child", "writing")
    /\ UNCHANGED <<shmid, attached, keyed, latest, removed, printed>>

EndWrite(r) ==
    /\ pc[r].child = "writing"
    /\ text' = [text EXCEPT ![shmid[r]] = "whole"]
    /\ GoTo(r, "child", "remove")
    /\ UNCHANGED <<shmid, attached, keyed, latest, removed, printed>>

\* Mutant: the parent does not wait for the child.
WaitNot(r) ==
    /\ pc[r].parent = "wait"
    /\ GoTo(r, "parent", "print")
    /\ UNCHANGED <<shmid, attached, keyed, latest, removed, text, printed>>

Wait(r) ==
    /\ pc[r].parent = "wait" /\ pc[r].child = "exited"
    /\ GoTo(r, "parent", "print")
    /\ UNCHANGED <<shmid, attached, keyed, latest, removed, text, printed>>

PrintText(r) ==
    /\ pc[r].parent = "print"
    /\ printed' = [printed EXCEPT ![r] = text[shmid[r]]]
    /\ GoTo(r, "parent", "remove")
    /\ UNCHANGED <<shmid, attached, keyed, latest, removed, text>>

\* shmctl(IPC_RMID), by both: the second call finds a segment that is marked
\* already and succeeds too, because the caller is attached to it.
Remove(r, p) ==
    /\ pc[r][p] = "remove"
    /\ removed' = removed \union {shmid[r]}
    /\ keyed' = IF keyed = shmid[r] THEN NoSegment ELSE keyed
    /\ GoTo(r, p, "detach")
    /\ UNCHANGED <<shmid, attached, latest, text, printed>>

\* shmdt() and the return.
Detach(r, p) ==
    /\ pc[r][p] = "detach"
    /\ attached' = attached \ {<<r, p>>}
    /\ GoTo(r, p, "exited")
    /\ UNCHANGED <<shmid, keyed, latest, removed, text, printed>>

Step(r) ==
    \/ Get(r) \/ GetFails(r) \/ Attach(r) \/ AttachFails(r)
    \/ Fork(r) \/ ForkFails(r) \/ StartWrite(r) \/ EndWrite(r)
    \/ Wait(r) \/ PrintText(r)
    \/ \E p \in Processes : Remove(r, p) \/ Detach(r, p)

Over ==
    /\ \A r \in Runs : pc[r].parent \in Ends
    /\ UNCHANGED vars

Next == (\E r \in Runs : Step(r)) \/ Over

-----------------------------------------------------------------------------
(* Properties. *)

\* What the parent prints is the whole text of its child: the removal by the
\* child, or by another run, takes nothing from a parent that is attached.
PrintedWhole == \A r \in Runs : printed[r] \in {"nothing", "whole"}

\* Every call on the segment after shmat() is made by a process that has it
\* mapped, so IPC_RMID is never refused; and a segment that has its key, or memory
\* nobody is attached to, belongs to a run that is not over yet, or whose shmat() or
\* fork() failed: only those runs leave a segment behind.
SegmentOwned ==
    /\ \A r \in Runs : \A p \in Processes :
         pc[r][p] \in {"fork", "write", "writing", "wait", "print", "remove", "detach"}
           <=> <<r, p>> \in attached
    /\ keyed \notin removed
    /\ \A s \in 1..latest :
         (s = keyed \/ (Exists(s) /\ AttachedTo(s) = {})) =>
            \E r \in Runs : shmid[r] = s /\ pc[r].parent \notin Ends \ {"left"}

\* Every run ends.
RunsEnd == \A r \in Runs : <>(pc[r].parent \in Ends)
===============================================================================
