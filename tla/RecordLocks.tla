----------------------------- MODULE RecordLocks -----------------------------
(***************************************************************************)
(* UnixRecordLocking.c: a parent truncates and writes a file of four       *)
(* records, takes a read lock on its last bytes and forks a child that     *)
(* reads the file and tries to write-lock the same bytes.  The locks       *)
(* are fcntl() locks: they belong to a process, fork() does not pass them  *)
(* on, and the end of the process releases them.  Several runs of the      *)
(* program use the same file.                                              *)
(***************************************************************************)
EXTENDS Integers, FiniteSets

CONSTANT Runs        \* runs of the program, one after the other or at once

VARIABLES
    parent,      \* run -> the call the parent is about to make, or how it ended
    child,       \* run -> the same for the child
    full,        \* the file holds the four records; otherwise it is empty
    readLocks,   \* the runs whose parent has the read lock
    writeLocks   \* the runs whose child has the write lock

vars == <<parent, child, full, readLocks, writeLocks>>

Ended == {"done", "failed", "killed"}

TypeOK ==
    /\ parent \in [Runs -> {"open", "write", "lock", "fork", "wait", "unlock", "exit"} \union Ended]
    /\ child \in [Runs -> {"none", "read", "lock", "exit", "done", "failed"}]
    /\ full \in BOOLEAN
    /\ readLocks \subseteq Runs /\ writeLocks \subseteq Runs

Init ==
    /\ parent = [r \in Runs |-> "open"]
    /\ child = [r \in Runs |-> "none"]
    /\ full \in BOOLEAN          \* what an earlier run has left
    /\ readLocks = {} /\ writeLocks = {}

ParentGoesTo(r, pc) == parent' = [parent EXCEPT ![r] = pc]
ChildGoesTo(r, pc) == child' = [child EXCEPT ![r] = pc]

\* open() with O_TRUNC, which no lock prevents.
Open(r) ==
    /\ parent[r] = "open"
    /\ full' = FALSE
    /\ ParentGoesTo(r, "write")
    /\ UNCHANGED <<child, readLocks, writeLocks>>

OpenFails(r) ==
    /\ parent[r] = "open"
    /\ ParentGoesTo(r, "failed")
    /\ UNCHANGED <<child, full, readLocks, writeLocks>>

\* write() of the records, at offset 0 of the parent's own descriptor.
Write(r) ==
    /\ parent[r] = "write"
    /\ full' = TRUE
    /\ ParentGoesTo(r, "lock")
    /\ UNCHANGED <<child, readLocks, writeLocks>>

\* fcntl(F_SETLK) with F_RDLCK on the last sixteen bytes, counted from the end.
Lock(r) ==
    /\ parent[r] = "lock"
    /\ full /\ writeLocks = {}
    /\ readLocks' = readLocks \union {r}
    /\ ParentGoesTo(r, "fork")
    /\ UNCHANGED <<child, full, writeLocks>>

\* A child of another run has the write lock, or another run has emptied the
\* file, so that the section would begin before it: exit(EXIT_FAILURE).
LockFails(r) ==
    /\ parent[r] = "lock"
    /\ ~full \/ writeLocks # {}
    /\ ParentGoesTo(r, "failed")
    /\ UNCHANGED <<child, full, readLocks, writeLocks>>

\* The child closes the descriptor it inherited, which leaves the parent's lock
\* alone.
Fork(r) ==
    /\ parent[r] = "fork"
    /\ ParentGoesTo(r, "wait") /\ ChildGoesTo(r, "read")
    /\ UNCHANGED <<full, readLocks, writeLocks>>

ForkFails(r) ==
    /\ parent[r] = "fork"
    /\ ParentGoesTo(r, "failed")
    /\ readLocks' = readLocks \ {r}
    /\ UNCHANGED <<child, full, writeLocks>>

\* The parent created the file without giving a mode, so that open() may be
\* refused; read() then returns -1, and the lock on descriptor -1 fails.
ReopenFails(r) ==
    /\ child[r] = "read"
    /\ ChildGoesTo(r, "failed")
    /\ UNCHANGED <<parent, full, readLocks, writeLocks>>

\* open() and read(): the lock is advisory.  An empty file ends the child.
Read(r) ==
    /\ child[r] = "read"
    /\ ChildGoesTo(r, IF full THEN "lock" ELSE "failed")
    /\ UNCHANGED <<parent, full, readLocks, writeLocks>>

\* fcntl(F_SETLK) with F_WRLCK on the same bytes: refused while any other
\* process has a lock on them.
ChildLock(r) ==
    /\ child[r] = "lock"
    /\ full /\ readLocks = {} /\ writeLocks = {}
    /\ writeLocks' = {r}
    /\ ChildGoesTo(r, "exit")
    /\ UNCHANGED <<parent, full, readLocks>>

ChildLockFails(r) ==
    /\ child[r] = "lock"
    /\ ~full \/ readLocks # {} \/ writeLocks # {}
    /\ ChildGoesTo(r, "failed")
    /\ UNCHANGED <<parent, full, readLocks, writeLocks>>

\* exit(EXIT_SUCCESS) of a child that got the lock releases it.
ChildExit(r) ==
    /\ child[r] = "exit"
    /\ writeLocks' = writeLocks \ {r}
    /\ ChildGoesTo(r, "done")
    /\ UNCHANGED <<parent, full, readLocks>>

\* Mutant: the parent ends without waiting for its child.
WaitNot(r) ==
    /\ parent[r] = "wait"
    /\ ParentGoesTo(r, "unlock")
    /\ UNCHANGED <<child, full, readLocks, writeLocks>>

Wait(r) ==
    /\ parent[r] = "wait" /\ child[r] \in {"done", "failed"}
    /\ ParentGoesTo(r, "unlock")
    /\ UNCHANGED <<child, full, readLocks, writeLocks>>

\* fcntl(fd, F_UNLCK, &lock): F_UNLCK is a lock type, and as a command it is
\* F_SETFD, which succeeds and leaves the lock where it is.
Unlock(r) ==
    /\ parent[r] = "unlock"
    /\ ParentGoesTo(r, "exit")
    /\ UNCHANGED <<child, full, readLocks, writeLocks>>

\* The end of the parent releases the lock.
Exit(r) ==
    /\ parent[r] = "exit"
    /\ readLocks' = readLocks \ {r}
    /\ ParentGoesTo(r, "done")
    /\ UNCHANGED <<child, full, writeLocks>>

\* The parent is killed: its lock is gone, its child goes on.
Kill(r) ==
    /\ parent[r] \notin Ended
    /\ readLocks' = readLocks \ {r}
    /\ ParentGoesTo(r, "killed")
    /\ UNCHANGED <<child, full, writeLocks>>

Parent(r) ==
    \/ Open(r) \/ OpenFails(r) \/ Write(r) \/ Lock(r) \/ LockFails(r)
    \/ Fork(r) \/ ForkFails(r) \/ Wait(r) \/ Unlock(r) \/ Exit(r)

Child(r) ==
    \/ ReopenFails(r) \/ Read(r)
    \/ ChildLock(r) \/ ChildLockFails(r) \/ ChildExit(r)

Step(r) == Parent(r) \/ Child(r)

Over ==
    /\ \A r \in Runs : parent[r] \in Ended /\ child[r] \in {"none", "done", "failed"}
    /\ UNCHANGED vars

Next == (\E r \in Runs : Step(r) \/ Kill(r)) \/ Over

-----------------------------------------------------------------------------
(* Properties. *)

\* "it will not succeed since the parent currently holds a readlock": a child
\* gets the write lock only when its own parent was killed, however the runs
\* truncate, lock and end around it.
ChildRefused ==
    \A r \in Runs : child[r] \in {"exit", "done"} => parent[r] = "killed"

\* F_SETLK does not wait for a lock: every process of every run ends.
RunsEnd ==
    \A r \in Runs : <>(parent[r] \in Ended /\ child[r] \in {"none", "done", "failed"})
===============================================================================
