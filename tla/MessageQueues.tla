---------------------------- MODULE MessageQueues ----------------------------
(***************************************************************************)
(* SystemVMessageQueues.c: a parent forks a child that puts one message    *)
(* into a System V queue, waits for it, takes one message out of the       *)
(* queue, and removes the queue.  The queue belongs to the system, not to  *)
(* a process: several runs of the program share it through its key, and a  *)
(* run that is killed leaves it behind.                                    *)
(***************************************************************************)
EXTENDS Integers, Sequences, FiniteSets

CONSTANTS
    Runs,        \* runs of the program, one after the other or at once
    NoRun,       \* no message
    Room         \* messages of this size that a queue holds

NoQueue == 0     \* queues are numbered from 1; msg_id = -1 is NoQueue

VARIABLES
    parent,      \* run -> "get", "fork", "wait", "recv", "remove", or how it ended
    child,       \* run -> "none", "send" or "exited"
    msg_id,      \* run -> the queue msgget() returned
    received,    \* run -> the run whose child sent what the parent received
    current,     \* the queue the key names, or NoQueue
    latest,      \* the number of the last queue that was created
    queue        \* the messages in current

vars == <<parent, child, msg_id, received, current, latest, queue>>

Ended == {"done", "failed", "killed"}

TypeOK ==
    /\ parent \in [Runs -> {"get", "fork", "wait", "recv", "remove"} \union Ended]
    /\ child \in [Runs -> {"none", "send", "exited"}]
    /\ msg_id \in [Runs -> 0..latest]
    /\ received \in [Runs -> Runs \union {NoRun}]
    /\ latest \in Nat /\ current \in 0..latest
    /\ queue \in Seq(Runs) /\ Len(queue) <= Room

Init ==
    /\ parent = [r \in Runs |-> "get"]
    /\ child = [r \in Runs |-> "none"]
    /\ msg_id = [r \in Runs |-> NoQueue]
    /\ received = [r \in Runs |-> NoRun]
    /\ current = NoQueue /\ latest = NoQueue
    /\ queue = <<>>

ParentGoesTo(r, pc) == parent' = [parent EXCEPT ![r] = pc]
ChildGoesTo(r, pc) == child' = [child EXCEPT ![r] = pc]

\* msg_id still names a queue: it was not removed since msgget().
Valid(r) == msg_id[r] = current /\ current # NoQueue

\* msgget(key, IPC_CREAT): the queue of that key, created if there is none.
Get(r) ==
    /\ parent[r] = "get"
    /\ ParentGoesTo(r, "fork")
    /\ IF current = NoQueue
         THEN latest' = latest + 1 /\ current' = latest + 1
         ELSE UNCHANGED <<latest, current>>
    /\ msg_id' = [msg_id EXCEPT ![r] = current']
    /\ UNCHANGED <<child, received, queue>>

\* msgget() returns -1, which nobody looks at.
GetFails(r) ==
    /\ parent[r] = "get"
    /\ ParentGoesTo(r, "fork")
    /\ UNCHANGED <<child, msg_id, received, current, latest, queue>>

Fork(r) ==
    /\ parent[r] = "fork"
    /\ ParentGoesTo(r, "wait")
    /\ ChildGoesTo(r, "send")
    /\ UNCHANGED <<msg_id, received, current, latest, queue>>

\* exit(EXIT_FAILURE); the queue stays.
ForkFails(r) ==
    /\ parent[r] = "fork"
    /\ ParentGoesTo(r, "failed")
    /\ UNCHANGED <<child, msg_id, received, current, latest, queue>>

\* msgsnd() waits while the queue is full; on a queue that is not there it
\* fails, and the child exits with success all the same.
Send(r) ==
    /\ child[r] = "send"
    /\ IF Valid(r)
         THEN Len(queue) < Room /\ queue' = Append(queue, r)
         ELSE UNCHANGED queue
    /\ ChildGoesTo(r, "exited")
    /\ UNCHANGED <<parent, msg_id, received, current, latest>>

Wait(r) ==
    /\ parent[r] = "wait" /\ child[r] = "exited"
    /\ ParentGoesTo(r, "recv")
    /\ UNCHANGED <<child, msg_id, received, current, latest, queue>>

\* Mutant: the message is copied out of the queue and stays in it.
RecvKeeps(r) ==
    /\ parent[r] = "recv"
    /\ Valid(r) /\ queue # <<>>
    /\ received' = [received EXCEPT ![r] = Head(queue)]
    /\ ParentGoesTo(r, "remove")
    /\ UNCHANGED <<child, msg_id, current, latest, queue>>

\* msgrcv() takes the oldest message of type 1, the only type there is.
Recv(r) ==
    /\ parent[r] = "recv"
    /\ Valid(r) /\ queue # <<>>
    /\ received' = [received EXCEPT ![r] = Head(queue)]
    /\ queue' = Tail(queue)
    /\ ParentGoesTo(r, "remove")
    /\ UNCHANGED <<child, msg_id, current, latest>>

\* The queue is gone: msgrcv() returns -1 and the parent prints what was in its
\* own struct.
RecvFails(r) ==
    /\ parent[r] = "recv"
    /\ ~Valid(r)
    /\ ParentGoesTo(r, "remove")
    /\ UNCHANGED <<child, msg_id, received, current, latest, queue>>

\* msgctl(IPC_RMID) drops the queue with all its messages, whoever waits on it.
Remove(r) ==
    /\ parent[r] = "remove"
    /\ ParentGoesTo(r, "done")
    /\ IF Valid(r)
         THEN current' = NoQueue /\ queue' = <<>>
         ELSE UNCHANGED <<current, queue>>
    /\ UNCHANGED <<child, msg_id, received, latest>>

\* A signal from the terminal kills both processes of a run.
Kill(r) ==
    /\ parent[r] \notin Ended
    /\ ParentGoesTo(r, "killed")
    /\ ChildGoesTo(r, IF child[r] = "send" THEN "exited" ELSE child[r])
    /\ UNCHANGED <<msg_id, received, current, latest, queue>>

Parent(r) ==
    \/ Get(r) \/ GetFails(r) \/ Fork(r) \/ ForkFails(r)
    \/ Wait(r) \/ Recv(r) \/ RecvFails(r) \/ Remove(r)

Step(r) == Parent(r) \/ Send(r)

\* The queue is full of messages nobody will take any more.
Clogged ==
    Len(queue) = Room /\ \A p \in DOMAIN queue : parent[queue[p]] = "killed"

\* Every run has ended, or waits for room that does not come.
Over == (Clogged \/ \A r \in Runs : parent[r] \in Ended) /\ UNCHANGED vars

Next == (\E r \in Runs : Step(r) \/ Kill(r)) \/ Over

-----------------------------------------------------------------------------
(* Properties. *)

\* A queue that exists will be removed by a run that still goes on, or belongs
\* to one that was killed or could not fork: runs that end properly leave nothing
\* behind, however they overlap.
QueueOwned ==
    current # NoQueue =>
        \E r \in Runs : msg_id[r] = current /\ parent[r] # "done"

\* A message is received once, by a run that shares the queue of its sender; what
\* is in the queue has not been received yet.
ReceivedOnce ==
    /\ \A r, s \in Runs :
         (received[r] # NoRun /\ received[r] = received[s]) => r = s
    /\ \A r \in Runs : received[r] # NoRun =>
         child[received[r]] = "exited" /\ msg_id[received[r]] = msg_id[r]
    /\ \A p \in DOMAIN queue : \A r \in Runs : received[r] # queue[p]

\* A run ends: another one that removes the queue under its feet makes its calls
\* fail, but nobody waits for a message or for room that does not come.  Only a
\* queue that killed runs have filled stops the next ones.
RunsEnd == \A r \in Runs : <>[](parent[r] \in Ended \/ Clogged)
===============================================================================
