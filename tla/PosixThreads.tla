----------------------------- MODULE PosixThreads -----------------------------
(***************************************************************************)
(* The main function that PosixThreads.c, UnixMutex.c, UnixSemaphores.c    *)
(* and UnixSpinLocks.c share: create the threads one by one, then join     *)
(* them one by one, then return.  Each of those programs EXTENDS this      *)
(* module with its own thread routine; a thread's state is the label it    *)
(* has reached in it.                                                      *)
(***************************************************************************)
EXTENDS ThreadConstants

VARIABLES
    main,        \* "create", "join", "done" (returned 0), "failed" (exit(1))
    next,        \* the counter i of the loop main is in
    thread       \* thread -> "none", a label of its routine, or "exited"

mainVars == <<main, next, thread>>

MainTypeOK(labels) ==
    /\ main \in {"create", "join", "done", "failed"}
    /\ next \in 0..THREAD_COUNT
    /\ thread \in [Threads -> {"none", "exited"} \union labels]

\* exit() by any thread, or main's return, ends them all.
Running == main \notin {"done", "failed"}

MainInit ==
    /\ main = "create"
    /\ next = 0
    /\ thread = [t \in Threads |-> "none"]

GoTo(t, label) == thread' = [thread EXCEPT ![t] = label]

\* pthread_create(&threads[i], ...): the routine is entered at "start".
Create ==
    /\ main = "create" /\ next < THREAD_COUNT
    /\ GoTo(next, "start")
    /\ next' = next + 1
    /\ UNCHANGED main

\* pthread_create() fails: message and exit(EXIT_FAILURE).
CreateFails ==
    /\ main = "create" /\ next < THREAD_COUNT
    /\ main' = "failed"
    /\ UNCHANGED <<next, thread>>

AllCreated ==
    /\ main = "create" /\ next = THREAD_COUNT
    /\ main' = "join"
    /\ next' = 0
    /\ UNCHANGED thread

\* Mutant: the threads are detached, not joined.
JoinAny ==
    /\ main = "join" /\ next < THREAD_COUNT
    /\ next' = next + 1
    /\ UNCHANGED <<main, thread>>

\* pthread_join(threads[i], NULL) waits for that thread and no other.
Join ==
    /\ main = "join" /\ next < THREAD_COUNT
    /\ thread[next] = "exited"
    /\ next' = next + 1
    /\ UNCHANGED <<main, thread>>

AllJoined ==
    /\ main = "join" /\ next = THREAD_COUNT
    /\ main' = "done"
    /\ UNCHANGED <<next, thread>>

Main == Create \/ CreateFails \/ AllCreated \/ Join \/ AllJoined

\* Part of an inductive invariant: what main knows of its threads.  The first next ones exist while it creates,
\* all exist and the first next ones are over while it joins.
MainInv ==
    /\ main = "create" => \A t \in Threads : thread[t] # "none" <=> t < next
    /\ main \in {"join", "done"} => \A t \in Threads : thread[t] # "none"
    /\ main = "join" => \A t \in Threads : t < next => thread[t] = "exited"
    /\ main = "done" => \A t \in Threads : thread[t] = "exited"
===============================================================================
