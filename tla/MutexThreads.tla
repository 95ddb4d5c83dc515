----------------------------- MODULE MutexThreads -----------------------------
(***************************************************************************)
(* UnixMutex.c: each thread takes the mutex and increments counter         *)
(* INCREMENTS times.  "counter++" is a load and a store, so that what the  *)
(* mutex is for can go wrong when it does not exclude.                     *)
(***************************************************************************)
EXTENDS PosixThreads

VARIABLES
    mutex,       \* the thread that holds it, or NoThread
    counter,
    i,           \* thread -> its loop counter
    register     \* thread -> the value of counter it has loaded

routineVars == <<mutex, counter, i, register>>
vars == <<mainVars, routineVars>>

Labels == {"start", "loop", "store"}

TypeOK ==
    /\ MainTypeOK(Labels)
    /\ mutex \in Threads \union {NoThread}
    /\ counter \in Nat
    /\ i \in [Threads -> 0..INCREMENTS]
    /\ register \in [Threads -> Nat]

Init ==
    /\ MainInit
    /\ mutex = NoThread
    /\ counter = 0
    /\ i = [t \in Threads |-> 0]
    /\ register = [t \in Threads |-> 0]

\* Mutant: the result of a failed lock is ignored and the thread goes on.
LockAlways(t) ==
    /\ thread[t] = "start"
    /\ mutex' = t
    /\ GoTo(t, "loop")
    /\ UNCHANGED <<counter, i, register>>

\* pthread_mutex_lock(): waits while another thread holds the mutex.
Lock(t) ==
    /\ thread[t] = "start"
    /\ mutex = NoThread
    /\ mutex' = t
    /\ GoTo(t, "loop")
    /\ UNCHANGED <<counter, i, register>>

LoadCounter(t) ==
    /\ thread[t] = "loop" /\ i[t] < INCREMENTS
    /\ register' = [register EXCEPT ![t] = counter]
    /\ GoTo(t, "store")
    /\ UNCHANGED <<mutex, counter, i>>

\* Mutant: the loop counter is advanced by the increment and by the loop.
StoreCounterTwice(t) ==
    /\ thread[t] = "store"
    /\ counter' = register[t] + 1
    /\ i' = [i EXCEPT ![t] = @ + 2]
    /\ GoTo(t, "loop")
    /\ UNCHANGED <<mutex, register>>

StoreCounter(t) ==
    /\ thread[t] = "store"
    /\ counter' = register[t] + 1
    /\ i' = [i EXCEPT ![t] = @ + 1]
    /\ GoTo(t, "loop")
    /\ UNCHANGED <<mutex, register>>

\* Mutant: pthread_exit() before the mutex is unlocked.
UnlockForgotten(t) ==
    /\ thread[t] = "loop" /\ i[t] = INCREMENTS
    /\ GoTo(t, "exited")
    /\ UNCHANGED <<mutex, counter, i, register>>

\* pthread_mutex_unlock(), then pthread_exit().
Unlock(t) ==
    /\ thread[t] = "loop" /\ i[t] = INCREMENTS
    /\ mutex' = NoThread
    /\ GoTo(t, "exited")
    /\ UNCHANGED <<counter, i, register>>

Routine(t) ==
    /\ Running
    /\ Lock(t) \/ LoadCounter(t) \/ StoreCounter(t) \/ Unlock(t)
    /\ UNCHANGED <<main, next>>

MainStep == Main /\ UNCHANGED routineVars

Over == ~Running /\ UNCHANGED vars

Next == MainStep \/ (\E t \in Threads : Routine(t)) \/ Over

Spec == Init /\ [][Next]_vars

\* The kernel schedules every thread; pthread_mutex_lock() by a thread cannot
\* be overtaken for ever because each other thread locks only once.
FairSpec == Spec /\ WF_vars(MainStep) /\ \A t \in Threads : WF_vars(Routine(t))

-----------------------------------------------------------------------------
(* Properties. *)

Working(t) == thread[t] \in {"loop", "store"}

\* The number of increments the finished threads made.
Finished == {t \in Threads : thread[t] = "exited"}

\* No increment is lost: counter is what the finished threads and the holder of
\* the mutex have added.
NoLostUpdate ==
    counter = INCREMENTS * Cardinality(Finished)
                + (IF mutex = NoThread THEN 0 ELSE i[mutex])

\* "there are no race conditions!": when main has joined every thread, counter
\* is exactly THREAD_COUNT * INCREMENTS, and the mutex is free to be destroyed.
FinalCount ==
    main = "done" => counter = THREAD_COUNT * INCREMENTS /\ mutex = NoThread

\* Every thread gets the mutex and main returns (or a create failed).
Termination == <>(main \in {"done", "failed"})
===============================================================================
