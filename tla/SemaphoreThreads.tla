--------------------------- MODULE SemaphoreThreads ---------------------------
(***************************************************************************)
(* UnixSemaphores.c: a counting semaphore lets SEMAPHORE_INIT_VAL threads  *)
(* at a time shift the global binary two bits up, sleep, and shift it back *)
(* down.  The shifts are plain C on a shared int: a load and a store each, *)
(* which another thread inside the semaphore may come between.             *)
(***************************************************************************)
EXTENDS PosixThreads

VARIABLES
    semaphore,   \* the value of the sem_t
    binary,
    register     \* thread -> the value of binary it has loaded

routineVars == <<semaphore, binary, register>>
vars == <<mainVars, routineVars>>

Inside == {"up", "upStore", "check", "down", "downStore", "post"}
Labels == {"start"} \union Inside

TypeOK ==
    /\ MainTypeOK(Labels)
    /\ semaphore \in Nat
    /\ binary \in Nat
    /\ register \in [Threads -> Nat]

Init ==
    /\ MainInit
    /\ semaphore = SEMAPHORE_INIT_VAL
    /\ binary = Binary0
    /\ register = [t \in Threads |-> 0]

SemWait(t) ==
    /\ thread[t] = "start"
    /\ semaphore > 0
    /\ semaphore' = semaphore - 1
    /\ GoTo(t, "up")
    /\ UNCHANGED <<main, binary, register>>

\* The load of "binary = binary << 2", or of "binary = binary >> 2".
Load(t) ==
    /\ \/ thread[t] = "up" /\ GoTo(t, "upStore")
       \/ thread[t] = "down" /\ GoTo(t, "downStore")
    /\ register' = [register EXCEPT ![t] = binary]
    /\ UNCHANGED <<main, semaphore, binary>>

\* The store of either.
Store(t) ==
    /\ \/ thread[t] = "upStore" /\ binary' = register[t] * 4 /\ GoTo(t, "check")
       \/ thread[t] = "downStore" /\ binary' = register[t] \div 4 /\ GoTo(t, "post")
    /\ UNCHANGED <<main, semaphore, register>>

\* "if (binary > 256)": the semaphore has failed, exit(EXIT_FAILURE).
OutOfBounds(t) ==
    /\ thread[t] = "check" /\ binary > 256
    /\ main' = "failed"
    /\ UNCHANGED <<thread, semaphore, binary, register>>

\* Within bounds: sleep, then go on to shift back.
Sleep(t) ==
    /\ thread[t] = "check" /\ binary <= 256
    /\ GoTo(t, "down")
    /\ UNCHANGED <<main, semaphore, binary, register>>

\* Mutant: pthread_exit() without sem_post().
SemPostForgotten(t) ==
    /\ thread[t] = "post"
    /\ GoTo(t, "exited")
    /\ UNCHANGED <<main, semaphore, binary, register>>

\* sem_post(), then pthread_exit().
SemPost(t) ==
    /\ thread[t] = "post"
    /\ semaphore' = semaphore + 1
    /\ GoTo(t, "exited")
    /\ UNCHANGED <<main, binary, register>>

Routine(t) ==
    /\ Running
    /\ \/ SemWait(t) \/ Load(t) \/ Store(t)
       \/ OutOfBounds(t) \/ Sleep(t) \/ SemPost(t)
    /\ UNCHANGED next

MainStep == Main /\ UNCHANGED routineVars

Over == ~Running /\ UNCHANGED vars

Next == MainStep \/ (\E t \in Threads : Routine(t)) \/ Over

Spec == Init /\ [][Next]_vars

\* The kernel schedules every thread that can run; each thread waits on the
\* semaphore once, so it is passed over at most THREAD_COUNT times.
FairSpec == Spec /\ WF_vars(MainStep) /\ \A t \in Threads : WF_vars(Routine(t))

-----------------------------------------------------------------------------
(* Properties. *)

Holders == {t \in Threads : thread[t] \in Inside}

\* Every unit of the semaphore is either available or held by one thread, so that
\* "the semaphore only allows concurrent access for 2 threads" is true as far as
\* the number of threads goes.
UnitsConserved == semaphore + Cardinality(Holders) = SEMAPHORE_INIT_VAL

\* With a semaphore of 1 the shifts undo each other: whenever nobody is inside,
\* binary has its first value back.
Restored == SEMAPHORE_INIT_VAL = 1 /\ Holders = {} => binary = Binary0

\* "They will not be met because the semaphore only allows concurrent access
\* for 2 threads": the check for more than 8 bits never fires.
NeverOutOfBounds ==
    \A t \in Threads : thread[t] = "check" => binary <= 256

\* Every thread is let in and main returns, or the program gives up.
Termination == <>(main \in {"done", "failed"})
===============================================================================
