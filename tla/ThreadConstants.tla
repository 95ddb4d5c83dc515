---------------------------- MODULE ThreadConstants ----------------------------
(* What the thread programs are parameterised by, with what is assumed of it. *)
EXTENDS Integers, FiniteSets

CONSTANTS
    THREAD_COUNT,          \* MAX_THREADS in PosixThreads.c, 2 in UnixSpinLocks.c
    NoThread,              \* nobody holds the lock
    INCREMENTS,            \* of UnixMutex.c: 10 in the code
    SEMAPHORE_INIT_VAL,    \* of UnixSemaphores.c: 2 in the code
    Binary0                \* the initial value of binary there, 7 in the code

Threads == 0..(THREAD_COUNT - 1)

ASSUME ThreadCountAssumption == THREAD_COUNT \in Nat
ASSUME MutexAssumption == INCREMENTS \in Nat /\ NoThread \notin Threads
ASSUME SemaphoreAssumption == SEMAPHORE_INIT_VAL \in Nat /\ Binary0 \in Nat
================================================================================
