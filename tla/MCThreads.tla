------------------------------ MODULE MCThreads ------------------------------
(***************************************************************************)
(* The three programs of threads that synchronise, in one specification:   *)
(* the initial state chooses which of them is run, and the variables of    *)
(* the other two keep their initial values.                                *)
(***************************************************************************)
EXTENDS ThreadConstants

VARIABLES
    threadProgram,     \* "mutex", "semaphore" or "spin"
    mutexMain, mutexNext, mutexThread, mutex, counter, mutexI, mutexRegister,
    semMain, semNext, semThread, semaphore, binary, semRegister,
    spinMain, spinNext, spinThread, spinlock, cannot_go_over_2, spinRegister

mutexVars ==
    <<mutexMain, mutexNext, mutexThread, mutex, counter, mutexI, mutexRegister>>
semVars == <<semMain, semNext, semThread, semaphore, binary, semRegister>>
spinVars ==
    <<spinMain, spinNext, spinThread, spinlock, cannot_go_over_2, spinRegister>>
threadVars == <<threadProgram, mutexVars, semVars, spinVars>>

Mutex == INSTANCE MutexThreads WITH
    main <- mutexMain, next <- mutexNext, thread <- mutexThread, i <- mutexI,
    register <- mutexRegister

Semaphore == INSTANCE SemaphoreThreads WITH
    main <- semMain, next <- semNext, thread <- semThread, register <- semRegister

Spin == INSTANCE SpinLockThreads WITH
    main <- spinMain, next <- spinNext, thread <- spinThread, register <- spinRegister

ThreadsInit ==
    /\ threadProgram \in {"mutex", "semaphore", "spin"}
    /\ Mutex!Init /\ Semaphore!Init /\ Spin!Init

MutexProgram(step) ==
    threadProgram = "mutex" /\ step /\ UNCHANGED <<threadProgram, semVars, spinVars>>

SemaphoreProgram(step) ==
    threadProgram = "semaphore" /\ step /\ UNCHANGED <<threadProgram, mutexVars, spinVars>>

SpinProgram(step) ==
    threadProgram = "spin" /\ step /\ UNCHANGED <<threadProgram, mutexVars, semVars>>

\* One step of the program that runs: of its main function, or of thread t.
MainOfOne ==
    \/ MutexProgram(Mutex!MainStep)
    \/ SemaphoreProgram(Semaphore!MainStep)
    \/ SpinProgram(Spin!MainStep)

RoutineOfOne(t) ==
    \/ MutexProgram(Mutex!Routine(t))
    \/ SemaphoreProgram(Semaphore!Routine(t))
    \/ SpinProgram(Spin!Routine(t))

ThreadsOver ==
    \/ MutexProgram(Mutex!Over)
    \/ SemaphoreProgram(Semaphore!Over)
    \/ SpinProgram(Spin!Over)

ThreadsNext == MainOfOne \/ (\E t \in Threads : RoutineOfOne(t)) \/ ThreadsOver

\* The kernel schedules every thread of the program that runs.
ThreadsSpec ==
    /\ ThreadsInit /\ [][ThreadsNext]_threadVars
    /\ WF_threadVars(MainOfOne)
    /\ \A t \in Threads : WF_threadVars(RoutineOfOne(t))

-----------------------------------------------------------------------------
\* The state of each of the three programs keeps its type.
ThreadsTypeOK == Mutex!TypeOK /\ Semaphore!TypeOK /\ Spin!TypeOK

\* UnixMutex.c: no increment is lost, counter is what the finished threads and the
\* holder of the mutex have added.
NoLostUpdate == Mutex!NoLostUpdate

\* UnixMutex.c, "there are no race conditions!": the count is right when main has
\* joined all threads, and the mutex it destroys is free.
FinalCount == Mutex!FinalCount

\* UnixSemaphores.c: each unit of the semaphore is available or held, and with a
\* semaphore of 1 the shifts undo each other.  UnixSpinLocks.c: what the unlocked
\* reads of cannot_go_over_2 can see.
LocksHold == Semaphore!UnitsConserved /\ Semaphore!Restored /\ Spin!ValueInv

\* Whichever program runs ends: no thread waits for a lock for ever, and main
\* joins them all (or gives up because a thread could not be created).
ProgramEnds ==
    /\ threadProgram = "mutex" => Mutex!Termination
    /\ threadProgram = "semaphore" => Semaphore!Termination
    /\ threadProgram = "spin" => Spin!Termination
===============================================================================
