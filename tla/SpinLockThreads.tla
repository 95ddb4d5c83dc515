--------------------------- MODULE SpinLockThreads ---------------------------
(***************************************************************************)
(* UnixSpinLocks.c: each thread reads cannot_go_over_2 without the lock,   *)
(* increments and decrements it under a spin lock, and reads it again      *)
(* without the lock.  The variable is a u_int8_t: arithmetic is mod 256.   *)
(***************************************************************************)
EXTENDS PosixThreads

VARIABLES
    spinlock,            \* the thread that holds it, or NoThread
    cannot_go_over_2,
    register             \* thread -> the value it has loaded

routineVars == <<spinlock, cannot_go_over_2, register>>
vars == <<mainVars, routineVars>>

Locked == {"inc", "incStore", "dec", "decStore", "unlock"}
Labels == {"start", "spin", "after"} \union Locked

TypeOK ==
    /\ MainTypeOK(Labels)
    /\ spinlock \in Threads \union {NoThread}
    /\ cannot_go_over_2 \in 0..255
    /\ register \in [Threads -> 0..255]

Init ==
    /\ MainInit
    /\ spinlock = NoThread
    /\ cannot_go_over_2 = 0
    /\ register = [t \in Threads |-> 0]

\* "if (cannot_go_over_2 > 2) exit(EXIT_FAILURE)", outside the lock, on entry
\* and before the thread exits.
Check(t) ==
    /\ \/ thread[t] = "start" /\ GoTo(t, "spin")
       \/ thread[t] = "after" /\ GoTo(t, "exited")
    /\ cannot_go_over_2 <= 2
    /\ UNCHANGED <<main, routineVars>>

CheckFails(t) ==
    /\ thread[t] \in {"start", "after"}
    /\ cannot_go_over_2 > 2
    /\ main' = "failed"
    /\ UNCHANGED <<thread, routineVars>>

\* pthread_spin_lock(): the iteration of the busy loop that finds it free.
SpinLock(t) ==
    /\ thread[t] = "spin"
    /\ spinlock = NoThread
    /\ spinlock' = t
    /\ GoTo(t, "inc")
    /\ UNCHANGED <<main, cannot_go_over_2, register>>

Load(t) ==
    /\ \/ thread[t] = "inc" /\ GoTo(t, "incStore")
       \/ thread[t] = "dec" /\ GoTo(t, "decStore")
    /\ register' = [register EXCEPT ![t] = cannot_go_over_2]
    /\ UNCHANGED <<main, spinlock, cannot_go_over_2>>

Store(t) ==
    /\ \/ /\ thread[t] = "incStore" /\ GoTo(t, "dec")
          /\ cannot_go_over_2' = (register[t] + 1) % 256
       \/ /\ thread[t] = "decStore" /\ GoTo(t, "unlock")
          /\ cannot_go_over_2' = (register[t] - 1) % 256
    /\ UNCHANGED <<main, spinlock, register>>

SpinUnlock(t) ==
    /\ thread[t] = "unlock"
    /\ spinlock' = NoThread
    /\ GoTo(t, "after")
    /\ UNCHANGED <<main, cannot_go_over_2, register>>

Routine(t) ==
    /\ Running
    /\ \/ Check(t) \/ CheckFails(t)
       \/ SpinLock(t) \/ Load(t) \/ Store(t) \/ SpinUnlock(t)
    /\ UNCHANGED next

MainStep == Main /\ UNCHANGED routineVars

Over == ~Running /\ UNCHANGED vars

Next == MainStep \/ (\E t \in Threads : Routine(t)) \/ Over

Spec == Init /\ [][Next]_vars

\* Every thread is scheduled; one that spins takes the lock once it is free,
\* because each other thread takes it only once.
FairSpec == Spec /\ WF_vars(MainStep) /\ \A t \in Threads : WF_vars(Routine(t))

-----------------------------------------------------------------------------
(* Properties. *)

\* The value is 1 exactly while the holder of the lock is between its two
\* stores, so the unlocked reads of the other threads see 0 or 1 and the
\* decrement never wraps to 255.
ValueInv ==
    /\ \A t \in Threads : thread[t] \in Locked <=> spinlock = t
    /\ cannot_go_over_2 =
         IF \E t \in Threads : thread[t] \in {"dec", "decStore"} THEN 1 ELSE 0
    /\ \A t \in Threads : thread[t] \in {"incStore", "decStore"} =>
         register[t] = cannot_go_over_2

\* Both threads get the lock and main returns (or a create failed).
Termination == <>(main \in {"done", "failed"})
===============================================================================
