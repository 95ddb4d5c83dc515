---------------------------- MODULE ThreadsProofs ----------------------------
(***************************************************************************)
(* The mutex, the semaphore and the spin lock do what their programs rely  *)
(* on, for any number of threads, any number of increments and any initial *)
(* value of the semaphore.                                                 *)
(***************************************************************************)
EXTENDS MCThreads, FiniteSetTheorems, TLAPS

-----------------------------------------------------------------------------
(* UnixMutex.c. *)

\* The holder of the mutex is the only thread in the loop, and what it has
\* loaded is still the value of counter when it stores.
HolderInv ==
    /\ \A t \in Threads : Mutex!Working(t) <=> mutex = t
    /\ \A t \in Threads : mutexThread[t] = "store" =>
         mutexRegister[t] = counter /\ mutexI[t] < INCREMENTS
    /\ \A t \in Threads : mutexThread[t] \in {"none", "start"} => mutexI[t] = 0

MutexIInv == Mutex!TypeOK /\ Mutex!MainInv /\ HolderInv /\ Mutex!NoLostUpdate

\* There are finitely many threads.
LEMMA ThreadsFinite ==
    IsFiniteSet(Threads) /\ Cardinality(Threads) = THREAD_COUNT
  <1>1. 0 \in Int /\ THREAD_COUNT - 1 \in Int
    BY ThreadCountAssumption
  <1> QED
    BY <1>1, ThreadCountAssumption, FS_Interval DEF Threads

\* The instances count as this module does, and over the same threads.
LEMMA SameCount ==
    /\ \A S : Mutex!Cardinality(S) = Cardinality(S)
    /\ \A S : Semaphore!Cardinality(S) = Cardinality(S)
  BY DEF Mutex!Cardinality, Semaphore!Cardinality, Cardinality

LEMMA SameThreads == Mutex!Threads = Threads
  BY DEF Mutex!Threads, Threads

LEMMA FinishedFinite ==
    IsFiniteSet(Mutex!Finished) /\ Cardinality(Mutex!Finished) \in Nat
  <1>1. Mutex!Finished \subseteq Threads
    BY SameThreads DEF Mutex!Finished
  <1> QED
    BY <1>1, ThreadsFinite, FS_Subset, FS_CardinalityType

LEMMA MutexInitIInv == Mutex!Init => MutexIInv
  <1> SUFFICES ASSUME Mutex!Init PROVE MutexIInv
    OBVIOUS
  <1> USE ThreadCountAssumption, MutexAssumption, SameThreads, SameCount DEF Mutex!Init,
  Mutex!MainInit
  <1>1. Mutex!TypeOK
    BY DEF Mutex!TypeOK, Mutex!MainTypeOK
  <1>2. Mutex!MainInv
    BY DEF Mutex!MainInv, Threads
  <1>3. HolderInv
    BY DEF HolderInv, Mutex!Working
  <1>4. Mutex!Finished = {}
    BY DEF Mutex!Finished
  <1>5. Mutex!NoLostUpdate
    BY <1>4, FS_EmptySet DEF Mutex!NoLostUpdate
  <1> QED
    BY <1>1, <1>2, <1>3, <1>5 DEF MutexIInv

\* Creating and joining threads does not touch what the mutex protects.
LEMMA MutexMainIInv == MutexIInv /\ Mutex!MainStep => MutexIInv'
  <1> SUFFICES ASSUME MutexIInv, Mutex!MainStep PROVE MutexIInv'
    OBVIOUS
  <1> USE ThreadCountAssumption, MutexAssumption, SameThreads, SameCount
  <1>1. UNCHANGED Mutex!routineVars /\ Mutex!Main
    BY DEF Mutex!MainStep
  <1>2. CASE Mutex!Create
    <2>1. mutexNext \in Threads /\ mutexThread[mutexNext] = "none"
      BY <1>2 DEF Mutex!Create, MutexIInv, Mutex!MainInv, Mutex!TypeOK, Mutex!MainTypeOK,
         Threads
    <2>2. /\ mutexThread' = [mutexThread EXCEPT ![mutexNext] = "start"]
          /\ mutexNext' = mutexNext + 1 /\ mutexMain' = mutexMain
      BY <1>2 DEF Mutex!Create, Mutex!GoTo
    <2>3. Mutex!TypeOK'
      BY <1>1, <1>2, <2>1, <2>2 DEF Mutex!Create, MutexIInv, Mutex!TypeOK, Mutex!MainTypeOK,
         Mutex!Labels, Mutex!routineVars
    <2>4. Mutex!MainInv'
      BY <1>2, <2>1, <2>2 DEF Mutex!Create, MutexIInv, Mutex!TypeOK, Mutex!MainTypeOK,
         Mutex!MainInv, Threads
    <2>5. HolderInv'
      BY <1>1, <2>1, <2>2 DEF MutexIInv, Mutex!TypeOK, Mutex!MainTypeOK, HolderInv,
         Mutex!Working, Mutex!routineVars
    <2>6. Mutex!Finished' = Mutex!Finished
      BY <2>1, <2>2 DEF Mutex!Finished, MutexIInv, Mutex!TypeOK, Mutex!MainTypeOK
    <2> QED
      BY <1>1, <2>3, <2>4, <2>5, <2>6 DEF MutexIInv, Mutex!NoLostUpdate, Mutex!routineVars
  <1>3. CASE Mutex!CreateFails \/ Mutex!AllCreated \/ Mutex!Join \/ Mutex!AllJoined
    <2>1. mutexThread' = mutexThread
      BY <1>3 DEF Mutex!CreateFails, Mutex!AllCreated, Mutex!Join, Mutex!AllJoined
    <2>2. Mutex!TypeOK'
      BY <1>1, <1>3, <2>1
      DEF Mutex!CreateFails, Mutex!AllCreated, Mutex!Join, Mutex!AllJoined, MutexIInv,
         Mutex!TypeOK, Mutex!MainTypeOK, Mutex!routineVars
    <2>3. Mutex!MainInv'
      BY <1>3, <2>1
      DEF Mutex!CreateFails, Mutex!AllCreated, Mutex!Join, Mutex!AllJoined, MutexIInv,
         Mutex!TypeOK, Mutex!MainTypeOK, Mutex!MainInv, Threads
    <2>4. HolderInv' /\ Mutex!NoLostUpdate'
      BY <1>1, <2>1 DEF MutexIInv, HolderInv, Mutex!NoLostUpdate, Mutex!Finished,
         Mutex!Working, Mutex!routineVars
    <2> QED
      BY <2>2, <2>3, <2>4 DEF MutexIInv
  <1> QED
    BY <1>1, <1>2, <1>3 DEF Mutex!Main

\* The four steps of a thread.
LEMMA MutexRoutineIInv ==
  ASSUME MutexIInv, NEW t \in Threads, Mutex!Routine(t)
  PROVE  MutexIInv'
  <1> USE ThreadCountAssumption, MutexAssumption, SameThreads, SameCount
  <1> USE DEF MutexIInv, Mutex!TypeOK, Mutex!MainTypeOK
  <1>1. UNCHANGED <<mutexMain, mutexNext>>
    BY DEF Mutex!Routine
  <1>2. mutexThread[t] \notin {"none", "exited"}
    BY DEF Mutex!Routine, Mutex!Lock, Mutex!LoadCounter, Mutex!StoreCounter, Mutex!Unlock
  <1>3. \E label \in {"loop", "store", "exited"} : mutexThread' = [mutexThread EXCEPT ![t] =
  label]
    BY DEF Mutex!Routine, Mutex!Lock, Mutex!LoadCounter, Mutex!StoreCounter, Mutex!Unlock,
       Mutex!GoTo
  <1>4. Mutex!MainInv'
    BY <1>1, <1>2, <1>3 DEF Mutex!MainInv
  <1>5. CASE Mutex!Lock(t)
    <2>1. Mutex!TypeOK'
      BY <1>1, <1>5 DEF Mutex!Lock, Mutex!GoTo, Mutex!Labels
    <2>2. HolderInv'
      BY <1>5 DEF Mutex!Lock, Mutex!GoTo, HolderInv, Mutex!Working
    <2>3. Mutex!Finished' = Mutex!Finished
      BY <1>5 DEF Mutex!Lock, Mutex!GoTo, Mutex!Finished
    <2>4. Mutex!NoLostUpdate'
      BY <1>5, <2>3 DEF Mutex!Lock, HolderInv, Mutex!NoLostUpdate
    <2> QED
      BY <1>4, <2>1, <2>2, <2>4
  <1>6. CASE Mutex!LoadCounter(t)
    <2>1. Mutex!TypeOK'
      BY <1>1, <1>6 DEF Mutex!LoadCounter, Mutex!GoTo, Mutex!Labels
    <2>2. HolderInv'
      BY <1>6 DEF Mutex!LoadCounter, Mutex!GoTo, HolderInv, Mutex!Working
    <2>3. Mutex!Finished' = Mutex!Finished
      BY <1>6 DEF Mutex!LoadCounter, Mutex!GoTo, Mutex!Finished
    <2> QED
      BY <1>4, <1>6, <2>1, <2>2, <2>3 DEF Mutex!LoadCounter, Mutex!NoLostUpdate
  <1>7. CASE Mutex!StoreCounter(t)
    <2>1. mutex = t /\ mutexRegister[t] = counter /\ mutexI[t] < INCREMENTS
      BY <1>7 DEF Mutex!StoreCounter, HolderInv, Mutex!Working
    <2>2. Mutex!TypeOK'
      BY <1>1, <1>7, <2>1 DEF Mutex!StoreCounter, Mutex!GoTo, Mutex!Labels
    <2>3. HolderInv'
      BY <1>7, <2>1 DEF Mutex!StoreCounter, Mutex!GoTo, HolderInv, Mutex!Working
    <2>4. Mutex!Finished' = Mutex!Finished
      BY <1>7 DEF Mutex!StoreCounter, Mutex!GoTo, Mutex!Finished
    <2>5. /\ counter' = counter + 1 /\ mutexI'[t] = mutexI[t] + 1 /\ mutex' = t
          /\ mutexI[t] \in Nat /\ counter \in Nat
      BY <1>7, <2>1 DEF Mutex!StoreCounter
    <2>6. INCREMENTS * Cardinality(Mutex!Finished) \in Nat
      BY FinishedFinite
    <2>7. Mutex!NoLostUpdate'
      BY <2>1, <2>4, <2>5, <2>6 DEF Mutex!NoLostUpdate
    <2> QED
      BY <1>4, <2>2, <2>3, <2>7
  <1>8. CASE Mutex!Unlock(t)
    <2>1. mutex = t /\ mutexI[t] = INCREMENTS
      BY <1>8 DEF Mutex!Unlock, HolderInv, Mutex!Working
    <2>2. Mutex!TypeOK'
      BY <1>1, <1>8 DEF Mutex!Unlock, Mutex!GoTo, Mutex!Labels
    <2>3. HolderInv'
      BY <1>8, <2>1 DEF Mutex!Unlock, Mutex!GoTo, HolderInv, Mutex!Working
    <2>4. Mutex!Finished' = Mutex!Finished \union {t} /\ t \notin Mutex!Finished
      BY <1>8 DEF Mutex!Unlock, Mutex!GoTo, Mutex!Finished
    <2>5. Cardinality(Mutex!Finished') = Cardinality(Mutex!Finished) + 1
      BY <2>4, FinishedFinite, FS_AddElement
    <2>6. counter' = counter /\ mutex' = NoThread
      BY <1>8 DEF Mutex!Unlock
    <2>7. Cardinality(Mutex!Finished) \in Nat
      BY FinishedFinite
    <2>8. INCREMENTS * (Cardinality(Mutex!Finished) + 1)
             = INCREMENTS * Cardinality(Mutex!Finished) + INCREMENTS
      BY <2>7
    <2>9. Mutex!NoLostUpdate'
      BY <2>1, <2>5, <2>6, <2>8 DEF Mutex!NoLostUpdate
    <2> QED
      BY <1>4, <2>2, <2>3, <2>9
  <1> QED
    BY <1>5, <1>6, <1>7, <1>8 DEF Mutex!Routine

LEMMA MutexStepIInv == MutexIInv /\ [Mutex!Next]_mutexVars => MutexIInv'
  <1> SUFFICES ASSUME MutexIInv, [Mutex!Next]_mutexVars PROVE MutexIInv'
    OBVIOUS
  <1>1. CASE Mutex!MainStep
    BY <1>1, MutexMainIInv
  <1>2. ASSUME NEW t \in Threads, Mutex!Routine(t) PROVE MutexIInv'
    BY <1>2, MutexRoutineIInv
  <1>3. CASE Mutex!Over \/ UNCHANGED mutexVars
    BY <1>3, SameThreads DEF mutexVars, Mutex!Over, Mutex!vars, Mutex!mainVars,
       Mutex!routineVars, MutexIInv, Mutex!TypeOK, Mutex!MainTypeOK, Mutex!MainInv,
                HolderInv, Mutex!Working, Mutex!NoLostUpdate, Mutex!Finished
  <1> QED
    BY <1>1, <1>2, <1>3, SameThreads
    DEF Mutex!Next, mutexVars, Mutex!vars, Mutex!mainVars, Mutex!routineVars

-----------------------------------------------------------------------------
(* UnixSemaphores.c. *)

\* With one unit the holder is alone, so what it does to binary between its two
\* shifts is known at each of its labels.
AloneInv ==
    SEMAPHORE_INIT_VAL = 1 =>
        /\ \A t, u \in Semaphore!Holders : t = u
        /\ \A t \in Threads :
             /\ semThread[t] \in {"up", "upStore", "post"} => binary = Binary0
             /\ semThread[t] \in {"check", "down", "downStore"} => binary = 4 * Binary0
             /\ semThread[t] \in {"upStore", "downStore"} => semRegister[t] = binary
        /\ Semaphore!Restored

SemIInv ==
    Semaphore!TypeOK /\ Semaphore!MainInv /\ Semaphore!UnitsConserved /\ AloneInv

LEMMA HoldersFinite ==
    IsFiniteSet(Semaphore!Holders) /\ Cardinality(Semaphore!Holders) \in Nat
  <1>1. Semaphore!Holders \subseteq Threads
    BY DEF Semaphore!Holders, Semaphore!Threads, Threads
  <1> QED
    BY <1>1, ThreadsFinite, FS_Subset, FS_CardinalityType

LEMMA SemInitIInv == Semaphore!Init => SemIInv
  <1> SUFFICES ASSUME Semaphore!Init PROVE SemIInv
    OBVIOUS
  <1> USE ThreadCountAssumption, SemaphoreAssumption DEF Semaphore!Init, Semaphore!MainInit
  <1>1. Semaphore!TypeOK
    BY DEF Semaphore!TypeOK, Semaphore!MainTypeOK
  <1>2. Semaphore!Holders = {}
    BY DEF Semaphore!Holders, Semaphore!Inside
  <1>3. Cardinality(Semaphore!Holders) = 0
    BY <1>2, FS_EmptySet
  <1>4. Semaphore!UnitsConserved
    BY <1>3, SameCount DEF Semaphore!UnitsConserved
  <1>5. AloneInv
    BY <1>2 DEF AloneInv, Semaphore!Restored, Semaphore!Threads, Threads
  <1>6. Semaphore!MainInv
    BY DEF Semaphore!MainInv, Semaphore!Threads
  <1> QED
    BY <1>1, <1>4, <1>5, <1>6 DEF SemIInv

\* Creating and joining threads changes no holder of the semaphore.
LEMMA SemMainIInv == SemIInv /\ Semaphore!MainStep => SemIInv'
  <1> SUFFICES ASSUME SemIInv, Semaphore!MainStep PROVE SemIInv'
    OBVIOUS
  <1> USE ThreadCountAssumption, SemaphoreAssumption
  <1>1. UNCHANGED <<semaphore, binary, semRegister>> /\ Semaphore!Main
    BY DEF Semaphore!MainStep, Semaphore!routineVars
  <1>2. Semaphore!TypeOK'
    BY <1>1 DEF SemIInv, Semaphore!TypeOK, Semaphore!MainTypeOK, Semaphore!Main,
         Semaphore!Create, Semaphore!CreateFails, Semaphore!AllCreated, Semaphore!Join,
         Semaphore!AllJoined, Semaphore!GoTo, Semaphore!Labels, Semaphore!Threads
  <1>3. Semaphore!MainInv'
    BY <1>1 DEF SemIInv, Semaphore!TypeOK, Semaphore!MainTypeOK, Semaphore!MainInv,
         Semaphore!Main, Semaphore!Create, Semaphore!CreateFails, Semaphore!AllCreated,
         Semaphore!Join, Semaphore!AllJoined, Semaphore!GoTo, Semaphore!Threads
  <1>4. \/ semThread' = semThread
        \/ semThread' = [semThread EXCEPT ![semNext] = "start"] /\ semThread[semNext] = "none"
    BY <1>1 DEF SemIInv, Semaphore!TypeOK, Semaphore!MainTypeOK, Semaphore!MainInv,
         Semaphore!Main, Semaphore!Create, Semaphore!CreateFails, Semaphore!AllCreated,
         Semaphore!Join, Semaphore!AllJoined, Semaphore!GoTo, Semaphore!Threads
  <1>5. \A t \in Threads : semThread'[t] # semThread[t] =>
                             semThread[t] = "none" /\ semThread'[t] = "start"
    BY <1>4 DEF SemIInv, Semaphore!TypeOK, Semaphore!MainTypeOK, Semaphore!Threads, Threads
  <1>6. Semaphore!Holders' = Semaphore!Holders
    BY <1>5 DEF Semaphore!Holders, Semaphore!Inside, Semaphore!Threads, Threads
  <1>7. Semaphore!UnitsConserved'
    BY <1>1, <1>6 DEF SemIInv, Semaphore!UnitsConserved
  <1>8. AloneInv'
    BY <1>1, <1>5, <1>6 DEF SemIInv, AloneInv, Semaphore!Restored
  <1> QED
    BY <1>2, <1>3, <1>7, <1>8 DEF SemIInv

\* The steps of a thread: only sem_wait() and sem_post() change who holds a unit,
\* and only the holders write binary.
LEMMA SemRoutineIInv ==
  ASSUME SemIInv, NEW t \in Threads, Semaphore!Routine(t)
  PROVE  SemIInv'
  <1> USE ThreadCountAssumption, SemaphoreAssumption
  <1> DEFINE up == semThread'[t]
  <1>1. Semaphore!Threads = Threads
    BY DEF Semaphore!Threads, Threads
  <1>2. /\ semThread \in [Threads -> {"none", "exited"} \union Semaphore!Labels]
        /\ semaphore \in Nat /\ binary \in Nat /\ semRegister \in [Threads -> Nat]
    BY <1>1 DEF SemIInv, Semaphore!TypeOK, Semaphore!MainTypeOK
  <1>3. semNext' = semNext /\ semMain' \in {semMain, "failed"}
    BY DEF Semaphore!Routine, Semaphore!SemWait, Semaphore!Load, Semaphore!Store,
           Semaphore!OutOfBounds, Semaphore!Sleep, Semaphore!SemPost
  <1>4. /\ semThread[t] \notin {"none", "exited"}
        /\ \/ semThread' = semThread
           \/ /\ \E label \in Semaphore!Inside \union {"exited"} :
                   semThread' = [semThread EXCEPT ![t] = label]
              /\ semMain' = semMain
    BY DEF Semaphore!Routine, Semaphore!SemWait, Semaphore!Load, Semaphore!Store,
           Semaphore!OutOfBounds, Semaphore!Sleep, Semaphore!SemPost, Semaphore!GoTo,
           Semaphore!Inside
  <1>5. Semaphore!MainInv'
    BY <1>1, <1>2, <1>3, <1>4 DEF SemIInv, Semaphore!MainInv, Semaphore!Inside
  <1>6. Semaphore!TypeOK'
    <2>1. semaphore' \in Nat
      BY <1>2 DEF Semaphore!Routine, Semaphore!SemWait, Semaphore!Load, Semaphore!Store,
           Semaphore!OutOfBounds, Semaphore!Sleep, Semaphore!SemPost
    <2>2. binary' \in Nat /\ semRegister' \in [Threads -> Nat]
      BY <1>2 DEF Semaphore!Routine, Semaphore!SemWait, Semaphore!Load, Semaphore!Store,
           Semaphore!OutOfBounds, Semaphore!Sleep, Semaphore!SemPost
    <2>3. semThread' \in [Threads -> {"none", "exited"} \union Semaphore!Labels]
      BY <1>2, <1>4 DEF Semaphore!Labels
    <2> QED
      BY <1>1, <1>3, <2>1, <2>2, <2>3 DEF SemIInv, Semaphore!TypeOK, Semaphore!MainTypeOK
  <1>7. CASE Semaphore!SemWait(t)
    <2>1. /\ semThread' = [semThread EXCEPT ![t] = "up"] /\ semThread[t] = "start"
          /\ semaphore > 0 /\ semaphore' = semaphore - 1
          /\ UNCHANGED <<binary, semRegister>>
      BY <1>7 DEF Semaphore!SemWait, Semaphore!GoTo
    <2>2. Semaphore!Holders' = Semaphore!Holders \union {t} /\ t \notin Semaphore!Holders
      BY <1>1, <1>2, <2>1 DEF Semaphore!Holders, Semaphore!Inside
    <2>3. Cardinality(Semaphore!Holders') = Cardinality(Semaphore!Holders) + 1
      BY <2>2, HoldersFinite, FS_AddElement
    <2>4. Semaphore!UnitsConserved'
      BY <1>2, <2>1, <2>3, HoldersFinite, SameCount DEF SemIInv, Semaphore!UnitsConserved
    <2>5. ASSUME SEMAPHORE_INIT_VAL = 1 PROVE Semaphore!Holders = {}
      <3>1. Cardinality(Semaphore!Holders) = 0
        BY <1>2, <2>1, <2>5, HoldersFinite, SameCount DEF SemIInv, Semaphore!UnitsConserved
      <3> QED
        BY <3>1, HoldersFinite, FS_EmptySet
    <2>6. AloneInv'
      <3> SUFFICES ASSUME SEMAPHORE_INIT_VAL = 1 PROVE AloneInv'
        BY DEF AloneInv
      <3>1. binary = Binary0 /\ Semaphore!Holders' = {t}
        BY <2>2, <2>5 DEF SemIInv, AloneInv, Semaphore!Restored
      <3>2. \A u \in Threads : semThread'[u] \in Semaphore!Inside => u = t
        BY <1>1, <3>1 DEF Semaphore!Holders
      <3> QED
        BY <1>2, <2>1, <3>1, <3>2 DEF AloneInv, Semaphore!Restored, Semaphore!Inside
    <2> QED
      BY <1>5, <1>6, <2>4, <2>6 DEF SemIInv
  <1>8. CASE Semaphore!SemPost(t)
    <2>1. /\ semThread' = [semThread EXCEPT ![t] = "exited"] /\ semThread[t] = "post"
          /\ semaphore' = semaphore + 1 /\ UNCHANGED <<binary, semRegister>>
      BY <1>8 DEF Semaphore!SemPost, Semaphore!GoTo
    <2>2. Semaphore!Holders' = Semaphore!Holders \ {t} /\ t \in Semaphore!Holders
      BY <1>1, <1>2, <2>1 DEF Semaphore!Holders, Semaphore!Inside
    <2>3. Cardinality(Semaphore!Holders') = Cardinality(Semaphore!Holders) - 1
      BY <2>2, HoldersFinite, FS_RemoveElement
    <2>4. Semaphore!UnitsConserved'
      BY <1>2, <2>1, <2>3, HoldersFinite, SameCount DEF SemIInv, Semaphore!UnitsConserved
    <2>5. AloneInv'
      <3> SUFFICES ASSUME SEMAPHORE_INIT_VAL = 1 PROVE AloneInv'
        BY DEF AloneInv
      <3>1. binary' = Binary0 /\ Semaphore!Holders' = {}
        BY <2>1, <2>2 DEF SemIInv, AloneInv
      <3>2. \A u \in Threads : semThread'[u] \notin Semaphore!Inside
        BY <1>1, <3>1 DEF Semaphore!Holders
      <3> QED
        BY <3>1, <3>2 DEF AloneInv, Semaphore!Restored, Semaphore!Inside
    <2> QED
      BY <1>5, <1>6, <2>4, <2>5 DEF SemIInv
  <1>9. CASE Semaphore!Load(t) \/ Semaphore!Store(t) \/ Semaphore!OutOfBounds(t) \/
  Semaphore!Sleep(t)
    <2>1. /\ semaphore' = semaphore
          /\ semThread[t] \in Semaphore!Inside
          /\ semThread' = [semThread EXCEPT ![t] = semThread'[t]]
          /\ semThread'[t] \in Semaphore!Inside
      BY <1>2, <1>9 DEF Semaphore!Load, Semaphore!Store, Semaphore!OutOfBounds,
         Semaphore!Sleep,
                  Semaphore!GoTo, Semaphore!Inside
    <2>2. Semaphore!Holders' = Semaphore!Holders /\ t \in Semaphore!Holders
      BY <1>1, <1>2, <2>1 DEF Semaphore!Holders
    <2>3. Semaphore!UnitsConserved'
      BY <2>1, <2>2 DEF SemIInv, Semaphore!UnitsConserved
    <2>4. AloneInv'
      <3> SUFFICES ASSUME SEMAPHORE_INIT_VAL = 1 PROVE AloneInv'
        BY DEF AloneInv
      <3>1. /\ \A a, b \in Semaphore!Holders' : a = b
            /\ Semaphore!Restored'
        BY <2>2 DEF SemIInv, AloneInv, Semaphore!Restored
      <3>2. \A u \in Threads : semThread'[u] \in Semaphore!Inside => u = t
        BY <1>1, <2>2, <3>1 DEF Semaphore!Holders
      <3>3. /\ up \in {"up", "upStore", "post"} => binary' = Binary0
            /\ up \in {"check", "down", "downStore"} => binary' = 4 * Binary0
            /\ up \in {"upStore", "downStore"} => semRegister'[t] = binary'
        <4>1. CASE Semaphore!Load(t)
          BY <1>2, <4>1 DEF Semaphore!Load, Semaphore!GoTo, SemIInv, AloneInv
        <4>2. CASE Semaphore!Store(t)
          BY <1>2, <4>2 DEF Semaphore!Store, Semaphore!GoTo, SemIInv, AloneInv
        <4>3. CASE Semaphore!OutOfBounds(t) \/ Semaphore!Sleep(t)
          BY <1>2, <4>3 DEF Semaphore!OutOfBounds, Semaphore!Sleep, Semaphore!GoTo, SemIInv,
             AloneInv
        <4> QED
          BY <1>9, <4>1, <4>2, <4>3
      <3> QED
        BY <3>1, <3>2, <3>3 DEF AloneInv, Semaphore!Inside
    <2> QED
      BY <1>5, <1>6, <2>3, <2>4 DEF SemIInv
  <1> QED
    BY <1>7, <1>8, <1>9 DEF Semaphore!Routine

\* What the invariant knows of the semaphore program depends on its variables only.
LEMMA SemFrame == SemIInv /\ UNCHANGED semVars => SemIInv'
  BY DEF semVars, SemIInv, AloneInv, Semaphore!TypeOK, Semaphore!MainTypeOK,
         Semaphore!MainInv, Semaphore!UnitsConserved, Semaphore!Restored, Semaphore!Holders

-----------------------------------------------------------------------------
(* UnixSpinLocks.c: ValueInv is inductive once the types are known. *)

SpinIInv == Spin!TypeOK /\ Spin!MainInv /\ Spin!ValueInv

LEMMA SpinInitIInv == Spin!Init => SpinIInv
  <1> SUFFICES ASSUME Spin!Init PROVE SpinIInv
    OBVIOUS
  <1> USE ThreadCountAssumption, MutexAssumption DEF Spin!Init, Spin!MainInit
  <1>1. Spin!TypeOK
    BY DEF Spin!TypeOK, Spin!MainTypeOK
  <1>2. Spin!MainInv
    BY DEF Spin!MainInv, Spin!Threads
  <1>3. Spin!ValueInv
    BY DEF Spin!ValueInv, Spin!Locked, Spin!Threads, Threads
  <1> QED
    BY <1>1, <1>2, <1>3 DEF SpinIInv

\* Creating and joining threads takes nobody in or out of the locked part.
LEMMA SpinMainIInv == SpinIInv /\ Spin!MainStep => SpinIInv'
  <1> SUFFICES ASSUME SpinIInv, Spin!MainStep PROVE SpinIInv'
    OBVIOUS
  <1> USE ThreadCountAssumption, MutexAssumption
  <1>1. UNCHANGED <<spinlock, cannot_go_over_2, spinRegister>> /\ Spin!Main
    BY DEF Spin!MainStep, Spin!routineVars
  <1>2. Spin!TypeOK'
    BY <1>1 DEF SpinIInv, Spin!TypeOK, Spin!MainTypeOK, Spin!Main, Spin!Create,
         Spin!CreateFails, Spin!AllCreated, Spin!Join, Spin!AllJoined, Spin!GoTo,
         Spin!Labels, Spin!Threads
  <1>3. Spin!MainInv'
    BY <1>1 DEF SpinIInv, Spin!TypeOK, Spin!MainTypeOK, Spin!MainInv, Spin!Main,
         Spin!Create, Spin!CreateFails, Spin!AllCreated, Spin!Join, Spin!AllJoined,
         Spin!GoTo, Spin!Threads
  <1>4. \/ spinThread' = spinThread
        \/ spinThread' = [spinThread EXCEPT ![spinNext] = "start"] /\ spinThread[spinNext] = "none"
    BY <1>1 DEF SpinIInv, Spin!TypeOK, Spin!MainTypeOK, Spin!MainInv, Spin!Main,
         Spin!Create, Spin!CreateFails, Spin!AllCreated, Spin!Join, Spin!AllJoined,
         Spin!GoTo, Spin!Threads
  <1>5. \A t \in Spin!Threads : spinThread'[t] # spinThread[t] =>
                                  spinThread[t] = "none" /\ spinThread'[t] = "start"
    BY <1>4 DEF SpinIInv, Spin!TypeOK, Spin!MainTypeOK
  <1>6. Spin!ValueInv'
    BY <1>1, <1>5 DEF SpinIInv, Spin!ValueInv, Spin!Locked
  <1> QED
    BY <1>2, <1>3, <1>6 DEF SpinIInv

\* The steps of a thread: the two stores happen with the lock held, so what was
\* loaded is still the value, and it goes from 0 to 1 and back.
LEMMA SpinRoutineIInv ==
  ASSUME SpinIInv, NEW t \in Threads, Spin!Routine(t)
  PROVE  SpinIInv'
  <1> USE ThreadCountAssumption, MutexAssumption
  <1>1. Spin!Threads = Threads
    BY DEF Spin!Threads, Threads
  <1>2. /\ spinThread \in [Threads -> {"none", "exited"} \union Spin!Labels]
        /\ spinlock \in Threads \union {NoThread}
        /\ cannot_go_over_2 \in 0..255 /\ spinRegister \in [Threads -> 0..255]
    BY <1>1 DEF SpinIInv, Spin!TypeOK, Spin!MainTypeOK
  <1>3. spinNext' = spinNext /\ spinMain' \in {spinMain, "failed"}
    BY DEF Spin!Routine, Spin!Check, Spin!CheckFails, Spin!SpinLock, Spin!Load,
           Spin!Store, Spin!SpinUnlock
  <1>4. /\ spinThread[t] \notin {"none", "exited"}
        /\ \/ spinThread' = spinThread
           \/ /\ \E label \in Spin!Labels \union {"exited"} :
                   spinThread' = [spinThread EXCEPT ![t] = label]
              /\ spinMain' = spinMain
    BY DEF Spin!Routine, Spin!Check, Spin!CheckFails, Spin!SpinLock, Spin!Load,
           Spin!Store, Spin!SpinUnlock, Spin!GoTo, Spin!Labels, Spin!Locked
  <1>5. Spin!MainInv'
    BY <1>1, <1>2, <1>3, <1>4 DEF SpinIInv, Spin!MainInv, Spin!Labels, Spin!Locked
  <1>6. Spin!TypeOK'
    <2>1. spinlock' \in Threads \union {NoThread}
      BY <1>2 DEF Spin!Routine, Spin!Check, Spin!CheckFails, Spin!SpinLock, Spin!Load,
           Spin!Store, Spin!SpinUnlock, Spin!routineVars
    <2>2. cannot_go_over_2' \in 0..255 /\ spinRegister' \in [Threads -> 0..255]
      BY <1>2 DEF Spin!Routine, Spin!Check, Spin!CheckFails, Spin!SpinLock, Spin!Load,
           Spin!Store, Spin!SpinUnlock, Spin!routineVars
    <2>3. spinThread' \in [Threads -> {"none", "exited"} \union Spin!Labels]
      BY <1>2, <1>4
    <2> QED
      BY <1>1, <1>3, <2>1, <2>2, <2>3 DEF SpinIInv, Spin!TypeOK, Spin!MainTypeOK
  <1>7. /\ \A u \in Threads : spinThread[u] \in Spin!Locked <=> spinlock = u
        /\ cannot_go_over_2 =
             IF \E u \in Threads : spinThread[u] \in {"dec", "decStore"} THEN 1 ELSE 0
        /\ \A u \in Threads : spinThread[u] \in {"incStore", "decStore"} =>
             spinRegister[u] = cannot_go_over_2
    BY <1>1 DEF SpinIInv, Spin!ValueInv
  <1>8. CASE Spin!Check(t) \/ Spin!CheckFails(t)
    <2>1. /\ UNCHANGED <<spinlock, cannot_go_over_2, spinRegister>>
          /\ spinThread[t] \in {"start", "after"}
          /\ \A u \in Threads : u # t => spinThread'[u] = spinThread[u]
          /\ spinThread'[t] \in {"start", "after", "spin", "exited"}
      BY <1>2, <1>8 DEF Spin!Check, Spin!CheckFails, Spin!GoTo, Spin!routineVars
    <2>2. Spin!ValueInv'
      BY <1>1, <1>7, <2>1 DEF Spin!ValueInv, Spin!Locked
    <2> QED
      BY <1>5, <1>6, <2>2 DEF SpinIInv
  <1>9. CASE Spin!SpinLock(t)
    <2>1. Spin!ValueInv'
      BY <1>1, <1>2, <1>7, <1>9 DEF Spin!SpinLock, Spin!GoTo, Spin!ValueInv, Spin!Locked
    <2> QED
      BY <1>5, <1>6, <2>1 DEF SpinIInv
  <1>10. CASE Spin!Load(t)
    <2>1. Spin!ValueInv'
      BY <1>1, <1>2, <1>7, <1>10 DEF Spin!Load, Spin!GoTo, Spin!ValueInv, Spin!Locked
    <2> QED
      BY <1>5, <1>6, <2>1 DEF SpinIInv
  <1>11. CASE Spin!Store(t)
    <2>1. spinlock = t /\ \A u \in Threads : spinThread[u] \in Spin!Locked => u = t
      BY <1>7, <1>11 DEF Spin!Store, Spin!Locked
    <2>2. ASSUME spinThread[t] = "incStore" PROVE Spin!ValueInv'
      <3>1. cannot_go_over_2 = 0 /\ spinRegister[t] = 0
        BY <1>7, <2>1, <2>2 DEF Spin!Locked
      <3>2. /\ cannot_go_over_2' = 1 /\ spinThread' = [spinThread EXCEPT ![t] = "dec"]
            /\ UNCHANGED <<spinlock, spinRegister>>
        BY <1>11, <2>2, <3>1 DEF Spin!Store, Spin!GoTo
      <3> QED
        BY <1>1, <1>2, <1>7, <2>1, <3>2 DEF Spin!ValueInv, Spin!Locked
    <2>3. ASSUME spinThread[t] = "decStore" PROVE Spin!ValueInv'
      <3>1. cannot_go_over_2 = 1 /\ spinRegister[t] = 1
        BY <1>7, <2>1, <2>3
      <3>2. /\ cannot_go_over_2' = 0 /\ spinThread' = [spinThread EXCEPT ![t] = "unlock"]
            /\ UNCHANGED <<spinlock, spinRegister>>
        BY <1>11, <2>3, <3>1 DEF Spin!Store, Spin!GoTo
      <3> QED
        BY <1>1, <1>2, <1>7, <2>1, <3>2 DEF Spin!ValueInv, Spin!Locked
    <2>4. Spin!ValueInv'
      BY <1>11, <2>2, <2>3 DEF Spin!Store
    <2> QED
      BY <1>5, <1>6, <2>4 DEF SpinIInv
  <1>12. CASE Spin!SpinUnlock(t)
    <2>1. Spin!ValueInv'
      BY <1>1, <1>2, <1>7, <1>12, MutexAssumption DEF Spin!SpinUnlock, Spin!GoTo,
         Spin!ValueInv, Spin!Locked
    <2> QED
      BY <1>5, <1>6, <2>1 DEF SpinIInv
  <1> QED
    BY <1>8, <1>9, <1>10, <1>11, <1>12 DEF Spin!Routine

LEMMA SpinFrame == SpinIInv /\ UNCHANGED spinVars => SpinIInv'
  BY DEF spinVars, SpinIInv, Spin!TypeOK, Spin!MainTypeOK, Spin!MainInv, Spin!ValueInv

-----------------------------------------------------------------------------
(* The three programs under one specification. *)

\* Each program keeps its own invariant while it runs and while another one does.
AllIInv == MutexIInv /\ SemIInv /\ SpinIInv

LEMMA MutexFrame == MutexIInv /\ UNCHANGED mutexVars => MutexIInv'
  BY MutexStepIInv

LEMMA ThreadsInitIInv == ThreadsInit => AllIInv
  BY MutexInitIInv, SemInitIInv, SpinInitIInv DEF ThreadsInit, AllIInv

LEMMA ThreadsStepIInv == AllIInv /\ [ThreadsNext]_threadVars => AllIInv'
  <1> SUFFICES ASSUME AllIInv, [ThreadsNext]_threadVars PROVE AllIInv'
    OBVIOUS
  <1>1. ASSUME NEW t \in Threads, RoutineOfOne(t) PROVE AllIInv'
    <2>1. CASE MutexProgram(Mutex!Routine(t))
      BY <2>1, MutexRoutineIInv, SemFrame, SpinFrame DEF MutexProgram, AllIInv
    <2>2. CASE SemaphoreProgram(Semaphore!Routine(t))
      BY <2>2, MutexFrame, SemRoutineIInv, SpinFrame DEF SemaphoreProgram, AllIInv
    <2>3. CASE SpinProgram(Spin!Routine(t))
      BY <2>3, MutexFrame, SemFrame, SpinRoutineIInv DEF SpinProgram, AllIInv
    <2> QED
      BY <1>1, <2>1, <2>2, <2>3 DEF RoutineOfOne
  <1>2. CASE MainOfOne
    <2>1. CASE MutexProgram(Mutex!MainStep)
      BY <2>1, MutexMainIInv, SemFrame, SpinFrame DEF MutexProgram, AllIInv
    <2>2. CASE SemaphoreProgram(Semaphore!MainStep)
      BY <2>2, MutexFrame, SemMainIInv, SpinFrame DEF SemaphoreProgram, AllIInv
    <2>3. CASE SpinProgram(Spin!MainStep)
      BY <2>3, MutexFrame, SemFrame, SpinMainIInv DEF SpinProgram, AllIInv
    <2> QED
      BY <1>2, <2>1, <2>2, <2>3 DEF MainOfOne
  <1>3. CASE ThreadsOver \/ UNCHANGED threadVars
    <2>1. UNCHANGED mutexVars /\ UNCHANGED semVars /\ UNCHANGED spinVars
      BY <1>3 DEF ThreadsOver, MutexProgram, SemaphoreProgram, SpinProgram, Mutex!Over,
         Semaphore!Over,
           Spin!Over, threadVars, mutexVars, Mutex!vars, Mutex!mainVars,
           Mutex!routineVars, semVars, spinVars, Semaphore!vars, Spin!vars,
           Semaphore!mainVars, Semaphore!routineVars, Spin!mainVars, Spin!routineVars
    <2> QED
      BY <2>1, MutexFrame, SemFrame, SpinFrame DEF AllIInv
  <1> QED
    BY <1>1, <1>2, <1>3 DEF ThreadsNext

\* Whichever of the three programs runs, its variables keep their types, for every
\* number of threads and of increments, and every initial value of the semaphore.
THEOREM ThreadsTypeCorrect == ThreadsSpec => []ThreadsTypeOK
  <1>1. AllIInv => ThreadsTypeOK
    BY DEF AllIInv, MutexIInv, SemIInv, SpinIInv, ThreadsTypeOK
  <1> QED
    BY <1>1, ThreadsInitIInv, ThreadsStepIInv, PTL DEF ThreadsSpec

\* counter is always what the finished threads and the holder have added.
THEOREM UpdatesKept == ThreadsSpec => []NoLostUpdate
  <1>1. AllIInv => NoLostUpdate
    BY DEF AllIInv, MutexIInv, NoLostUpdate
  <1> QED
    BY <1>1, ThreadsInitIInv, ThreadsStepIInv, PTL DEF ThreadsSpec

\* When main has joined all the threads, counter is THREAD_COUNT * INCREMENTS
\* and nobody holds the mutex that main destroys.
THEOREM FinalCountCorrect == ThreadsSpec => []FinalCount
  <1>1. AllIInv => FinalCount
    <2> SUFFICES ASSUME MutexIInv, mutexMain = "done"
                 PROVE  counter = THREAD_COUNT * INCREMENTS /\ mutex = NoThread
      BY DEF AllIInv, FinalCount, Mutex!FinalCount
    <2>1. Mutex!Finished = Threads
      BY SameThreads DEF MutexIInv, Mutex!MainInv, Mutex!Finished
    <2>2. mutex = NoThread
      BY SameThreads DEF MutexIInv, Mutex!TypeOK, Mutex!MainInv, HolderInv, Mutex!Working
    <2>3. counter = INCREMENTS * THREAD_COUNT
      BY <2>1, <2>2, ThreadsFinite, SameCount, ThreadCountAssumption, MutexAssumption DEF
         MutexIInv, Mutex!NoLostUpdate
    <2> QED
      BY <2>2, <2>3, ThreadCountAssumption, MutexAssumption
  <1> QED
    BY <1>1, ThreadsInitIInv, ThreadsStepIInv, PTL DEF ThreadsSpec

\* sem_wait() and sem_post() lose and make no unit of the semaphore, a semaphore of
\* one unit makes the two shifts of binary undo each other, and the spin lock makes
\* its two updates of cannot_go_over_2 atomic: the unlocked reads see 0 or 1.
THEOREM LocksHoldCorrect == ThreadsSpec => []LocksHold
  <1>1. AllIInv => LocksHold
    <2> SUFFICES ASSUME AllIInv PROVE Semaphore!Restored
      BY DEF AllIInv, SemIInv, SpinIInv, LocksHold
    <2> QED
      BY DEF AllIInv, SemIInv, AloneInv, Semaphore!Restored
  <1> QED
    BY <1>1, ThreadsInitIInv, ThreadsStepIInv, PTL DEF ThreadsSpec
===============================================================================
