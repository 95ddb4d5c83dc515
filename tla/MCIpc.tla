-------------------------------- MODULE MCIpc --------------------------------
(***************************************************************************)
(* The programs whose processes meet in an object of the kernel: the send  *)
(* buffer sendAllOfMessage fills (the variables are those of SendAll), a   *)
(* pipe, a FIFO, a message queue, a shared segment, the locks of a file,   *)
(* the queue of a watched path, a signal, and the output two processes     *)
(* share after fork().  The initial state chooses which of them is run,    *)
(* and the variables of the others keep their initial values.              *)
(***************************************************************************)
EXTENDS SendAll, FiniteSets

CONSTANTS
    Length, Capacity,        \* of Pipes
    Runs, NoRun, Room,       \* of MessageQueues
    Pair,                    \* the runs of SharedMemory, RecordLocks and Fifo
    MaxEvents, QueueRoom, BufferSize,   \* of EventWatching
    Delay,                   \* of AlarmSignal
    a, b, c

ASSUME PipeAssumption == Length \in Nat /\ Capacity \in Nat
ASSUME QueueAssumption == NoRun \notin Runs /\ Room \in Nat
ASSUME PairAssumption == IsFiniteSet(Pair)
ASSUME EventAssumption == BufferSize \in Nat /\ BufferSize >= 2
ASSUME AlarmAssumption == Delay \in Nat \ {0}

VARIABLES
    program,
    parent, child, readers, writers, written, pipe, out,
    queueParent, queueChild, msg_id, received, current, latestQueue, queue,
    shmPc, shmid, attached, keyed, latestSegment, removed, text, printed,
    lockParent, lockChild, full, readLocks, writeLocks,
    exists, reader, writer, fifo, got,
    watch, pending, happened, buffer, pointer, message, told,
    demo, terminal, forkPc, ppid, saved, stdio, forkOut, role,
    main, timer, pendingAlarm, handler

pipeVars == <<parent, child, readers, writers, written, pipe, out>>
queueVars == <<queueParent, queueChild, msg_id, received, current, latestQueue, queue>>
shmVars == <<shmPc, shmid, attached, keyed, latestSegment, removed, text, printed>>
lockVars == <<lockParent, lockChild, full, readLocks, writeLocks>>
fifoVars == <<exists, reader, writer, fifo, got>>
eventVars == <<watch, pending, happened, buffer, pointer, message, told>>
forkVars == <<demo, terminal, forkPc, ppid, saved, stdio, forkOut, role>>
alarmVars == <<main, timer, pendingAlarm, handler>>
ipcVars ==
    <<program, vars, pipeVars, queueVars, shmVars, lockVars, fifoVars, eventVars,
      forkVars, alarmVars>>

Pipe == INSTANCE Pipes
Queue == INSTANCE MessageQueues WITH
    parent <- queueParent, child <- queueChild, latest <- latestQueue
Shm == INSTANCE SharedMemory WITH
    Runs <- Pair, pc <- shmPc, latest <- latestSegment
Locks == INSTANCE RecordLocks WITH
    Runs <- Pair, parent <- lockParent, child <- lockChild
Named == INSTANCE Fifo WITH Runs <- Pair
Events == INSTANCE EventWatching
Forks == INSTANCE Forking WITH pc <- forkPc, out <- forkOut
Alarm == INSTANCE AlarmSignal

UpToEight == 0..8
ThreeRuns == {a, b, c}
TwoRuns == {a, b}

IpcInit ==
    /\ program \in {"sendAll", "pipe", "queue", "shm", "locks", "fifo", "events",
                    "forks", "alarm"}
    /\ Init /\ Pipe!Init /\ Queue!Init /\ Shm!Init /\ Locks!Init
    /\ Named!Init /\ Events!Init /\ Forks!Init /\ Alarm!Init
    /\ program # "sendAll" => length = 0 /\ numberSent = 0
    /\ program # "locks" => ~full
    /\ program # "fifo" => ~exists
    /\ program # "events" => message = Events!Unset
    /\ program # "forks" => demo = "intro" /\ terminal

\* A step of program p.
Only(p, step) ==
    /\ program = p /\ step
    /\ p # "sendAll" => UNCHANGED vars
    /\ p # "pipe" => UNCHANGED pipeVars
    /\ p # "queue" => UNCHANGED queueVars
    /\ p # "shm" => UNCHANGED shmVars
    /\ p # "locks" => UNCHANGED lockVars
    /\ p # "fifo" => UNCHANGED fifoVars
    /\ p # "events" => UNCHANGED eventVars
    /\ p # "forks" => UNCHANGED forkVars
    /\ p # "alarm" => UNCHANGED alarmVars
    /\ UNCHANGED program

\* The caller of the function, the parent of the pipe or of the fork, the
\* program that watches, and the one that has set an alarm.
MainStep ==
    \/ Only("sendAll", Running)
    \/ Only("pipe", Pipe!Parent)
    \/ Only("forks", Forks!Parent)
    \/ Only("events", Events!Program)
    \/ Only("alarm", Alarm!Process)

\* The other process, and the clock.
OtherStep ==
    \/ Only("pipe", Pipe!Child)
    \/ Only("forks", Forks!Child)
    \/ Only("alarm", Alarm!Tick)

\* One step of either process of run r.
RunStep(r) ==
    \/ Only("queue", Queue!Step(r))
    \/ /\ r \in Pair
       /\ \/ Only("shm", Shm!Step(r))
          \/ Only("locks", Locks!Step(r))
          \/ Only("fifo", Named!Step(r))

\* What nobody has to do.
Optional ==
    \/ \E r \in Runs : Only("queue", Queue!Kill(r))
    \/ \E r \in Pair : Only("locks", Locks!Kill(r)) \/ Only("fifo", Named!Start(r))
    \/ Only("events", Events!Kernel)
    \/ Only("forks", Forks!ShellEnds)

\* Where the programs stop, or wait for another run or for an event.
Ended ==
    \/ Only("sendAll", Over) \/ Only("pipe", Pipe!Over) \/ Only("queue", Queue!Over)
    \/ Only("shm", Shm!Over) \/ Only("locks", Locks!Over) \/ Only("forks", Forks!Over)
    \/ Only("fifo", Named!Over) \/ Only("events", Events!Over) \/ Only("alarm", Alarm!Over)

IpcNext == MainStep \/ OtherStep \/ (\E r \in Runs : RunStep(r)) \/ Optional \/ Ended

\* Every process and the clock go on.  No process is ever started or killed of
\* necessity, and no event has to happen.
IpcSpec ==
    /\ IpcInit /\ [][IpcNext]_ipcVars
    /\ WF_ipcVars(MainStep) /\ WF_ipcVars(OtherStep)
    /\ \A r \in Runs : WF_ipcVars(RunStep(r))

-----------------------------------------------------------------------------
\* The state of each program keeps its type.
IpcTypeOK ==
    /\ TypeOK /\ Pipe!TypeOK /\ Queue!TypeOK /\ Shm!TypeOK /\ Locks!TypeOK
    /\ Named!TypeOK /\ Events!TypeOK /\ Forks!TypeOK /\ Alarm!TypeOK

\* Pipes.c: what the child prints is the message, in order, and no byte
\* disappears between the two processes.
PipeDelivers == Pipe!InOrder /\ Pipe!Conserved

\* SystemVMessageQueues.c: a message reaches one parent at most, and runs that
\* end properly leave no queue behind.
QueueUsedOnce == Queue!ReceivedOnce /\ Queue!QueueOwned

\* UnixSharedMemory.c: the parent prints the whole text, no call is made on a
\* segment that is not mapped, and only a failed shmat() or fork() leaves one behind.
SegmentUsedWhole == Shm!PrintedWhole /\ Shm!SegmentOwned

\* UnixRecordLocking.c: the child does not get the lock its parent holds.
ChildRefused == Locks!ChildRefused

\* FIFO.c: a message is read once at most and never dropped, and alone a run reads
\* its own.
OneReader == Named!OneReader

\* UnixFileEventWatching.c: every event of a watched kind is told, in order.
EachEventTold == Events!EachEventTold

\* AlarmSignal.c: no alarm is lost before the program waits for the next one.
AlarmKept == Alarm!Armed

\* Forking.c, ProcessGroups.c, BasicUnixSystemCalls.c: who takes itself for
\* whom, and which lines reach the output how often.
TwoProcesses == Forks!Roles /\ Forks!Output

\* The function returns, both processes of Pipes.c end with the whole message
\* printed, the runs of the other programs end (with FIFO.c, unless they have
\* lost their partner), events are read as long as there are any, and the alarm
\* of AlarmSignal.c goes off again and again.
IpcEnds ==
    /\ program = "sendAll" => Returns
    /\ program = "pipe" => Pipe!Completes
    /\ program = "queue" => Queue!RunsEnd
    /\ program = "shm" => Shm!RunsEnd
    /\ program = "locks" => Locks!RunsEnd
    /\ program = "fifo" => Named!RunsEnd
    /\ program = "events" => Events!AllTold
    /\ program = "forks" => Forks!BothEnd
    /\ program = "alarm" => Alarm!KeepsTicking
===============================================================================
