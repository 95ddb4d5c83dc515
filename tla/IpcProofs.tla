------------------------------- MODULE IpcProofs -------------------------------
(***************************************************************************)
(* sendAllOfMessage counts right, although the bytes are not; what         *)
(* processes get out of a pipe, a message queue, a shared segment, a       *)
(* locked file and a FIFO is what was put in; every file event is told,    *)
(* no alarm is lost, and a forked process writes what it inherited: for    *)
(* any number of runs, any length of a message and any room in the         *)
(* kernel's object.                                                        *)
(***************************************************************************)
EXTENDS MCIpc, FiniteSetTheorems, SequenceTheorems, WellFoundedInduction, TLAPS

-----------------------------------------------------------------------------
(* UnixSocketSendAllBytes.c. *)

\* Accounting with the types it needs, and what the loop knows of numberSent.
SendIInv ==
    /\ TypeOK
    /\ Accounting
    /\ (pc = "loop" /\ numberSent = -1) => totalSent = 0
    /\ pc = "return" =>
         /\ result = <<totalSent, IF numberSent = -1 THEN -1 ELSE 0>>
         /\ numberSent # -1 => totalSent >= length
         /\ (numberSent = -1 /\ length > 0) => totalSent < length

LEMMA SendInitIInv == Init => SendIInv
  <1> SUFFICES ASSUME Init PROVE SendIInv
    OBVIOUS
  <1>1. <<>> \in Seq(1..PointerSize) /\ Len(<<>>) = 0
    OBVIOUS
  <1> QED
    BY <1>1, SendAllAssumption DEF Init, SendIInv, TypeOK, Accounting

\* One send(): the kernel takes at most sizeof(char *) bytes of those asked for.
LEMMA SendStep ==
  ASSUME SendIInv, NEW n \in 1..PointerSize, Send(n)
  PROVE  SendIInv'
  <1> USE SendAllAssumption DEF SendIInv, TypeOK
  <1> DEFINE bytes == [k \in 1..n |-> k]
  <1>1. bytes \in Seq(1..PointerSize) /\ Len(bytes) = n
    <2>1. n \in Nat /\ bytes \in [1..n -> 1..PointerSize]
      OBVIOUS
    <2> HIDE DEF bytes
    <2>2. bytes \in Seq(1..PointerSize)
      BY <2>1, SeqDef
    <2> QED
      BY <2>1, <2>2, LenProperties
  <1>2. wire' = wire \o bytes
    BY DEF Send
  <1> HIDE DEF bytes
  <1>3. wire' \in Seq(1..PointerSize) /\ Len(wire') = Len(wire) + n
    BY <1>1, <1>2, ConcatProperties
  <1>4. /\ totalSent' = totalSent + n /\ bytesLeft' = bytesLeft - n
        /\ length' = length /\ numberSent' = n /\ pc' = "loop"
        /\ totalSent < length
    BY DEF Send
  <1>5. length \in Nat /\ n \in Nat /\ 0 < n /\ n <= PointerSize
    OBVIOUS
  <1>6. TypeOK'
    BY <1>3, <1>4, <1>5
  <1>7. Accounting'
    BY <1>3, <1>4, <1>5 DEF Accounting
  <1> QED
    BY <1>4, <1>5, <1>6, <1>7

LEMMA SendStepIInv == SendIInv /\ [Next]_vars => SendIInv'
  <1> SUFFICES ASSUME SendIInv, [Next]_vars PROVE SendIInv'
    OBVIOUS
  <1> USE SendAllAssumption
  <1>1. ASSUME NEW n \in 1..PointerSize, Send(n) PROVE SendIInv'
    BY <1>1, SendStep
  <1>2. CASE SendFails
    BY <1>2 DEF SendIInv, TypeOK, Accounting, SendFails, Return
  <1>3. CASE LoopEnds
    BY <1>3 DEF SendIInv, TypeOK, Accounting, LoopEnds, Return
  <1>4. CASE Over \/ UNCHANGED vars
    BY <1>4 DEF SendIInv, TypeOK, Accounting, Over, vars
  <1> QED
    BY <1>1, <1>2, <1>3, <1>4 DEF Next, Running

\* totalSent + bytesLeft is the length, totalSent is what went out, and the loop
\* overshoots by less than a pointer's size.
THEOREM AccountingCorrect == Spec => []Accounting
  <1>1. SendIInv => Accounting
    BY DEF SendIInv
  <1> QED
    BY <1>1, SendInitIInv, SendStepIInv, PTL DEF Spec

\* What the caller reads from *length and from the result is true.
THEOREM ReportCorrect == Spec => []HonestReport
  <1>1. SendIInv => HonestReport
    BY SendAllAssumption DEF SendIInv, TypeOK, Accounting, HonestReport
  <1> QED
    BY <1>1, SendInitIInv, SendStepIInv, PTL DEF Spec

-----------------------------------------------------------------------------
(* Pipes.c. *)

\* Until the child has met the end of the file, what it has printed and what is
\* in the pipe are together the first bytes of the message; then all of it has
\* been printed.
PipeData ==
    /\ child \in {"none", "closeWrite", "read"} =>
         /\ written = Len(out) + Len(pipe)
         /\ \A k \in 1..Len(out) : out[k] = k
         /\ \A k \in 1..Len(pipe) : pipe[k] = Len(out) + k
    /\ child = "newline" => Len(out) = Length /\ \A k \in 1..Len(out) : out[k] = k
    /\ child \in {"closeRead", "done"} => Pipe!InOrder

\* Who holds which end, and what the end of the file proves.
PipeEnds ==
    /\ child = "none" <=> parent \in {"fork", "failed"}
    /\ "parent" \in writers <=> parent \in {"fork", "closeRead", "write", "closeWrite"}
    /\ "parent" \in readers <=> parent \in {"fork", "closeRead"}
    /\ child \in {"read", "closeWrite", "newline", "closeRead"} => "child" \in readers
    /\ child \in {"newline", "closeRead", "done"} => parent \in {"wait", "done"}
    /\ parent \in {"closeWrite", "wait", "done"} => written = Length

PipeIInv == Pipe!TypeOK /\ PipeData /\ PipeEnds

LEMMA PipeSteps ==
  ASSUME [IpcNext]_ipcVars
  PROVE  Pipe!Parent \/ Pipe!Child \/ UNCHANGED pipeVars
  BY DEF IpcNext, MainStep, OtherStep, RunStep, Optional, Ended, Only, ipcVars,
         Pipe!Over, Pipe!vars, pipeVars

LEMMA PipeInitIInv == IpcInit => PipeIInv
  <1> SUFFICES ASSUME Pipe!Init PROVE PipeIInv
    BY DEF IpcInit
  <1>1. <<>> \in Seq(1..Length) /\ <<>> \in Seq(0..Length) /\ Len(<<>>) = 0
    OBVIOUS
  <1> QED
    BY <1>1, PipeAssumption
    DEF Pipe!Init, PipeIInv, Pipe!TypeOK, Pipe!Processes, PipeData, PipeEnds

\* The calls that move no byte.
LEMMA PipeCalls ==
  ASSUME PipeIInv,
         \/ Pipe!Fork \/ Pipe!ForkFails \/ Pipe!ParentCloseRead \/ Pipe!ParentCloseWrite
         \/ Pipe!ParentWait \/ Pipe!ChildCloseWrite \/ Pipe!ChildReadEnd
         \/ Pipe!ChildCloseRead
  PROVE  PipeIInv'
  <1> USE DEF PipeIInv, Pipe!Fork, Pipe!ForkFails, Pipe!ParentCloseRead,
       Pipe!ParentCloseWrite, Pipe!ParentWait, Pipe!ChildCloseWrite, Pipe!ChildReadEnd,
       Pipe!ChildCloseRead
  <1>1. UNCHANGED <<written, pipe, out>>
    OBVIOUS
  <1>2. Pipe!TypeOK'
    BY <1>1 DEF Pipe!TypeOK, Pipe!Processes
  <1>3. PipeEnds'
    BY DEF PipeEnds, Pipe!TypeOK, Pipe!Processes
  <1>4. PipeData'
    <2>1. CASE Pipe!ChildReadEnd
      <3>1. Len(pipe) = 0 /\ written = Length /\ Len(out) \in Nat
        BY <2>1 DEF PipeEnds, Pipe!TypeOK
      <3>2. Len(out) = Length /\ \A k \in 1..Len(out) : out[k] = k
        BY <2>1, <3>1 DEF PipeData
      <3> QED
        BY <1>1, <2>1, <3>2 DEF PipeData
    <2>2. CASE Pipe!ChildCloseRead
      BY <1>1, <2>2 DEF PipeData, Pipe!InOrder
    <2>3. CASE \/ Pipe!Fork \/ Pipe!ForkFails \/ Pipe!ParentCloseRead
               \/ Pipe!ParentCloseWrite \/ Pipe!ParentWait \/ Pipe!ChildCloseWrite
      BY <1>1, <2>3 DEF PipeData, PipeEnds, Pipe!InOrder
    <2> QED
      BY <2>1, <2>2, <2>3
  <1> QED
    BY <1>2, <1>3, <1>4

\* write() of the next n bytes of the message.
LEMMA PipeWrites == PipeIInv /\ Pipe!ParentWrite => PipeIInv'
  <1> SUFFICES ASSUME PipeIInv, Pipe!ParentWrite PROVE PipeIInv'
    OBVIOUS
  <1> USE PipeAssumption
  <1>1. PICK n \in 1..(Length - written) :
           /\ Len(pipe) + n <= Capacity
           /\ pipe' = pipe \o [k \in 1..n |-> written + k]
           /\ written' = written + n
    BY DEF Pipe!ParentWrite
  <1> DEFINE bytes == [k \in 1..n |-> written + k]
  <1>2. /\ parent = "write" /\ UNCHANGED <<child, readers, writers, out>>
        /\ parent' = IF written' = Length THEN "closeWrite" ELSE "write"
    BY DEF Pipe!ParentWrite
  <1>3. /\ written \in 0..Length /\ n \in Nat /\ n > 0 /\ written + n <= Length
        /\ pipe \in Seq(1..Length) /\ out \in Seq(0..Length)
        /\ Len(pipe) \in Nat /\ Len(out) \in Nat
    BY <1>1 DEF PipeIInv, Pipe!TypeOK
  <1>4. bytes \in [1..n -> 1..Length]
    BY <1>3
  <1>5. bytes \in Seq(1..Length) /\ Len(bytes) = n
    <2> HIDE DEF bytes
    <2> QED
      BY <1>3, <1>4, SeqDef, LenProperties
  <1>6. \A k \in 1..n : bytes[k] = written + k
    OBVIOUS
  <1> HIDE DEF bytes
  <1>7. pipe' = pipe \o bytes
    BY <1>1 DEF bytes
  <1>8. /\ pipe' \in Seq(1..Length) /\ Len(pipe') = Len(pipe) + n
        /\ \A k \in 1..(Len(pipe) + n) :
             pipe'[k] = IF k <= Len(pipe) THEN pipe[k] ELSE bytes[k - Len(pipe)]
    BY <1>3, <1>5, <1>7, ConcatProperties
  <1>9. Pipe!TypeOK'
    BY <1>1, <1>2, <1>3, <1>8 DEF PipeIInv, Pipe!TypeOK
  <1>10. PipeEnds'
    BY <1>1, <1>2, <1>3 DEF PipeIInv, PipeEnds
  <1>11. child \in {"none", "closeWrite", "read"}
    BY <1>2 DEF PipeIInv, PipeEnds, Pipe!TypeOK
  <1>12. \A k \in 1..Len(pipe') : pipe'[k] = Len(out) + k
    <2> SUFFICES ASSUME NEW k \in 1..(Len(pipe) + n) PROVE pipe'[k] = Len(out) + k
      BY <1>8
    <2>1. /\ written = Len(out) + Len(pipe)
          /\ \A j \in 1..Len(pipe) : pipe[j] = Len(out) + j
      BY <1>11 DEF PipeIInv, PipeData
    <2>2. CASE k \in 1..Len(pipe)
      <3>1. pipe'[k] = pipe[k]
        BY <1>3, <1>8, <2>2
      <3> QED
        BY <2>1, <2>2, <3>1
    <2>3. CASE k \notin 1..Len(pipe)
      <3>1. k - Len(pipe) \in 1..n /\ ~(k <= Len(pipe))
        BY <1>3, <2>3
      <3>2. pipe'[k] = bytes[k - Len(pipe)]
        BY <1>8, <3>1
      <3>3. pipe'[k] = written + (k - Len(pipe))
        BY <1>6, <3>1, <3>2
      <3> QED
        BY <1>3, <2>1, <3>3
    <2> QED
      BY <2>2, <2>3
  <1>13. /\ written = Len(out) + Len(pipe)
         /\ \A k \in 1..Len(out) : out[k] = k
    BY <1>11 DEF PipeIInv, PipeData
  <1>14. written' = Len(out') + Len(pipe')
    BY <1>1, <1>2, <1>3, <1>8, <1>13
  <1>15. PipeData'
    BY <1>2, <1>11, <1>12, <1>13, <1>14 DEF PipeData
  <1> QED
    BY <1>9, <1>10, <1>15 DEF PipeIInv

\* read() of one byte, which is the next one of the message.
LEMMA PipeReads == PipeIInv /\ Pipe!ChildRead => PipeIInv'
  <1> SUFFICES ASSUME PipeIInv, Pipe!ChildRead PROVE PipeIInv'
    OBVIOUS
  <1> USE PipeAssumption
  <1>1. /\ child = "read" /\ pipe # <<>>
        /\ out' = Append(out, Head(pipe)) /\ pipe' = Tail(pipe)
        /\ UNCHANGED <<parent, child, readers, writers, written>>
    BY DEF Pipe!ChildRead
  <1>2. /\ pipe \in Seq(1..Length) /\ out \in Seq(0..Length)
        /\ Len(pipe) \in Nat /\ Len(out) \in Nat /\ Len(pipe) <= Capacity
    BY DEF PipeIInv, Pipe!TypeOK
  <1>3. /\ Len(pipe) > 0 /\ Head(pipe) = pipe[1] /\ pipe[1] \in 1..Length
        /\ Tail(pipe) \in Seq(1..Length) /\ Len(Tail(pipe)) = Len(pipe) - 1
        /\ \A k \in 1..(Len(pipe) - 1) : Tail(pipe)[k] = pipe[k + 1]
    BY <1>1, <1>2, EmptySeq, HeadTailProperties, ElementOfSeq
  <1>4. /\ out' \in Seq(0..Length) /\ Len(out') = Len(out) + 1
        /\ \A k \in 1..Len(out) : out'[k] = out[k]
        /\ out'[Len(out) + 1] = pipe[1]
    BY <1>1, <1>2, <1>3, AppendProperties
  <1>5. Pipe!TypeOK'
    BY <1>1, <1>2, <1>3, <1>4 DEF PipeIInv, Pipe!TypeOK
  <1>6. PipeEnds'
    BY <1>1 DEF PipeIInv, PipeEnds
  <1>7. /\ written = Len(out) + Len(pipe)
        /\ \A k \in 1..Len(out) : out[k] = k
        /\ \A k \in 1..Len(pipe) : pipe[k] = Len(out) + k
    BY <1>1 DEF PipeIInv, PipeData
  <1>8. written' = Len(out') + Len(pipe')
    BY <1>1, <1>2, <1>3, <1>4, <1>7
  <1>9. \A k \in 1..Len(out') : out'[k] = k
    <2>1. pipe[1] = Len(out) + 1
      BY <1>2, <1>3, <1>7
    <2>2. \A k \in 1..(Len(out) + 1) : k \in 1..Len(out) \/ k = Len(out) + 1
      BY <1>2
    <2> QED
      BY <1>4, <1>7, <2>1, <2>2
  <1>10. \A k \in 1..Len(pipe') : pipe'[k] = Len(out') + k
    BY <1>1, <1>2, <1>3, <1>4, <1>7
  <1>11. PipeData'
    BY <1>1, <1>8, <1>9, <1>10 DEF PipeData
  <1> QED
    BY <1>5, <1>6, <1>11 DEF PipeIInv

\* The line break after the message.
LEMMA PipeBreaks == PipeIInv /\ Pipe!ChildNewLine => PipeIInv'
  <1> SUFFICES ASSUME PipeIInv, Pipe!ChildNewLine PROVE PipeIInv'
    OBVIOUS
  <1> USE PipeAssumption
  <1>1. /\ child = "newline" /\ child' = "closeRead" /\ out' = Append(out, 0)
        /\ UNCHANGED <<parent, readers, writers, written, pipe>>
    BY DEF Pipe!ChildNewLine, Pipe!NewLine
  <1>2. out \in Seq(0..Length) /\ Len(out) = Length /\ \A k \in 1..Len(out) : out[k] = k
    BY <1>1 DEF PipeIInv, Pipe!TypeOK, PipeData
  <1>3. /\ out' \in Seq(0..Length) /\ Len(out') = Length + 1
        /\ \A k \in 1..Length : out'[k] = k
        /\ out'[Length + 1] = 0
    BY <1>1, <1>2, AppendProperties
  <1>4. DOMAIN out' = 1..(Length + 1)
    BY <1>3, LenProperties
  <1>5. Pipe!InOrder'
    BY <1>3, <1>4 DEF Pipe!InOrder, Pipe!NewLine
  <1>6. Pipe!TypeOK' /\ PipeEnds' /\ PipeData'
    BY <1>1, <1>3, <1>5 DEF PipeIInv, Pipe!TypeOK, PipeEnds, PipeData
  <1> QED
    BY <1>6 DEF PipeIInv

LEMMA PipeStepIInv == PipeIInv /\ [IpcNext]_ipcVars => PipeIInv'
  <1> SUFFICES ASSUME PipeIInv, [IpcNext]_ipcVars PROVE PipeIInv'
    OBVIOUS
  <1>1. CASE UNCHANGED pipeVars
    BY <1>1 DEF pipeVars, PipeIInv, Pipe!TypeOK, PipeData, PipeEnds, Pipe!InOrder
  <1>2. CASE Pipe!Parent \/ Pipe!Child
    BY <1>2, PipeCalls, PipeWrites, PipeReads, PipeBreaks DEF Pipe!Parent, Pipe!Child
  <1> QED
    BY <1>1, <1>2, PipeSteps

\* The child prints the bytes of the message in their order and the line break
\* after all of them, no byte gets lost between the two processes, and the parent
\* never writes into a pipe without reader, for messages of every length and pipes
\* of every capacity, however the kernel divides the writes.
THEOREM PipeCorrect == IpcSpec => []PipeDelivers
  <1>1. PipeIInv => PipeDelivers
    <2> SUFFICES ASSUME PipeIInv PROVE Pipe!InOrder /\ Pipe!Conserved
      BY DEF PipeDelivers
    <2>1. out \in Seq(0..Length) /\ DOMAIN out = 1..Len(out)
      BY LenProperties DEF PipeIInv, Pipe!TypeOK
    <2>2. Pipe!InOrder
      <3>1. CASE child \in {"closeRead", "done"}
        BY <3>1 DEF PipeIInv, PipeData
      <3>2. CASE child \in {"none", "closeWrite", "read", "newline"}
        <4>1. Len(out) <= Length /\ \A k \in 1..Len(out) : out[k] = k
          <5>1. Len(out) \in Nat /\ Len(pipe) \in Nat /\ written \in 0..Length
            BY DEF PipeIInv, Pipe!TypeOK
          <5> QED
            BY <3>2, <5>1, PipeAssumption DEF PipeIInv, PipeData
        <4> QED
          BY <2>1, <4>1, PipeAssumption DEF Pipe!InOrder
      <3> QED
        BY <3>1, <3>2 DEF PipeIInv, Pipe!TypeOK
    <2>3. Pipe!Conserved
      <3>1. Len(out) \in Nat /\ Len(pipe) \in Nat
        BY DEF PipeIInv, Pipe!TypeOK
      <3>2. child \in {"none", "closeWrite", "read"} => written = Len(pipe) + Len(out)
        BY <3>1 DEF PipeIInv, PipeData
      <3>3. parent \in {"closeRead", "write"} => readers # {}
        BY DEF PipeIInv, Pipe!TypeOK, PipeEnds
      <3> QED
        BY <3>2, <3>3 DEF Pipe!Conserved
    <2> QED
      BY <2>2, <2>3
  <1> QED
    BY <1>1, PipeInitIInv, PipeStepIInv, PTL DEF IpcSpec

-----------------------------------------------------------------------------
(* UnixRecordLocking.c. *)

\* A parent that goes on has its read lock from its fcntl() to its end, and its
\* child, which it waits for, is past its own fcntl() only without it.
LocksIInv ==
    /\ lockParent \in [Pair -> {"open", "write", "lock", "fork", "wait", "unlock", "exit"}
                                 \union Locks!Ended]
    /\ lockChild \in [Pair -> {"none", "read", "lock", "exit", "done", "failed"}]
    /\ \A r \in Pair :
         /\ lockParent[r] \in {"fork", "wait", "unlock", "exit"} => r \in readLocks
         /\ lockParent[r] \in {"open", "write", "lock", "fork"} => lockChild[r] = "none"
         /\ lockChild[r] \in {"read", "lock"} => lockParent[r] \in {"wait", "killed"}
    /\ Locks!ChildRefused

LEMMA LocksSteps ==
  ASSUME [IpcNext]_ipcVars
  PROVE  \/ \E r \in Pair : Locks!Step(r) \/ Locks!Kill(r)
         \/ UNCHANGED lockVars
  BY DEF IpcNext, MainStep, OtherStep, RunStep, Optional, Ended, Only, ipcVars,
         Locks!Over, Locks!vars, lockVars

LEMMA LocksInitIInv == IpcInit => LocksIInv
  BY DEF IpcInit, Locks!Init, LocksIInv, Locks!ChildRefused

LEMMA LocksParentIInv ==
  ASSUME LocksIInv, NEW r \in Pair, Locks!Parent(r) \/ Locks!Kill(r)
  PROVE  LocksIInv'
  <1> USE DEF LocksIInv, Locks!Ended
  <1>1. CASE \/ Locks!Open(r) \/ Locks!OpenFails(r) \/ Locks!Write(r) \/ Locks!Lock(r)
             \/ Locks!LockFails(r)
    BY <1>1 DEF Locks!Open, Locks!OpenFails, Locks!Write, Locks!Lock, Locks!LockFails,
         Locks!ParentGoesTo, Locks!ChildRefused
  <1>2. CASE Locks!Fork(r)
    BY <1>2 DEF Locks!Fork, Locks!ParentGoesTo, Locks!ChildGoesTo, Locks!ChildRefused
  <1>3. CASE Locks!ForkFails(r) \/ Locks!Unlock(r) \/ Locks!Exit(r) \/ Locks!Kill(r)
    BY <1>3 DEF Locks!ForkFails, Locks!Unlock, Locks!Exit, Locks!Kill,
         Locks!ParentGoesTo, Locks!ChildRefused
  <1>4. CASE Locks!Wait(r)
    BY <1>4 DEF Locks!Wait, Locks!ParentGoesTo, Locks!ChildRefused
  <1> QED
    BY <1>1, <1>2, <1>3, <1>4 DEF Locks!Parent

\* The fcntl() of a child whose parent still waits for it meets the parent's lock.
LEMMA LocksChildIInv ==
  ASSUME LocksIInv, NEW r \in Pair, Locks!Child(r)
  PROVE  LocksIInv'
  <1> USE DEF LocksIInv, Locks!Ended
  <1>1. CASE Locks!ReopenFails(r) \/ Locks!Read(r) \/ Locks!ChildLockFails(r)
    BY <1>1 DEF Locks!ReopenFails, Locks!Read, Locks!ChildLockFails, Locks!ChildGoesTo,
         Locks!ChildRefused
  <1>2. CASE Locks!ChildLock(r)
    <2>1. lockParent[r] = "killed"
      BY <1>2 DEF Locks!ChildLock
    <2> QED
      BY <1>2, <2>1 DEF Locks!ChildLock, Locks!ChildGoesTo, Locks!ChildRefused
  <1>3. CASE Locks!ChildExit(r)
    BY <1>3 DEF Locks!ChildExit, Locks!ChildGoesTo, Locks!ChildRefused
  <1> QED
    BY <1>1, <1>2, <1>3 DEF Locks!Child

LEMMA LocksStepIInv == LocksIInv /\ [IpcNext]_ipcVars => LocksIInv'
  <1> SUFFICES ASSUME LocksIInv, [IpcNext]_ipcVars PROVE LocksIInv'
    OBVIOUS
  <1>1. CASE UNCHANGED lockVars
    BY <1>1 DEF lockVars, LocksIInv, Locks!ChildRefused
  <1>2. ASSUME NEW r \in Pair, Locks!Step(r) \/ Locks!Kill(r) PROVE LocksIInv'
    BY <1>2, LocksParentIInv, LocksChildIInv DEF Locks!Step
  <1> QED
    BY <1>1, <1>2, LocksSteps

\* A child gets the write lock only when its own parent was killed, for every
\* number of runs that truncate, lock, unlock and end around it.
THEOREM LockRefused == IpcSpec => []ChildRefused
  <1>1. LocksIInv => ChildRefused
    BY DEF LocksIInv, ChildRefused
  <1> QED
    BY <1>1, LocksInitIInv, LocksStepIInv, PTL DEF IpcSpec

-----------------------------------------------------------------------------
(* SystemVMessageQueues.c. *)

\* A message is in the queue, or received, only after it was sent, once, and by a
\* run that knows the queue; a run learns its queue before it forks.
QueueInv ==
    /\ queueParent \in [Runs -> {"get", "fork", "wait", "recv", "remove"} \union Queue!Ended]
    /\ queueChild \in [Runs -> {"none", "send", "exited"}]
    /\ msg_id \in [Runs -> 0..latestQueue]
    /\ received \in [Runs -> Runs \union {NoRun}]
    /\ latestQueue \in Nat /\ current \in 0..latestQueue
    /\ queue \in Seq(Runs)
    /\ \A r \in Runs :
         /\ queueParent[r] \in {"get", "fork"} => queueChild[r] = "none"
         /\ queueParent[r] = "get" => received[r] = NoRun
    /\ \A p \in 1..Len(queue) :
         queueChild[queue[p]] = "exited" /\ msg_id[queue[p]] = current
    /\ \A p, q \in 1..Len(queue) : queue[p] = queue[q] => p = q
    /\ queue # <<>> => current # 0

QueueIInv == QueueInv /\ Queue!ReceivedOnce /\ Queue!QueueOwned

LEMMA QueueSteps ==
  ASSUME [IpcNext]_ipcVars
  PROVE  \/ \E r \in Runs : Queue!Step(r) \/ Queue!Kill(r)
         \/ UNCHANGED queueVars
  BY DEF IpcNext, MainStep, OtherStep, RunStep, Optional, Ended, Only, ipcVars,
         Queue!Over, Queue!vars, queueVars

LEMMA QueueInitIInv == IpcInit => QueueIInv
  <1> SUFFICES ASSUME Queue!Init PROVE QueueIInv
    BY DEF IpcInit
  <1>1. <<>> \in Seq(Runs) /\ Len(<<>>) = 0 /\ DOMAIN <<>> = {}
    BY EmptySeq
  <1> QED
    BY <1>1, QueueAssumption
    DEF Queue!Init, Queue!NoQueue, QueueIInv, QueueInv, Queue!ReceivedOnce, Queue!QueueOwned

\* msgget(): the run is in no message yet, so its new msg_id disturbs none.
LEMMA QueueGets ==
  ASSUME QueueIInv, NEW r \in Runs, Queue!Get(r)
  PROVE  QueueIInv'
  <1> USE QueueAssumption DEF QueueIInv, QueueInv
  <1>1. /\ queueParent[r] = "get" /\ queueChild[r] = "none" /\ received[r] = NoRun
        /\ queueParent' = [queueParent EXCEPT ![r] = "fork"]
        /\ msg_id' = [msg_id EXCEPT ![r] = current']
        /\ UNCHANGED <<queueChild, received, queue>>
    BY DEF Queue!Get, Queue!ParentGoesTo
  <1>2. /\ latestQueue' \in Nat /\ current' \in 1..latestQueue'
        /\ latestQueue <= latestQueue'
        /\ current # 0 => current' = current
    BY DEF Queue!Get, Queue!NoQueue
  <1>3. \A p \in 1..Len(queue) : queue[p] \in Runs /\ queue[p] # r
    BY <1>1, ElementOfSeq
  <1>4. queue = <<>> => Len(queue) = 0
    OBVIOUS
  <1>5. \A p \in 1..Len(queue) : current' = current
    BY <1>2, <1>4
  <1>6. msg_id' \in [Runs -> 0..latestQueue']
    BY <1>1, <1>2
  <1>7. QueueInv'
    <2>1. \A p \in 1..Len(queue) :
            queueChild'[queue[p]] = "exited" /\ msg_id'[queue[p]] = current'
      BY <1>1, <1>3, <1>5
    <2>2. \A q \in Runs :
            /\ queueParent'[q] \in {"get", "fork"} => queueChild'[q] = "none"
            /\ queueParent'[q] = "get" => received'[q] = NoRun
      BY <1>1
    <2>3. queueParent' \in [Runs -> {"get", "fork", "wait", "recv", "remove"}
                                      \union Queue!Ended]
      BY <1>1
    <2> QED
      BY <1>1, <1>2, <1>6, <2>1, <2>2, <2>3
  <1>8. Queue!ReceivedOnce'
    BY <1>1 DEF Queue!ReceivedOnce
  <1>9. Queue!QueueOwned'
    BY <1>1, <1>2 DEF Queue!QueueOwned
  <1> QED
    BY <1>7, <1>8, <1>9

\* The calls that touch neither a queue nor a msg_id; a killed run leaves its
\* message where it is, and the queue with it.
LEMMA QueueCalls ==
  ASSUME QueueIInv, NEW r \in Runs,
         \/ Queue!GetFails(r) \/ Queue!Fork(r) \/ Queue!ForkFails(r) \/ Queue!Wait(r)
         \/ Queue!RecvFails(r) \/ Queue!Kill(r)
         \/ (Queue!Send(r) /\ ~Queue!Valid(r)) \/ (Queue!Remove(r) /\ ~Queue!Valid(r))
  PROVE  QueueIInv'
  <1> USE QueueAssumption DEF QueueIInv, QueueInv
  <1> USE DEF Queue!GetFails, Queue!Fork, Queue!ForkFails, Queue!Wait, Queue!RecvFails,
       Queue!Kill, Queue!Send, Queue!Remove, Queue!ParentGoesTo, Queue!ChildGoesTo,
       Queue!Ended
  <1>1. UNCHANGED <<msg_id, received, current, latestQueue, queue>>
    OBVIOUS
  <1>2. \A p \in 1..Len(queue) : queue[p] \in Runs
    BY ElementOfSeq
  <1>3. \A q \in Runs : queueChild[q] = "exited" => queueChild'[q] = "exited"
    OBVIOUS
  <1>4. /\ queueParent' \in [Runs -> {"get", "fork", "wait", "recv", "remove"}
                                       \union Queue!Ended]
        /\ queueChild' \in [Runs -> {"none", "send", "exited"}]
    <2>1. \/ queueParent' = queueParent
          \/ \E next \in {"fork", "wait", "recv", "remove", "done", "failed", "killed"} :
               queueParent' = [queueParent EXCEPT ![r] = next]
      OBVIOUS
    <2>2. queueChild[r] \in {"none", "send", "exited"}
      OBVIOUS
    <2>3. \/ queueChild' = queueChild
          \/ \E next \in {"none", "send", "exited"} :
               queueChild' = [queueChild EXCEPT ![r] = next]
      BY <2>2
    <2> HIDE DEF Queue!GetFails, Queue!Fork, Queue!ForkFails, Queue!Wait,
             Queue!RecvFails, Queue!Kill, Queue!Send, Queue!Remove
    <2>4. queueParent' \in [Runs -> {"get", "fork", "wait", "recv", "remove"}
                                      \union Queue!Ended]
      BY <2>1
    <2>5. queueChild' \in [Runs -> {"none", "send", "exited"}]
      BY <2>3
    <2> QED
      BY <2>4, <2>5
  <1>5. \A q \in Runs :
          /\ queueParent'[q] \in {"get", "fork"} => queueChild'[q] = "none"
          /\ queueParent'[q] = "get" => received[q] = NoRun
    OBVIOUS
  <1>6. QueueInv'
    BY <1>1, <1>2, <1>3, <1>4, <1>5
  <1>7. Queue!ReceivedOnce'
    BY <1>1, <1>3 DEF Queue!ReceivedOnce
  <1>8. current # 0 => \E q \in Runs : msg_id[q] = current /\ queueParent'[q] # "done"
    <2>1. \A q \in Runs : queueParent'[q] = "done" =>
            queueParent[q] = "done" \/ (q = r /\ ~Queue!Valid(r))
      OBVIOUS
    <2> QED
      BY <2>1 DEF Queue!QueueOwned, Queue!Valid, Queue!NoQueue
  <1>9. Queue!QueueOwned'
    BY <1>1, <1>8 DEF Queue!QueueOwned, Queue!NoQueue
  <1> QED
    BY <1>6, <1>7, <1>9

\* msgsnd(): the child has not sent before, so its message is nowhere yet.
LEMMA QueueSends ==
  ASSUME QueueIInv, NEW r \in Runs, Queue!Send(r), Queue!Valid(r)
  PROVE  QueueIInv'
  <1> USE QueueAssumption DEF QueueIInv, QueueInv
  <1>1. /\ queueChild[r] = "send" /\ queueChild' = [queueChild EXCEPT ![r] = "exited"]
        /\ queue' = Append(queue, r)
        /\ UNCHANGED <<queueParent, msg_id, received, current, latestQueue>>
        /\ msg_id[r] = current /\ current # 0
    BY DEF Queue!Send, Queue!Valid, Queue!ChildGoesTo, Queue!NoQueue
  <1>2. Len(queue) \in Nat
    OBVIOUS
  <1>3. /\ queue' \in Seq(Runs) /\ Len(queue') = Len(queue) + 1
        /\ \A p \in 1..Len(queue) : queue'[p] = queue[p]
        /\ queue'[Len(queue) + 1] = r
    BY <1>1, AppendProperties
  <1>4. \A p \in 1..Len(queue) : queue[p] \in Runs /\ queue[p] # r
    BY <1>1, ElementOfSeq
  <1>5. \A p \in 1..Len(queue') : p \in 1..Len(queue) \/ p = Len(queue) + 1
    BY <1>2, <1>3
  <1>6. \A s \in Runs : received[s] # r
    BY <1>1 DEF Queue!ReceivedOnce
  <1>7. QueueInv'
    <2>1. \A p \in 1..Len(queue') :
            queueChild'[queue'[p]] = "exited" /\ msg_id'[queue'[p]] = current'
      BY <1>1, <1>3, <1>4, <1>5
    <2>2. \A p, q \in 1..Len(queue') : queue'[p] = queue'[q] => p = q
      <3> SUFFICES ASSUME NEW p \in 1..Len(queue'), NEW q \in 1..Len(queue'),
                          queue'[p] = queue'[q]
                   PROVE  p = q
        OBVIOUS
      <3>1. CASE p \in 1..Len(queue) /\ q \in 1..Len(queue)
        <4>1. queue[p] = queue[q]
          BY <1>3, <3>1
        <4> QED
          BY <3>1, <4>1
      <3>2. CASE p = Len(queue) + 1 \/ q = Len(queue) + 1
        BY <1>3, <1>4, <1>5, <3>2
      <3> QED
        BY <1>5, <3>1, <3>2
    <2>3. /\ queueChild' \in [Runs -> {"none", "send", "exited"}]
          /\ \A q \in Runs : queueParent'[q] \in {"get", "fork"} => queueChild'[q] = "none"
      BY <1>1
    <2> QED
      BY <1>1, <1>3, <2>1, <2>2, <2>3
  <1>8. Queue!ReceivedOnce'
    <2>1. DOMAIN queue = 1..Len(queue) /\ DOMAIN queue' = 1..Len(queue')
      BY <1>3, LenProperties
    <2>2. \A p \in 1..Len(queue') : \A s \in Runs : received[s] # queue'[p]
      <3>1. \A p \in 1..Len(queue) : \A s \in Runs : received[s] # queue[p]
        BY <2>1 DEF Queue!ReceivedOnce
      <3> QED
        BY <1>3, <1>5, <1>6, <3>1
    <2>3. \A s \in Runs : received[s] # NoRun => queueChild'[received[s]] = "exited"
      BY <1>1 DEF Queue!ReceivedOnce
    <2> QED
      BY <1>1, <2>1, <2>2, <2>3 DEF Queue!ReceivedOnce
  <1>9. Queue!QueueOwned'
    BY <1>1 DEF Queue!QueueOwned
  <1> QED
    BY <1>7, <1>8, <1>9

\* msgrcv(): the oldest message leaves the queue, and no other one equals it.
LEMMA QueueReceives ==
  ASSUME QueueIInv, NEW r \in Runs, Queue!Recv(r)
  PROVE  QueueIInv'
  <1> USE QueueAssumption DEF QueueIInv, QueueInv
  <1>1. /\ queueParent[r] = "recv" /\ queueParent' = [queueParent EXCEPT ![r] = "remove"]
        /\ received' = [received EXCEPT ![r] = Head(queue)] /\ queue' = Tail(queue)
        /\ UNCHANGED <<queueChild, msg_id, current, latestQueue>>
        /\ queue # <<>> /\ msg_id[r] = current /\ current # 0
    BY DEF Queue!Recv, Queue!Valid, Queue!ParentGoesTo, Queue!NoQueue
  <1>2. Len(queue) \in Nat /\ Len(queue) > 0
    BY <1>1, EmptySeq
  <1>3. /\ queue' \in Seq(Runs) /\ Len(queue') = Len(queue) - 1
        /\ \A p \in 1..Len(queue') : queue'[p] = queue[p + 1] /\ p + 1 \in 1..Len(queue)
        /\ Head(queue) = queue[1] /\ 1 \in 1..Len(queue) /\ queue[1] \in Runs
    BY <1>1, <1>2, HeadTailProperties, ElementOfSeq
  <1>4. \A p \in 1..Len(queue') : queue'[p] \in Runs /\ queue'[p] # queue[1]
    <2> SUFFICES ASSUME NEW p \in 1..Len(queue')
                 PROVE  queue'[p] \in Runs /\ queue'[p] # queue[1]
      OBVIOUS
    <2>1. queue'[p] = queue[p + 1] /\ p + 1 \in 1..Len(queue) /\ p + 1 # 1
      BY <1>2, <1>3
    <2>2. queue[p + 1] # queue[1]
      BY <1>3, <2>1
    <2> QED
      BY <2>1, <2>2, ElementOfSeq
  <1>5. QueueInv'
    <2>1. ASSUME NEW p \in 1..Len(queue')
          PROVE  queueChild[queue'[p]] = "exited" /\ msg_id[queue'[p]] = current
      <3>1. queue'[p] = queue[p + 1] /\ p + 1 \in 1..Len(queue)
        BY <1>3
      <3>2. queueChild[queue[p + 1]] = "exited" /\ msg_id[queue[p + 1]] = current
        BY <3>1
      <3> QED
        BY <3>1, <3>2
    <2>2. \A p, q \in 1..Len(queue') : queue'[p] = queue'[q] => p = q
      <3> SUFFICES ASSUME NEW p \in 1..Len(queue'), NEW q \in 1..Len(queue'),
                          queue'[p] = queue'[q]
                   PROVE  p = q
        OBVIOUS
      <3>1. queue[p + 1] = queue[q + 1] /\ p + 1 \in 1..Len(queue) /\ q + 1 \in 1..Len(queue)
        BY <1>3
      <3>2. p + 1 = q + 1
        BY <3>1
      <3> QED
        BY <1>2, <1>3, <3>2
    <2>3. received' \in [Runs -> Runs \union {NoRun}]
      BY <1>1, <1>3
    <2>4. /\ queueParent' \in [Runs -> {"get", "fork", "wait", "recv", "remove"}
                                         \union Queue!Ended]
          /\ \A q \in Runs :
               /\ queueParent'[q] \in {"get", "fork"} => queueChild[q] = "none"
               /\ queueParent'[q] = "get" => received'[q] = NoRun
      BY <1>1
    <2> QED
      BY <1>1, <1>3, <2>1, <2>2, <2>3, <2>4
  <1>6. Queue!ReceivedOnce'
    <2>1. DOMAIN queue = 1..Len(queue) /\ DOMAIN queue' = 1..Len(queue')
      BY <1>3, LenProperties
    <2>2. /\ \A s \in Runs : received[s] # queue[1]
          /\ \A p \in 1..Len(queue') : \A s \in Runs : received[s] # queue'[p]
      <3>1. \A p \in 1..Len(queue) : \A s \in Runs : received[s] # queue[p]
        BY <2>1 DEF Queue!ReceivedOnce
      <3>2. \A p \in 1..Len(queue') : queue'[p] = queue[p + 1] /\ p + 1 \in 1..Len(queue)
        BY <1>3
      <3>3. ASSUME NEW p \in 1..Len(queue'), NEW s \in Runs
            PROVE  received[s] # queue'[p]
        <4>1. queue'[p] = queue[p + 1] /\ p + 1 \in 1..Len(queue)
          BY <3>2
        <4> QED
          BY <3>1, <4>1
      <3> QED
        BY <1>3, <3>1, <3>3
    <2>3. \A s \in Runs : received'[s] = IF s = r THEN queue[1] ELSE received[s]
      BY <1>1, <1>3
    <2>4. queueChild[queue[1]] = "exited" /\ msg_id[queue[1]] = msg_id[r]
      BY <1>1, <1>3
    <2>5. \A p \in 1..Len(queue') : \A s \in Runs : received'[s] # queue'[p]
      BY <1>4, <2>2, <2>3
    <2>6. \A s, u \in Runs : received'[s] # NoRun /\ received'[s] = received'[u] => s = u
      BY <2>2, <2>3, SMTT(60) DEF Queue!ReceivedOnce
    <2>7. \A s \in Runs : received'[s] # NoRun =>
            queueChild[received'[s]] = "exited" /\ msg_id[received'[s]] = msg_id[s]
      BY <2>3, <2>4, SMTT(60) DEF Queue!ReceivedOnce
    <2> QED
      BY <1>1, <2>1, <2>5, <2>6, <2>7 DEF Queue!ReceivedOnce
  <1>7. Queue!QueueOwned'
    BY <1>1 DEF Queue!QueueOwned
  <1> QED
    BY <1>5, <1>6, <1>7

\* msgctl(IPC_RMID): the queue and its messages are gone.
LEMMA QueueRemoves ==
  ASSUME QueueIInv, NEW r \in Runs, Queue!Remove(r), Queue!Valid(r)
  PROVE  QueueIInv'
  <1> USE QueueAssumption DEF QueueIInv, QueueInv
  <1>1. /\ queueParent[r] = "remove" /\ queueParent' = [queueParent EXCEPT ![r] = "done"]
        /\ current' = 0 /\ queue' = <<>>
        /\ UNCHANGED <<queueChild, msg_id, received, latestQueue>>
    BY DEF Queue!Remove, Queue!ParentGoesTo, Queue!NoQueue
  <1>2. <<>> \in Seq(Runs) /\ Len(<<>>) = 0 /\ DOMAIN <<>> = {}
    BY EmptySeq
  <1>3. QueueInv'
    BY <1>1, <1>2 DEF Queue!Ended
  <1>4. Queue!ReceivedOnce' /\ Queue!QueueOwned'
    BY <1>1, <1>2 DEF Queue!ReceivedOnce, Queue!QueueOwned, Queue!NoQueue
  <1> QED
    BY <1>3, <1>4

LEMMA QueueStepIInv == QueueIInv /\ [IpcNext]_ipcVars => QueueIInv'
  <1> SUFFICES ASSUME QueueIInv, [IpcNext]_ipcVars PROVE QueueIInv'
    OBVIOUS
  <1>1. CASE UNCHANGED queueVars
    BY <1>1 DEF queueVars, QueueIInv, QueueInv, Queue!ReceivedOnce, Queue!QueueOwned
  <1>2. ASSUME NEW r \in Runs, Queue!Step(r) \/ Queue!Kill(r) PROVE QueueIInv'
    BY <1>2, QueueGets, QueueCalls, QueueSends, QueueReceives, QueueRemoves
    DEF Queue!Step, Queue!Parent
  <1> QED
    BY <1>1, <1>2, QueueSteps

\* However the runs overlap, are killed or find their queue removed, a message is
\* received once at most and by a run of its own queue, and a queue left behind is
\* the work of a run that did not end properly, for every number of runs and every
\* room in the queue.
THEOREM QueueCorrect == IpcSpec => []QueueUsedOnce
  <1>1. QueueIInv => QueueUsedOnce
    BY DEF QueueIInv, QueueUsedOnce
  <1> QED
    BY <1>1, QueueInitIInv, QueueStepIInv, PTL DEF IpcSpec

-----------------------------------------------------------------------------
(* UnixSharedMemory.c. *)

ShmTypes ==
    /\ shmPc \in [Pair -> [Shm!Processes -> Shm!Calls]]
    /\ shmid \in [Pair -> 0..latestSegment]
    /\ attached \subseteq Pair \X Shm!Processes
    /\ latestSegment \in Nat /\ keyed \in 0..latestSegment
    /\ removed \subseteq 1..latestSegment
    /\ text \in [1..latestSegment -> {"zeros", "part", "whole"}]
    /\ printed \in [Pair -> {"nothing", "whole"}]

\* How far the two processes of a run are, together, and what the segment of the
\* run is worth by then.
ShmRun(r) ==
    /\ shmPc[r].parent = "get" => shmid[r] = 0
    /\ shmPc[r].parent \in {"get", "attach", "fork", "failed", "left"} =>
         shmPc[r].child = "none"
    /\ shmPc[r].parent \in {"get", "attach", "fork", "wait", "print", "remove", "detach",
                            "exited", "failed", "left"}
    /\ shmPc[r].child \in {"none", "write", "writing", "remove", "detach", "exited"}
    /\ shmPc[r].parent \in {"print", "remove", "detach", "exited"} => shmPc[r].child = "exited"
    /\ shmPc[r].parent \notin {"get", "failed"} => shmid[r] \in 1..latestSegment
    /\ shmPc[r].child \in {"remove", "detach", "exited"} => text[shmid[r]] = "whole"
    /\ shmPc[r].parent \in {"detach", "exited"} => shmid[r] \in removed

\* A process has the segment mapped from shmat(), or fork(), to shmdt().
ShmAttached ==
    \A r \in Pair : \A p \in Shm!Processes :
      shmPc[r][p] \in {"fork", "write", "writing", "wait", "print", "remove", "detach"}
        <=> <<r, p>> \in attached

\* A segment that was not removed has a run that will remove it, or whose shmat()
\* or fork() has failed.
ShmOwners ==
    /\ keyed \notin removed
    /\ \A s \in 1..latestSegment : s \notin removed =>
         \E r \in Pair : shmid[r] = s /\ shmPc[r].parent \notin {"exited", "failed"}

ShmIInv == ShmTypes /\ (\A r \in Pair : ShmRun(r)) /\ ShmAttached /\ ShmOwners

LEMMA ShmSteps ==
  ASSUME [IpcNext]_ipcVars
  PROVE  (\E r \in Pair : Shm!Step(r)) \/ UNCHANGED shmVars
  BY DEF IpcNext, MainStep, OtherStep, RunStep, Optional, Ended, Only, ipcVars,
         Shm!Over, Shm!vars, shmVars

LEMMA ShmInitIInv == IpcInit => ShmIInv
  <1> SUFFICES ASSUME Shm!Init PROVE ShmIInv
    BY DEF IpcInit
  <1> USE DEF Shm!Init, Shm!NoSegment, Shm!Processes, Shm!Calls
  <1>1. ShmTypes
    BY DEF ShmTypes
  <1>2. \A r \in Pair : ShmRun(r)
    BY DEF ShmRun
  <1>3. ShmAttached /\ ShmOwners
    BY DEF ShmAttached, ShmOwners
  <1> QED
    BY <1>1, <1>2, <1>3 DEF ShmIInv

\* One process of a run goes on to its next call, and nobody else.
LEMMA ShmGoTo ==
  ASSUME ShmTypes, NEW r \in Pair, NEW p \in Shm!Processes, NEW call \in Shm!Calls,
         Shm!GoTo(r, p, call)
  PROVE  /\ shmPc' \in [Pair -> [Shm!Processes -> Shm!Calls]]
         /\ shmPc'[r][p] = call
         /\ \A q \in Pair : \A o \in Shm!Processes :
              q # r \/ o # p => shmPc'[q][o] = shmPc[q][o]
  BY DEF ShmTypes, Shm!GoTo

\* No run comes back to shmget().
LEMMA ShmStays ==
  ASSUME ShmTypes, NEW r \in Pair, NEW p \in Shm!Processes, NEW call \in Shm!Calls,
         call # "get", Shm!GoTo(r, p, call)
  PROVE  \A q \in Pair : shmPc[q].parent # "get" => shmPc'[q].parent # "get"
  <1> SUFFICES ASSUME NEW q \in Pair, shmPc[q].parent # "get" PROVE shmPc'[q].parent # "get"
    OBVIOUS
  <1>1. "parent" \in Shm!Processes
    BY DEF Shm!Processes
  <1>2. CASE q = r /\ p = "parent"
    BY <1>2, ShmGoTo
  <1>3. CASE q # r \/ p # "parent"
    BY <1>1, <1>3, ShmGoTo
  <1> QED
    BY <1>2, <1>3

\* shmget() names a segment that is keyed, hence not removed, or a new one.
LEMMA ShmGets ==
  ASSUME ShmIInv, NEW r \in Pair, Shm!Get(r) \/ Shm!GetFails(r)
  PROVE  ShmIInv'
  <1> USE DEF ShmIInv, Shm!Processes
  <1>1. /\ shmPc[r].parent = "get" /\ shmPc[r].child = "none"
        /\ UNCHANGED <<attached, removed, printed>>
    BY DEF Shm!Get, Shm!GetFails, ShmRun
  <1>2. PICK call \in {"attach", "failed"} : Shm!GoTo(r, "parent", call)
    BY DEF Shm!Get, Shm!GetFails
  <1>3. call \in Shm!Calls
    BY DEF Shm!Calls
  <1>4. /\ shmPc' \in [Pair -> [Shm!Processes -> Shm!Calls]]
        /\ shmPc'[r].parent = call /\ shmPc'[r].child = "none"
        /\ \A q \in Pair : q # r => shmPc'[q].parent = shmPc[q].parent
                                    /\ shmPc'[q].child = shmPc[q].child
    BY <1>1, <1>2, <1>3, ShmGoTo
  <1>5. ShmAttached'
    BY <1>1, <1>4, ZenonT(60) DEF ShmAttached
  <1>6. CASE Shm!Get(r)
    <2>1. shmPc'[r].parent = "attach"
      BY <1>6 DEF Shm!Get, Shm!GoTo, ShmTypes
    <2>2. /\ latestSegment' \in Nat /\ latestSegment <= latestSegment'
          /\ keyed' \in 1..latestSegment'
          /\ text' \in [1..latestSegment' -> {"zeros", "part", "whole"}]
          /\ \A s \in 1..latestSegment : text'[s] = text[s]
          /\ \A s \in 1..latestSegment' : s \in 1..latestSegment \/ s = keyed'
          /\ keyed' \notin removed
      <3>1. ASSUME keyed # 0
            PROVE  UNCHANGED <<latestSegment, keyed, text>>
        BY <1>6, <3>1 DEF Shm!Get, Shm!NoSegment
      <3>2. ASSUME keyed = 0
            PROVE  /\ latestSegment' = latestSegment + 1 /\ keyed' = latestSegment + 1
                   /\ text' = [s \in 1..(latestSegment + 1) |->
                                IF s <= latestSegment THEN text[s] ELSE "zeros"]
        BY <1>6, <3>2 DEF Shm!Get, Shm!NoSegment
      <3>3. /\ latestSegment \in Nat /\ keyed \in 0..latestSegment
            /\ removed \subseteq 1..latestSegment /\ keyed \notin removed
            /\ text \in [1..latestSegment -> {"zeros", "part", "whole"}]
        BY DEF ShmTypes, ShmOwners
      <3>4. CASE keyed # 0
        BY <3>1, <3>3, <3>4
      <3>5. CASE keyed = 0
        <4>1. latestSegment + 1 \notin removed
          BY <3>3
        <4>2. text' \in [1..latestSegment' -> {"zeros", "part", "whole"}]
          BY <3>2, <3>3, <3>5
        <4>3. \A s \in 1..latestSegment : text'[s] = text[s]
          BY <3>2, <3>3, <3>5
        <4> QED
          BY <3>2, <3>3, <3>5, <4>1, <4>2, <4>3
      <3> QED
        BY <3>4, <3>5
    <2>3. shmid' = [shmid EXCEPT ![r] = keyed']
      BY <1>6 DEF Shm!Get
    <2>4. ShmTypes'
      BY <1>1, <1>4, <2>2, <2>3 DEF ShmTypes
    <2>5. (\A q \in Pair : ShmRun(q))'
      BY <1>1, <1>4, <2>1, <2>2, <2>3 DEF ShmTypes, ShmRun
    <2>6. ShmOwners'
      <3>1. keyed' \notin removed'
        BY <1>1, <2>2
      <3>2. shmid'[r] = keyed' /\ \A q \in Pair : q # r => shmid'[q] = shmid[q]
        BY <2>3 DEF ShmTypes
      <3>3. ASSUME NEW s \in 1..latestSegment', s \notin removed', s # keyed'
            PROVE  \E q \in Pair : shmid'[q] = s /\ shmPc'[q].parent \notin {"exited", "failed"}
        <4>1. s \in 1..latestSegment /\ s \notin removed /\ s # 0
          BY <1>1, <2>2, <3>3
        <4>2. PICK q \in Pair : shmid[q] = s /\ shmPc[q].parent \notin {"exited", "failed"}
          BY <4>1 DEF ShmOwners
        <4>3. q # r
          BY <1>1, <4>1, <4>2 DEF ShmRun
        <4> QED
          BY <1>4, <3>2, <4>2, <4>3
      <3>4. shmid'[r] = keyed' /\ shmPc'[r].parent \notin {"exited", "failed"}
        BY <2>1, <3>2
      <3> QED
        BY <3>1, <3>3, <3>4 DEF ShmOwners
    <2> QED
      BY <1>5, <2>4, <2>5, <2>6
  <1>7. CASE Shm!GetFails(r)
    <2>1. UNCHANGED <<shmid, keyed, latestSegment, text>> /\ shmPc'[r].parent = "failed"
      BY <1>7 DEF Shm!GetFails, Shm!GoTo, ShmTypes
    <2>2. ShmTypes'
      BY <1>1, <1>4, <2>1 DEF ShmTypes
    <2>3. (\A q \in Pair : ShmRun(q))'
      BY <1>1, <1>4, <2>1 DEF ShmRun
    <2>4. ShmOwners'
      <3>1. \A q \in Pair : \A s \in 1..latestSegment : shmid[q] = s => q # r
        BY <1>1 DEF ShmRun
      <3> QED
        BY <1>1, <1>4, <2>1, <3>1 DEF ShmOwners
    <2> QED
      BY <1>5, <2>2, <2>3, <2>4
  <1> QED
    BY <1>6, <1>7

\* The calls of the parent before it has a child: shmat(), and a fork() that fails.
LEMMA ShmAttaches ==
  ASSUME ShmIInv, NEW r \in Pair, Shm!Attach(r) \/ Shm!AttachFails(r) \/ Shm!ForkFails(r)
  PROVE  ShmIInv'
  <1> USE DEF ShmIInv, Shm!Processes
  <1>1. /\ shmPc[r].parent \in {"attach", "fork"} /\ shmPc[r].child = "none"
        /\ UNCHANGED <<shmid, keyed, latestSegment, removed, text, printed>>
    BY DEF Shm!Attach, Shm!AttachFails, Shm!ForkFails, ShmRun
  <1>2. PICK call \in {"fork", "left"} : Shm!GoTo(r, "parent", call)
    BY DEF Shm!Attach, Shm!AttachFails, Shm!ForkFails
  <1>3. call \in Shm!Calls
    BY DEF Shm!Calls
  <1>4. /\ shmPc' \in [Pair -> [Shm!Processes -> Shm!Calls]]
        /\ shmPc'[r].parent = call /\ shmPc'[r].child = "none"
        /\ \A q \in Pair : q # r => shmPc'[q].parent = shmPc[q].parent
                                    /\ shmPc'[q].child = shmPc[q].child
    BY <1>1, <1>2, <1>3, ShmGoTo
  <1>5. /\ attached' \subseteq Pair \X Shm!Processes
        /\ \A q \in Pair : \A o \in Shm!Processes :
             (q # r \/ o # "parent") => (<<q, o>> \in attached' <=> <<q, o>> \in attached)
        /\ <<r, "parent">> \in attached' <=> shmPc'[r].parent = "fork"
    <2>1. CASE Shm!Attach(r)
      BY <2>1 DEF Shm!Attach, Shm!GoTo, ShmTypes
    <2>2. CASE Shm!AttachFails(r)
      <3>1. <<r, "parent">> \notin attached
        BY <2>2 DEF Shm!AttachFails, ShmAttached
      <3> QED
        BY <2>2, <3>1 DEF Shm!AttachFails, Shm!GoTo, ShmTypes
    <2>3. CASE Shm!ForkFails(r)
      BY <2>3 DEF Shm!ForkFails, Shm!GoTo, ShmTypes
    <2> QED
      BY <2>1, <2>2, <2>3
  <1>6. ShmTypes'
    BY <1>1, <1>4, <1>5 DEF ShmTypes
  <1>7. (\A q \in Pair : ShmRun(q))'
    BY <1>1, <1>4 DEF ShmRun
  <1>8. ShmAttached'
    <2> SUFFICES ASSUME NEW q \in Pair, NEW o \in Shm!Processes
                 PROVE  shmPc'[q][o] \in {"fork", "write", "writing", "wait", "print",
                                          "remove", "detach"}
                          <=> <<q, o>> \in attached'
      BY DEF ShmAttached
    <2>1. CASE q = r /\ o = "parent"
      BY <1>4, <1>5, <2>1
    <2>2. CASE q # r \/ o # "parent"
      <3>1. shmPc'[q][o] = shmPc[q][o]
        BY <1>1, <1>4, <2>2
      <3> QED
        BY <1>5, <2>2, <3>1 DEF ShmAttached
    <2> QED
      BY <2>1, <2>2
  <1>9. ShmOwners'
    BY <1>1, <1>4 DEF ShmOwners
  <1> QED
    BY <1>6, <1>7, <1>8, <1>9

\* fork() doubles the attachment.
LEMMA ShmForks ==
  ASSUME ShmIInv, NEW r \in Pair, Shm!Fork(r)
  PROVE  ShmIInv'
  <1> USE DEF ShmIInv, Shm!Processes
  <1>1. /\ shmPc[r].parent = "fork"
        /\ shmPc' = [shmPc EXCEPT ![r] = [parent |-> "wait", child |-> "write"]]
        /\ attached' = attached \union {<<r, "child">>}
        /\ UNCHANGED <<shmid, keyed, latestSegment, removed, text, printed>>
    BY DEF Shm!Fork
  <1>2. [parent |-> "wait", child |-> "write"] \in [Shm!Processes -> Shm!Calls]
    BY DEF Shm!Calls
  <1>3. /\ shmPc' \in [Pair -> [Shm!Processes -> Shm!Calls]]
        /\ shmPc'[r].parent = "wait" /\ shmPc'[r].child = "write"
        /\ \A q \in Pair : q # r => shmPc'[q].parent = shmPc[q].parent
                                    /\ shmPc'[q].child = shmPc[q].child
    BY <1>1, <1>2 DEF ShmTypes
  <1>4. ShmTypes'
    BY <1>1, <1>3 DEF ShmTypes
  <1>5. (\A q \in Pair : ShmRun(q))'
    BY <1>1, <1>3 DEF ShmRun
  <1>6. ShmAttached'
    BY <1>1, <1>3 DEF ShmAttached
  <1>7. ShmOwners'
    BY <1>1, <1>3 DEF ShmOwners
  <1> QED
    BY <1>4, <1>5, <1>6, <1>7

\* The child writes its text: a whole text stays whole.
LEMMA ShmWrites ==
  ASSUME ShmIInv, NEW r \in Pair, Shm!StartWrite(r) \/ Shm!EndWrite(r)
  PROVE  ShmIInv'
  <1> USE DEF ShmIInv, Shm!Processes
  <1>1. /\ shmPc[r].child \in {"write", "writing"}
        /\ UNCHANGED <<shmid, attached, keyed, latestSegment, removed, printed>>
    BY DEF Shm!StartWrite, Shm!EndWrite
  <1>2. shmPc[r].parent = "wait" /\ shmid[r] \in 1..latestSegment
    BY <1>1 DEF ShmRun
  <1>3. /\ text' \in [1..latestSegment -> {"zeros", "part", "whole"}]
        /\ \A s \in 1..latestSegment : text[s] = "whole" => text'[s] = "whole"
        /\ Shm!EndWrite(r) => text'[shmid[r]] = "whole"
    BY <1>2 DEF Shm!StartWrite, Shm!EndWrite, ShmTypes
  <1>4. PICK call \in {"writing", "remove"} :
           /\ Shm!GoTo(r, "child", call)
           /\ call = "remove" => Shm!EndWrite(r)
    BY DEF Shm!StartWrite, Shm!EndWrite
  <1>5. call \in Shm!Calls
    BY DEF Shm!Calls
  <1>6. /\ shmPc' \in [Pair -> [Shm!Processes -> Shm!Calls]]
        /\ shmPc'[r].parent = "wait" /\ shmPc'[r].child = call
        /\ \A q \in Pair : q # r => shmPc'[q].parent = shmPc[q].parent
                                    /\ shmPc'[q].child = shmPc[q].child
    BY <1>2, <1>4, <1>5, ShmGoTo
  <1>7. ShmTypes'
    BY <1>1, <1>3, <1>6 DEF ShmTypes
  <1>8. (\A q \in Pair : ShmRun(q))'
    <2>1. \A q \in Pair : shmPc[q].child \in {"remove", "detach", "exited"} =>
            shmid[q] \in 1..latestSegment
      BY DEF ShmRun
    <2> QED
      BY <1>1, <1>2, <1>3, <1>4, <1>6, <2>1 DEF ShmRun
  <1>9. ShmAttached'
    <2> SUFFICES ASSUME NEW q \in Pair, NEW o \in Shm!Processes
                 PROVE  shmPc'[q][o] \in {"fork", "write", "writing", "wait", "print",
                                          "remove", "detach"}
                          <=> <<q, o>> \in attached
      BY <1>1 DEF ShmAttached
    <2>1. CASE q = r /\ o = "child"
      <3>1. <<r, "child">> \in attached
        BY <1>1 DEF ShmAttached
      <3> QED
        BY <1>6, <2>1, <3>1
    <2>2. CASE q # r \/ o # "child"
      <3>1. shmPc'[q][o] = shmPc[q][o]
        BY <1>2, <1>6, <2>2
      <3> QED
        BY <3>1 DEF ShmAttached
    <2> QED
      BY <2>1, <2>2
  <1>10. ShmOwners'
    BY <1>1, <1>2, <1>6 DEF ShmOwners
  <1> QED
    BY <1>7, <1>8, <1>9, <1>10

\* wait() and the printing: the child is gone, so its text is whole.
LEMMA ShmPrints ==
  ASSUME ShmIInv, NEW r \in Pair, Shm!Wait(r) \/ Shm!PrintText(r)
  PROVE  ShmIInv'
  <1> USE DEF ShmIInv, Shm!Processes
  <1>1. /\ shmPc[r].parent \in {"wait", "print"} /\ shmPc[r].child = "exited"
        /\ UNCHANGED <<shmid, attached, keyed, latestSegment, removed, text>>
    BY DEF Shm!Wait, Shm!PrintText, ShmRun
  <1>2. text[shmid[r]] = "whole" /\ shmid[r] \in 1..latestSegment
    BY <1>1 DEF ShmRun
  <1>3. printed' \in [Pair -> {"nothing", "whole"}]
    BY <1>2 DEF Shm!Wait, Shm!PrintText, ShmTypes
  <1>4. PICK call \in {"print", "remove"} : Shm!GoTo(r, "parent", call)
    BY DEF Shm!Wait, Shm!PrintText
  <1>5. call \in Shm!Calls
    BY DEF Shm!Calls
  <1>6. /\ shmPc' \in [Pair -> [Shm!Processes -> Shm!Calls]]
        /\ shmPc'[r].parent = call /\ shmPc'[r].child = "exited"
        /\ \A q \in Pair : q # r => shmPc'[q].parent = shmPc[q].parent
                                    /\ shmPc'[q].child = shmPc[q].child
    BY <1>1, <1>4, <1>5, ShmGoTo
  <1>7. ShmTypes'
    BY <1>1, <1>3, <1>6 DEF ShmTypes
  <1>8. (\A q \in Pair : ShmRun(q))'
    BY <1>1, <1>2, <1>6 DEF ShmRun
  <1>9. ShmAttached'
    BY <1>1, <1>6, ZenonT(60) DEF ShmAttached
  <1>10. ShmOwners'
    BY <1>1, <1>6 DEF ShmOwners
  <1> QED
    BY <1>7, <1>8, <1>9, <1>10

\* IPC_RMID by a process that is attached.
LEMMA ShmRemoves ==
  ASSUME ShmIInv, NEW r \in Pair, NEW p \in Shm!Processes, Shm!Remove(r, p)
  PROVE  ShmIInv'
  <1> USE DEF ShmIInv, Shm!Processes
  <1>1. /\ shmPc[r][p] = "remove" /\ Shm!GoTo(r, p, "detach")
        /\ removed' = removed \union {shmid[r]}
        /\ keyed' = IF keyed = shmid[r] THEN 0 ELSE keyed
        /\ UNCHANGED <<shmid, attached, latestSegment, text, printed>>
    BY DEF Shm!Remove, Shm!NoSegment
  <1>2. shmid[r] \in 1..latestSegment
    BY <1>1 DEF ShmRun
  <1>3. "detach" \in Shm!Calls
    BY DEF Shm!Calls
  <1>4. /\ shmPc' \in [Pair -> [Shm!Processes -> Shm!Calls]]
        /\ shmPc'[r][p] = "detach"
        /\ \A q \in Pair : \A o \in Shm!Processes :
              q # r \/ o # p => shmPc'[q][o] = shmPc[q][o]
    BY <1>1, <1>3, ShmGoTo
  <1>5. ShmTypes'
    <2>1. removed' \subseteq 1..latestSegment
      BY <1>1, <1>2 DEF ShmTypes
    <2>2. keyed' \in 0..latestSegment
      <3>1. keyed' = 0 \/ keyed' = keyed
        BY <1>1
      <3> QED
        BY <3>1 DEF ShmTypes
    <2> QED
      BY <1>1, <1>4, <2>1, <2>2 DEF ShmTypes
  <1>6. (\A q \in Pair : ShmRun(q))'
    <2> SUFFICES ASSUME NEW q \in Pair PROVE ShmRun(q)'
      OBVIOUS
    <2>1. CASE q # r
      BY <1>1, <1>4, <2>1 DEF ShmRun
    <2>2. CASE q = r /\ p = "parent"
      BY <1>1, <1>4, <2>2 DEF ShmRun
    <2>3. CASE q = r /\ p = "child"
      BY <1>1, <1>4, <2>3 DEF ShmRun
    <2> QED
      BY <2>1, <2>2, <2>3
  <1>7. ShmAttached'
    <2> SUFFICES ASSUME NEW q \in Pair, NEW o \in Shm!Processes
                 PROVE  shmPc'[q][o] \in {"fork", "write", "writing", "wait", "print",
                                          "remove", "detach"}
                          <=> <<q, o>> \in attached'
      BY DEF ShmAttached
    <2>1. attached' = attached /\ (q = r /\ o = p => shmPc'[q][o] = "detach")
      BY <1>1, <1>4
    <2>2. q # r \/ o # p => shmPc'[q][o] = shmPc[q][o]
      BY <1>4
    <2> QED
      BY <1>1, <2>1, <2>2 DEF ShmAttached
  <1>8. ShmOwners'
    <2>1. keyed' \notin removed'
      BY <1>1, <1>2 DEF ShmOwners, ShmTypes
    <2>2. \A q \in Pair : shmPc'[q].parent \in {"exited", "failed"} =>
            shmPc[q].parent \in {"exited", "failed"}
      BY <1>4
    <2> QED
      BY <1>1, <2>1, <2>2 DEF ShmOwners
  <1> QED
    BY <1>5, <1>6, <1>7, <1>8

\* shmdt() of a process that has removed its segment.
LEMMA ShmDetaches ==
  ASSUME ShmIInv, NEW r \in Pair, NEW p \in Shm!Processes, Shm!Detach(r, p)
  PROVE  ShmIInv'
  <1> USE DEF ShmIInv, Shm!Processes
  <1>1. /\ shmPc[r][p] = "detach" /\ Shm!GoTo(r, p, "exited")
        /\ attached' = attached \ {<<r, p>>}
        /\ UNCHANGED <<shmid, keyed, latestSegment, removed, text, printed>>
    BY DEF Shm!Detach
  <1>2. "exited" \in Shm!Calls
    BY DEF Shm!Calls
  <1>3. /\ shmPc' \in [Pair -> [Shm!Processes -> Shm!Calls]]
        /\ shmPc'[r][p] = "exited"
        /\ \A q \in Pair : \A o \in Shm!Processes :
              q # r \/ o # p => shmPc'[q][o] = shmPc[q][o]
    BY <1>1, <1>2, ShmGoTo
  <1>4. ShmTypes'
    BY <1>1, <1>3 DEF ShmTypes
  <1>5. (\A q \in Pair : ShmRun(q))'
    <2> SUFFICES ASSUME NEW q \in Pair PROVE ShmRun(q)'
      OBVIOUS
    <2>1. CASE q # r
      BY <1>1, <1>3, <2>1 DEF ShmRun
    <2>2. CASE q = r /\ p = "parent"
      BY <1>1, <1>3, <2>2 DEF ShmRun
    <2>3. CASE q = r /\ p = "child"
      BY <1>1, <1>3, <2>3 DEF ShmRun
    <2> QED
      BY <2>1, <2>2, <2>3
  <1>6. ShmAttached'
    <2> SUFFICES ASSUME NEW q \in Pair, NEW o \in Shm!Processes
                 PROVE  shmPc'[q][o] \in {"fork", "write", "writing", "wait", "print",
                                          "remove", "detach"}
                          <=> <<q, o>> \in attached'
      BY DEF ShmAttached
    <2>1. CASE q = r /\ o = p
      BY <1>1, <1>3, <2>1
    <2>2. CASE q # r \/ o # p
      BY <1>1, <1>3, <2>2 DEF ShmAttached
    <2> QED
      BY <2>1, <2>2
  <1>7. ShmOwners'
    <2>1. \A q \in Pair : shmPc'[q].parent \in {"exited", "failed"} =>
            shmPc[q].parent \in {"exited", "failed"} \/ shmid[q] \in removed
      BY <1>1, <1>3 DEF ShmRun
    <2> QED
      BY <1>1, <2>1 DEF ShmOwners
  <1> QED
    BY <1>4, <1>5, <1>6, <1>7

LEMMA ShmStepIInv == ShmIInv /\ [IpcNext]_ipcVars => ShmIInv'
  <1> SUFFICES ASSUME ShmIInv, [IpcNext]_ipcVars PROVE ShmIInv'
    OBVIOUS
  <1>1. CASE UNCHANGED shmVars
    BY <1>1 DEF shmVars, ShmIInv, ShmTypes, ShmRun, ShmAttached, ShmOwners
  <1>2. ASSUME NEW r \in Pair, Shm!Step(r) PROVE ShmIInv'
    BY <1>2, ShmGets, ShmAttaches, ShmForks, ShmWrites, ShmPrints, ShmRemoves, ShmDetaches
    DEF Shm!Step
  <1> QED
    BY <1>1, <1>2, ShmSteps

\* The parent prints the whole text of its child and nothing else, every call on a
\* segment is made by a process that has it mapped, and only a run whose fork()
\* failed leaves a segment behind, for every number of runs that share segments.
THEOREM SegmentCorrect == IpcSpec => []SegmentUsedWhole
  <1>1. ShmIInv => SegmentUsedWhole
    <2> SUFFICES ASSUME ShmIInv PROVE Shm!PrintedWhole /\ Shm!SegmentOwned
      BY DEF SegmentUsedWhole
    <2>1. Shm!PrintedWhole
      BY DEF ShmIInv, ShmTypes, Shm!PrintedWhole
    <2>2. \A s \in 1..latestSegment :
            (s = keyed \/ (Shm!Exists(s) /\ Shm!AttachedTo(s) = {})) => s \notin removed
      BY DEF ShmIInv, ShmOwners, Shm!Exists
    <2>3. Shm!SegmentOwned
      BY <2>2 DEF ShmIInv, ShmAttached, ShmOwners, Shm!SegmentOwned, Shm!Ends
    <2> QED
      BY <2>1, <2>3
  <1> QED
    BY <1>1, ShmInitIInv, ShmStepIInv, PTL DEF IpcSpec

-----------------------------------------------------------------------------
(* FIFO.c. *)

Sent(r) == writer[r] \in {"close", "done"}

FifoTypes ==
    /\ exists \in BOOLEAN
    /\ reader \in [Pair -> {"start", "mkfifo", "fork", "open", "opening", "read", "done",
                            "failed"}]
    /\ writer \in [Pair -> {"none", "open", "opening", "write", "close", "done", "killed"}]
    /\ fifo \in Seq(Pair)
    /\ got \in [Pair -> Seq(Pair)]

\* A message is in the FIFO or in one parent's buffer once it was written, and
\* nowhere twice; as long as there is one in the FIFO somebody is there to read it,
\* so that the kernel never drops it.
FifoMessages ==
    /\ \A p \in 1..Len(fifo) : Sent(fifo[p])
    /\ \A p, q \in 1..Len(fifo) : fifo[p] = fifo[q] => p = q
    /\ \A s \in Pair : \A k \in 1..Len(got[s]) :
         /\ Sent(got[s][k])
         /\ \A p \in 1..Len(fifo) : got[s][k] # fifo[p]
    /\ \A s, u \in Pair : \A k \in 1..Len(got[s]), l \in 1..Len(got[u]) :
         got[s][k] = got[u][l] => s = u /\ k = l
    /\ \A r \in Pair : Sent(r) =>
         \/ \E s \in Pair : \E k \in 1..Len(got[s]) : got[s][k] = r
         \/ \E p \in 1..Len(fifo) : fifo[p] = r
    /\ fifo # <<>> => Named!Readers # {}

FifoRuns ==
    \A r \in Pair :
      /\ reader[r] \in {"start", "mkfifo", "fork"} => writer[r] = "none"
      /\ reader[r] # "done" => got[r] = <<>>

\* What the two processes of a run that is alone know of each other.
FifoAlone(r) ==
    Named!Alone(r) =>
      /\ reader[r] # "failed" /\ writer[r] # "killed"
      /\ reader[r] = "mkfifo" => ~exists
      /\ reader[r] = "open" => writer[r] \in {"none", "open", "opening"}
      /\ reader[r] = "opening" => writer[r] \in {"none", "open"}
      /\ reader[r] = "read" => writer[r] \in {"write", "close", "done"}
      /\ reader[r] = "done" => got[r] = <<r>> /\ Sent(r)

FifoIInv == FifoTypes /\ FifoMessages /\ FifoRuns /\ \A r \in Pair : FifoAlone(r)

LEMMA FifoSteps ==
  ASSUME [IpcNext]_ipcVars
  PROVE  (\E r \in Pair : Named!Step(r) \/ Named!Start(r)) \/ UNCHANGED fifoVars
  BY DEF IpcNext, MainStep, OtherStep, RunStep, Optional, Ended, Only, ipcVars,
         Named!Over, Named!fifoVars, fifoVars

LEMMA FifoInitIInv == IpcInit => FifoIInv
  <1> SUFFICES ASSUME Named!Init PROVE FifoIInv
    BY DEF IpcInit
  <1>1. <<>> \in Seq(Pair) /\ Len(<<>>) = 0
    OBVIOUS
  <1> USE DEF Named!Init
  <1>2. FifoTypes /\ FifoRuns
    BY <1>1 DEF FifoTypes, FifoRuns
  <1>3. FifoMessages
    BY <1>1 DEF FifoMessages, Sent
  <1>4. \A r \in Pair : FifoAlone(r)
    BY DEF FifoAlone
  <1> QED
    BY <1>2, <1>3, <1>4 DEF FifoIInv

\* A step that moves no message, sends none, and lets no reader go.
LEMMA FifoQuiet ==
  ASSUME FifoTypes, FifoMessages, UNCHANGED <<fifo, got>>,
         \A r \in Pair : writer'[r] \in {"close", "done"} <=> Sent(r),
         Named!Readers \subseteq Named!Readers'
  PROVE  FifoMessages'
  <1>1. \A p \in 1..Len(fifo) : fifo[p] \in Pair
    BY ElementOfSeq DEF FifoTypes
  <1>2. \A s \in Pair : \A k \in 1..Len(got[s]) : got[s][k] \in Pair
    BY ElementOfSeq DEF FifoTypes
  <1>3. \A p \in 1..Len(fifo) : writer'[fifo[p]] \in {"close", "done"}
    BY <1>1 DEF FifoMessages
  <1>4. \A s \in Pair : \A k \in 1..Len(got[s]) : writer'[got[s][k]] \in {"close", "done"}
    BY <1>2 DEF FifoMessages
  <1>5. \A r \in Pair : writer'[r] \in {"close", "done"} =>
          \/ \E s \in Pair : \E k \in 1..Len(got[s]) : got[s][k] = r
          \/ \E p \in 1..Len(fifo) : fifo[p] = r
    BY DEF FifoMessages
  <1>6. fifo # <<>> => Named!Readers' # {}
    BY DEF FifoMessages
  <1> QED
    BY <1>3, <1>4, <1>5, <1>6 DEF FifoMessages, Sent

\* A run that takes a step has been started, so that afterwards only that run can be
\* alone, and was alone before.
LEMMA FifoStaysAlone ==
  ASSUME FifoIInv, NEW r \in Pair, Named!Step(r) \/ Named!Start(r),
         NEW q \in Pair, Named!Alone(q)'
  PROVE  q = r /\ Named!Alone(q)
  <1> USE DEF FifoIInv, FifoTypes
  <1>1. reader'[r] # "start" /\ \A s \in Pair : s # r /\ reader'[s] = "start" => reader[s] = "start"
    <2>1. CASE Named!Start(r) \/ Named!Mkfifo(r) \/ Named!Fork(r) \/ Named!ForkFails(r)
               \/ Named!OpenRead(r) \/ Named!Read(r)
      BY <2>1 DEF Named!Start, Named!Mkfifo, Named!Fork, Named!ForkFails, Named!OpenRead,
           Named!Read, Named!ReaderTo
    <2>2. CASE Named!OpenWrite(r) \/ Named!Write(r) \/ Named!CloseWrite(r)
      <3>1. writer[r] # "none"
        BY <2>2 DEF Named!OpenWrite, Named!Write, Named!CloseWrite
      <3>2. reader[r] # "start"
        BY <3>1 DEF FifoRuns
      <3> QED
        BY <2>2, <3>2 DEF Named!OpenWrite, Named!Write, Named!CloseWrite
    <2> QED
      BY <2>1, <2>2 DEF Named!Step
  <1>2. q = r
    BY <1>1 DEF Named!Alone
  <1> QED
    BY <1>1, <1>2 DEF Named!Alone

\* While a run is alone its own message is the only one.
LEMMA FifoAloneData ==
  ASSUME FifoIInv, NEW r \in Pair, Named!Alone(r)
  PROVE  /\ ~Sent(r) => fifo = <<>>
         /\ Sent(r) /\ reader[r] # "done" => fifo = <<r>>
  <1>1. \A s \in Pair : s # r => writer[s] = "none" /\ got[s] = <<>>
    BY DEF FifoIInv, FifoRuns, Named!Alone
  <1>2. fifo \in Seq(Pair) /\ Len(fifo) \in Nat
    BY DEF FifoIInv, FifoTypes
  <1>3. \A p \in 1..Len(fifo) : fifo[p] = r /\ Sent(r)
    <2>1. \A p \in 1..Len(fifo) : fifo[p] \in Pair /\ Sent(fifo[p])
      BY <1>2, ElementOfSeq DEF FifoIInv, FifoMessages
    <2> QED
      BY <1>1, <2>1 DEF Sent
  <1>4. Len(fifo) = 0 => fifo = <<>>
    BY <1>2, EmptySeq
  <1>5. ASSUME ~Sent(r) PROVE fifo = <<>>
    <2>1. 1 \notin 1..Len(fifo)
      BY <1>3, <1>5
    <2> QED
      BY <1>2, <1>4, <2>1
  <1>6. ASSUME Sent(r), reader[r] # "done" PROVE fifo = <<r>>
    <2>1. \A s \in Pair : got[s] = <<>>
      BY <1>1, <1>6 DEF FifoIInv, FifoRuns
    <2>2. \A s \in Pair : 1..Len(got[s]) = {}
      BY <2>1
    <2>3. \E p \in 1..Len(fifo) : fifo[p] = r
      BY <1>6, <2>2 DEF FifoIInv, FifoMessages
    <2>4. \A p, q \in 1..Len(fifo) : p = q
      BY <1>3 DEF FifoIInv, FifoMessages
    <2>5. 1 \in 1..Len(fifo) /\ fifo[1] = r
      BY <1>2, <1>3, <2>3
    <2>6. Len(fifo) = 1
      <3>1. Len(fifo) \in 1..Len(fifo)
        BY <1>2, <2>5
      <3> QED
        BY <2>4, <2>5, <3>1
    <2> QED
      BY <1>2, <2>5, <2>6
  <1> QED
    BY <1>5, <1>6

\* access(), mkfifo() and fork().
LEMMA FifoStarts ==
  ASSUME FifoIInv, NEW r \in Pair,
         Named!Start(r) \/ Named!Mkfifo(r) \/ Named!Fork(r) \/ Named!ForkFails(r)
  PROVE  FifoIInv'
  <1> USE DEF FifoIInv, Named!Start, Named!Mkfifo, Named!Fork, Named!ForkFails,
       Named!ReaderTo, Named!WriterTo
  <1>1. /\ UNCHANGED <<fifo, got>>
        /\ reader[r] \in {"start", "mkfifo", "fork"}
        /\ writer[r] = "none" /\ got[r] = <<>>
    BY DEF FifoRuns
  <1>2. FifoTypes'
    BY DEF FifoTypes
  <1>3. FifoRuns'
    BY <1>1 DEF FifoTypes, FifoRuns
  <1>4. FifoMessages'
    <2>1. \A q \in Pair : writer'[q] \in {"close", "done"} <=> Sent(q)
      BY <1>1 DEF FifoTypes, Sent
    <2>2. Named!Readers \subseteq Named!Readers'
      BY <1>1 DEF FifoTypes, Named!Readers
    <2> QED
      BY <1>1, <2>1, <2>2, FifoQuiet
  <1>5. (\A q \in Pair : FifoAlone(q))'
    <2> SUFFICES ASSUME NEW q \in Pair, Named!Alone(q)' PROVE FifoAlone(q)'
      BY DEF FifoAlone
    <2>1. q = r /\ Named!Alone(q)
      BY FifoStaysAlone DEF Named!Step
    <2> QED
      BY <1>1, <2>1 DEF FifoTypes, FifoAlone
  <1> QED
    BY <1>2, <1>3, <1>4, <1>5

\* open(O_RDONLY): the writers that wait are let in.
LEMMA FifoOpensToRead ==
  ASSUME FifoIInv, NEW r \in Pair, Named!OpenRead(r)
  PROVE  FifoIInv'
  <1> USE DEF FifoIInv
  <1>1. /\ reader[r] = "open"
        /\ reader' = [reader EXCEPT ![r] = IF Named!Writers = {} THEN "opening" ELSE "read"]
        /\ writer' = [w \in Pair |-> IF writer[w] = "opening" THEN "write" ELSE writer[w]]
        /\ UNCHANGED <<exists, fifo, got>>
    BY DEF Named!OpenRead, Named!ReaderTo
  <1>2. FifoTypes'
    BY <1>1 DEF FifoTypes
  <1>3. FifoRuns'
    BY <1>1 DEF FifoTypes, FifoRuns
  <1>4. FifoMessages'
    <2>1. \A q \in Pair : writer'[q] \in {"close", "done"} <=> Sent(q)
      BY <1>1 DEF Sent
    <2>2. Named!Readers \subseteq Named!Readers'
      BY <1>1 DEF FifoTypes, Named!Readers
    <2> QED
      BY <1>1, <2>1, <2>2, FifoQuiet
  <1>5. (\A q \in Pair : FifoAlone(q))'
    <2> SUFFICES ASSUME NEW q \in Pair, Named!Alone(q)' PROVE FifoAlone(q)'
      BY DEF FifoAlone
    <2>1. q = r /\ Named!Alone(r)
      BY FifoStaysAlone DEF Named!Step
    <2>2. \A s \in Pair : s # r => writer[s] = "none"
      BY <2>1 DEF Named!Alone, FifoRuns
    <2>3. Named!Writers = {} <=> writer[r] \notin {"opening", "write", "close"}
      BY <2>2 DEF Named!Writers
    <2>4. writer[r] \in {"none", "open", "opening"}
      BY <1>1, <2>1 DEF FifoAlone
    <2> QED
      BY <1>1, <2>1, <2>3, <2>4 DEF FifoTypes, FifoAlone
  <1> QED
    BY <1>2, <1>3, <1>4, <1>5

\* open(O_WRONLY): the readers that wait are let in.
LEMMA FifoOpensToWrite ==
  ASSUME FifoIInv, NEW r \in Pair, Named!OpenWrite(r)
  PROVE  FifoIInv'
  <1> USE DEF FifoIInv
  <1>1. /\ writer[r] = "open"
        /\ writer' = [writer EXCEPT ![r] = IF Named!Readers = {} THEN "opening" ELSE "write"]
        /\ reader' = [w \in Pair |-> IF reader[w] = "opening" THEN "read" ELSE reader[w]]
        /\ UNCHANGED <<exists, fifo, got>>
    BY DEF Named!OpenWrite, Named!WriterTo
  <1>2. FifoTypes'
    BY <1>1 DEF FifoTypes
  <1>3. FifoRuns'
    BY <1>1 DEF FifoTypes, FifoRuns
  <1>4. FifoMessages'
    <2>1. \A q \in Pair : writer'[q] \in {"close", "done"} <=> Sent(q)
      BY <1>1 DEF FifoTypes, Sent
    <2>2. Named!Readers \subseteq Named!Readers'
      BY <1>1 DEF Named!Readers
    <2> QED
      BY <1>1, <2>1, <2>2, FifoQuiet
  <1>5. (\A q \in Pair : FifoAlone(q))'
    <2> SUFFICES ASSUME NEW q \in Pair, Named!Alone(q)' PROVE FifoAlone(q)'
      BY DEF FifoAlone
    <2>1. q = r /\ Named!Alone(r)
      BY FifoStaysAlone DEF Named!Step
    <2>2. Named!Readers = {} <=> reader[r] \notin {"opening", "read"}
      BY <2>1 DEF Named!Alone, Named!Readers
    <2>3. reader[r] \in {"open", "opening"}
      BY <1>1, <2>1 DEF FifoTypes, FifoAlone, FifoRuns, Sent
    <2> QED
      BY <1>1, <2>1, <2>2, <2>3 DEF FifoTypes, FifoAlone
  <1> QED
    BY <1>2, <1>3, <1>4, <1>5

\* The last close() of a writer, and a write() that meets no reader: there is no
\* message for the kernel to drop.
LEMMA FifoLeaves ==
  ASSUME FifoIInv, NEW r \in Pair,
         Named!CloseWrite(r) \/ (Named!Write(r) /\ Named!Readers = {})
  PROVE  FifoIInv'
  <1> USE DEF FifoIInv
  <1>1. /\ writer[r] \in {"close", "write"}
        /\ writer' = [writer EXCEPT ![r] = IF writer[r] = "close" THEN "done" ELSE "killed"]
        /\ writer[r] = "write" => Named!Readers = {}
        /\ fifo' = Named!Drained(fifo)
        /\ UNCHANGED <<exists, reader, got>>
    BY DEF Named!CloseWrite, Named!Write, Named!WriterTo
  <1>2. Named!Readers' = Named!Readers
    BY <1>1 DEF Named!Readers
  <1>3. fifo' = fifo
    <2>1. CASE Named!Readers' \union Named!Writers' = {}
      <3>1. fifo = <<>>
        BY <1>2, <2>1 DEF FifoMessages
      <3> QED
        BY <1>1, <2>1, <3>1 DEF Named!Drained
    <2>2. CASE Named!Readers' \union Named!Writers' # {}
      BY <1>1, <2>2 DEF Named!Drained
    <2> QED
      BY <2>1, <2>2
  <1>4. FifoTypes'
    BY <1>1, <1>3 DEF FifoTypes
  <1>5. FifoRuns'
    BY <1>1 DEF FifoTypes, FifoRuns
  <1>6. FifoMessages'
    <2>1. \A q \in Pair : writer'[q] \in {"close", "done"} <=> Sent(q)
      BY <1>1 DEF FifoTypes, Sent
    <2> QED
      BY <1>1, <1>2, <1>3, <2>1, FifoQuiet
  <1>7. (\A q \in Pair : FifoAlone(q))'
    <2> SUFFICES ASSUME NEW q \in Pair, Named!Alone(q)' PROVE FifoAlone(q)'
      BY DEF FifoAlone
    <2>1. q = r /\ Named!Alone(r)
      BY FifoStaysAlone DEF Named!Step
    <2>2. reader[r] \in {"read", "done"}
      BY <1>1, <2>1 DEF FifoTypes, FifoAlone, FifoRuns
    <2>3. writer[r] = "close"
      <3>1. reader[r] = "done" => writer[r] # "write"
        BY <2>1 DEF FifoAlone, Sent
      <3>2. reader[r] = "read" => r \in Named!Readers
        BY DEF Named!Readers
      <3> QED
        BY <1>1, <2>2, <3>1, <3>2
    <2> QED
      BY <1>1, <2>1, <2>2, <2>3 DEF FifoTypes, FifoAlone, Sent
  <1> QED
    BY <1>4, <1>5, <1>6, <1>7

\* write() with a reader: the message of the run is nowhere before.
LEMMA FifoWrites ==
  ASSUME FifoIInv, NEW r \in Pair, Named!Write(r), Named!Readers # {}
  PROVE  FifoIInv'
  <1> USE DEF FifoIInv
  <1>1. /\ writer[r] = "write" /\ writer' = [writer EXCEPT ![r] = "close"]
        /\ fifo' = Append(fifo, r)
        /\ UNCHANGED <<exists, reader, got>>
    BY DEF Named!Write, Named!WriterTo
  <1>2. fifo \in Seq(Pair) /\ Len(fifo) \in Nat /\ ~Sent(r)
    BY <1>1 DEF FifoTypes, Sent
  <1>3. /\ fifo' \in Seq(Pair) /\ Len(fifo') = Len(fifo) + 1
        /\ \A p \in 1..Len(fifo) : fifo'[p] = fifo[p]
        /\ fifo'[Len(fifo) + 1] = r
    BY <1>1, <1>2, AppendProperties
  <1>4. \A p \in 1..Len(fifo') : p \in 1..Len(fifo) \/ p = Len(fifo) + 1
    BY <1>2, <1>3
  <1>5. \A q \in Pair : writer'[q] \in {"close", "done"} <=> Sent(q) \/ q = r
    BY <1>1 DEF FifoTypes, Sent
  <1>6. \A p \in 1..Len(fifo) : fifo[p] \in Pair /\ Sent(fifo[p]) /\ fifo[p] # r
    BY <1>2, ElementOfSeq DEF FifoMessages
  <1>7. \A s \in Pair : \A k \in 1..Len(got[s]) :
          got[s][k] \in Pair /\ Sent(got[s][k]) /\ got[s][k] # r
    <2>1. \A s \in Pair : \A k \in 1..Len(got[s]) : got[s][k] \in Pair
      BY ElementOfSeq DEF FifoTypes
    <2> QED
      BY <1>2, <2>1 DEF FifoMessages
  <1>8. FifoTypes'
    BY <1>1, <1>3 DEF FifoTypes
  <1>9. FifoRuns'
    BY <1>1 DEF FifoTypes, FifoRuns
  <1>10. FifoMessages'
    <2>1. \A p \in 1..Len(fifo') : writer'[fifo'[p]] \in {"close", "done"}
      BY <1>3, <1>4, <1>5, <1>6
    <2>2. \A p, q \in 1..Len(fifo') : fifo'[p] = fifo'[q] => p = q
      <3> SUFFICES ASSUME NEW p \in 1..Len(fifo'), NEW q \in 1..Len(fifo'), fifo'[p] = fifo'[q]
                   PROVE  p = q
        OBVIOUS
      <3>1. CASE p \in 1..Len(fifo) /\ q \in 1..Len(fifo)
        <4>1. fifo[p] = fifo[q]
          BY <1>3, <3>1
        <4> QED
          BY <3>1, <4>1 DEF FifoMessages
      <3>2. CASE p = Len(fifo) + 1 \/ q = Len(fifo) + 1
        BY <1>3, <1>4, <1>6, <3>2
      <3> QED
        BY <1>4, <3>1, <3>2
    <2>3. ASSUME NEW s \in Pair, NEW k \in 1..Len(got[s])
          PROVE  /\ writer'[got[s][k]] \in {"close", "done"}
                 /\ \A p \in 1..Len(fifo') : got[s][k] # fifo'[p]
      <3>1. \A p \in 1..Len(fifo) : got[s][k] # fifo[p]
        BY DEF FifoMessages
      <3> QED
        BY <1>3, <1>4, <1>5, <1>7, <3>1
    <2>4. ASSUME NEW q \in Pair, writer'[q] \in {"close", "done"}
          PROVE  \/ \E s \in Pair : \E k \in 1..Len(got[s]) : got[s][k] = q
                 \/ \E p \in 1..Len(fifo') : fifo'[p] = q
      <3>1. CASE q = r
        <4>1. Len(fifo) + 1 \in 1..Len(fifo')
          BY <1>2, <1>3
        <4> QED
          BY <1>3, <3>1, <4>1
      <3>2. CASE Sent(q)
        <4>1. ASSUME NEW p \in 1..Len(fifo), fifo[p] = q
              PROVE  p \in 1..Len(fifo') /\ fifo'[p] = q
          BY <1>2, <1>3, <4>1
        <4> QED
          BY <3>2, <4>1 DEF FifoMessages
      <3> QED
        BY <1>5, <2>4, <3>1, <3>2
    <2>5. Named!Readers' # {}
      BY <1>1 DEF Named!Readers
    <2>6. \A s, u \in Pair : \A k \in 1..Len(got[s]), l \in 1..Len(got[u]) :
            got[s][k] = got[u][l] => s = u /\ k = l
      BY DEF FifoMessages
    <2> QED
      BY <1>1, <2>1, <2>2, <2>3, <2>4, <2>5, <2>6 DEF FifoMessages, Sent
  <1>11. (\A q \in Pair : FifoAlone(q))'
    <2> SUFFICES ASSUME NEW q \in Pair, Named!Alone(q)' PROVE FifoAlone(q)'
      BY DEF FifoAlone
    <2>1. q = r /\ Named!Alone(r)
      BY FifoStaysAlone DEF Named!Step
    <2> QED
      BY <1>1, <1>2, <2>1 DEF FifoTypes, FifoAlone, Sent
  <1> QED
    BY <1>8, <1>9, <1>10, <1>11

\* read(): all the messages go from the FIFO to the buffer of one parent.
LEMMA FifoReads ==
  ASSUME FifoIInv, NEW r \in Pair, Named!Read(r)
  PROVE  FifoIInv'
  <1> USE DEF FifoIInv
  <1>1. /\ reader[r] = "read" /\ (fifo # <<>> \/ Named!Writers = {})
        /\ reader' = [reader EXCEPT ![r] = "done"]
        /\ got' = [got EXCEPT ![r] = fifo] /\ fifo' = <<>>
        /\ UNCHANGED <<exists, writer>>
    BY DEF Named!Read, Named!ReaderTo
  <1>2. <<>> \in Seq(Pair) /\ Len(<<>>) = 0 /\ got[r] = <<>>
    BY <1>1 DEF FifoRuns
  <1>3. \A s \in Pair : got'[s] = IF s = r THEN fifo ELSE got[s]
    BY <1>1 DEF FifoTypes
  <1>4. FifoTypes'
    BY <1>1, <1>2 DEF FifoTypes
  <1>5. FifoRuns'
    BY <1>1 DEF FifoTypes, FifoRuns
  <1>6. FifoMessages'
    <2>1. 1..Len(fifo') = {}
      BY <1>1, <1>2
    <2>2. \A s \in Pair : \A k \in 1..Len(got'[s]) : Sent(got'[s][k])
      BY <1>3 DEF FifoMessages
    <2>3. \A s, u \in Pair : \A k \in 1..Len(got'[s]), l \in 1..Len(got'[u]) :
            got'[s][k] = got'[u][l] => s = u /\ k = l
      <3> SUFFICES ASSUME NEW s \in Pair, NEW u \in Pair,
                          NEW k \in 1..Len(got'[s]), NEW l \in 1..Len(got'[u]),
                          got'[s][k] = got'[u][l]
                   PROVE  s = u /\ k = l
        OBVIOUS
      <3>1. CASE s = r /\ u = r
        BY <1>3, <3>1 DEF FifoMessages
      <3>2. CASE s # r /\ u # r
        BY <1>3, <3>2 DEF FifoMessages
      <3>3. CASE s = r /\ u # r
        BY <1>3, <3>3 DEF FifoMessages
      <3>4. CASE s # r /\ u = r
        BY <1>3, <3>4 DEF FifoMessages
      <3> QED
        BY <3>1, <3>2, <3>3, <3>4
    <2>4. ASSUME NEW q \in Pair, Sent(q)
          PROVE  \E s \in Pair : \E k \in 1..Len(got'[s]) : got'[s][k] = q
      <3>1. CASE \E p \in 1..Len(fifo) : fifo[p] = q
        BY <1>3, <3>1
      <3>2. CASE \E s \in Pair : \E k \in 1..Len(got[s]) : got[s][k] = q
        <4>1. PICK s \in Pair : \E k \in 1..Len(got[s]) : got[s][k] = q
          BY <3>2
        <4>2. s # r
          BY <1>2, <4>1
        <4> QED
          BY <1>3, <4>1, <4>2
      <3> QED
        BY <2>4, <3>1, <3>2 DEF FifoMessages
    <2> QED
      BY <1>1, <2>1, <2>2, <2>3, <2>4 DEF FifoMessages, Sent
  <1>7. (\A q \in Pair : FifoAlone(q))'
    <2> SUFFICES ASSUME NEW q \in Pair, Named!Alone(q)' PROVE FifoAlone(q)'
      BY DEF FifoAlone
    <2>1. q = r /\ Named!Alone(r)
      BY FifoStaysAlone DEF Named!Step
    <2>2. Sent(r)
      <3>1. writer[r] \in {"write", "close", "done"}
        BY <1>1, <2>1 DEF FifoAlone
      <3>2. ~Sent(r) => fifo = <<>>
        BY <2>1, FifoAloneData
      <3>3. writer[r] = "write" => r \in Named!Writers
        BY DEF Named!Writers
      <3> QED
        BY <1>1, <3>1, <3>2, <3>3 DEF Sent
    <2>3. fifo = <<r>>
      BY <1>1, <2>1, <2>2, FifoAloneData
    <2> QED
      BY <1>1, <1>3, <2>1, <2>2, <2>3 DEF FifoTypes, FifoAlone, Sent
  <1> QED
    BY <1>4, <1>5, <1>6, <1>7

LEMMA FifoStepIInv == FifoIInv /\ [IpcNext]_ipcVars => FifoIInv'
  <1> SUFFICES ASSUME FifoIInv, [IpcNext]_ipcVars PROVE FifoIInv'
    OBVIOUS
  <1>1. CASE UNCHANGED fifoVars
    BY <1>1 DEF fifoVars, FifoIInv, FifoTypes, FifoMessages, FifoRuns, FifoAlone, Sent,
         Named!Alone, Named!Readers
  <1>2. ASSUME NEW r \in Pair, Named!Step(r) \/ Named!Start(r) PROVE FifoIInv'
    BY <1>2, FifoStarts, FifoOpensToRead, FifoOpensToWrite, FifoWrites, FifoLeaves, FifoReads
    DEF Named!Step
  <1> QED
    BY <1>1, <1>2, FifoSteps

\* However many runs of FIFO.c overlap, a message is read once at most and never
\* dropped: it is in the FIFO, with somebody there to read it, or some parent has
\* it.  A run alone prints its own message and meets neither SIGPIPE nor a failed
\* mkfifo().
THEOREM FifoCorrect == IpcSpec => []OneReader
  <1>1. FifoIInv => OneReader
    <2> SUFFICES ASSUME FifoIInv PROVE Named!OneReader
      BY DEF OneReader
    <2> USE DEF FifoIInv
    <2>1. /\ fifo \in Seq(Pair) /\ DOMAIN fifo = 1..Len(fifo)
          /\ \A s \in Pair : DOMAIN got[s] = 1..Len(got[s])
      BY LenProperties DEF FifoTypes
    <2>2. \A r, s \in Pair : \A k \in DOMAIN got[r], l \in DOMAIN got[s] :
            (got[r][k] = got[s][l]) => (r = s /\ k = l)
      <3> SUFFICES ASSUME NEW r \in Pair, NEW s \in Pair,
                          NEW k \in DOMAIN got[r], NEW l \in DOMAIN got[s],
                          got[r][k] = got[s][l]
                   PROVE  r = s /\ k = l
        OBVIOUS
      <3>1. k \in 1..Len(got[r]) /\ l \in 1..Len(got[s])
        BY <2>1
      <3> QED
        BY <3>1 DEF FifoMessages
    <2>3. /\ \A r \in Pair : writer[r] \in {"close", "done"} =>
                Named!Received(r) \/ \E k \in DOMAIN fifo : fifo[k] = r
          /\ fifo # <<>> => Named!Readers # {}
      BY <2>1 DEF FifoMessages, Sent, Named!Received
    <2>4. \A r \in Pair : Named!Alone(r) =>
            /\ reader[r] # "failed" /\ writer[r] # "killed"
            /\ reader[r] = "done" => got[r] = <<r>>
      BY DEF FifoAlone
    <2> QED
      BY <2>2, <2>3, <2>4 DEF Named!OneReader
  <1> QED
    BY <1>1, FifoInitIInv, FifoStepIInv, PTL DEF IpcSpec

-----------------------------------------------------------------------------
(* UnixFileEventWatching.c.  The lemmas are about least and largest numbers,   *)
(* and about sequences put behind each other, as the events in a buffer are.   *)

LEMMA LeastNumber ==
  ASSUME NEW S, S \subseteq Nat, S # {}
  PROVE  \E m \in S : \A n \in S : m <= n
  <1> DEFINE R == {ss \in Nat \X Nat : ss[1] < ss[2]}
  <1>1. IsWellFoundedOn(R, Nat)
    BY NatLessThanWellFounded DEF OpToRel
  <1> HIDE DEF R
  <1>2. PICK m \in S : \A n \in S : ~(<<n, m>> \in R)
    BY <1>1, WFMin
  <1>3. \A n \in S : ~(n < m)
    BY <1>2 DEF R
  <1> QED
    BY <1>3

LEMMA Induction ==
  ASSUME NEW S, 0 \in S, \A n \in Nat : n \in S => n + 1 \in S
  PROVE  Nat \subseteq S
  <1> SUFFICES ASSUME Nat \ S # {} PROVE FALSE
    OBVIOUS
  <1>1. PICK m \in Nat \ S : \A n \in Nat \ S : m <= n
    BY LeastNumber
  <1>2. m - 1 \in Nat /\ m - 1 \in S
    BY <1>1
  <1> QED
    BY <1>1, <1>2

LEMMA LargestNumber ==
  ASSUME NEW S, NEW B \in Nat, S \subseteq 1..B, S # {}
  PROVE  Events!Max(S) \in S /\ \A x \in S : x <= Events!Max(S)
  <1> DEFINE T == {n \in Nat : \A x \in S : x <= n}
  <1>1. T \subseteq Nat /\ T # {}
    OBVIOUS
  <1>2. PICK m \in T : \A n \in T : m <= n
    BY <1>1, LeastNumber
  <1>3. m \in S
    <2> SUFFICES ASSUME m \notin S PROVE FALSE
      OBVIOUS
    <2>1. PICK y \in S : TRUE
      OBVIOUS
    <2>2. m \in Nat /\ 1 <= y /\ y <= m /\ \A x \in S : x \in Nat /\ x <= m /\ x # m
      BY <1>2, <2>1
    <2>3. m - 1 \in Nat /\ \A x \in S : x <= m - 1
      BY <2>2
    <2>4. m - 1 \in T
      BY <2>3
    <2> QED
      BY <1>2, <2>2, <2>4
  <1>4. \E x \in S : \A y \in S : x >= y
    BY <1>2, <1>3
  <1> QED
    BY <1>4 DEF Events!Max

\* Sequences behind each other: F[k] is the first k of them.
JoinOf(F, w, n) == F[0] = <<>> /\ \A k \in 1..n : F[k] = F[k - 1] \o w[k]

LEMMA JoinExists ==
  ASSUME NEW U, NEW w, NEW n \in Nat, \A k \in 1..n : w[k] \in Seq(U)
  PROVE  \E F \in [0..n -> Seq(U)] : JoinOf(F, w, n)
  <1> DEFINE S == {k \in Nat : k <= n => \E F \in [0..k -> Seq(U)] : JoinOf(F, w, k)}
  <1>1. 0 \in S
    <2> DEFINE F == [k \in 0..0 |-> <<>>]
    <2>1. F \in [0..0 -> Seq(U)] /\ JoinOf(F, w, 0)
      BY EmptySeq DEF JoinOf
    <2> QED
      BY <2>1
  <1>2. ASSUME NEW k \in Nat, k \in S PROVE k + 1 \in S
    <2> SUFFICES ASSUME k + 1 <= n
                 PROVE  \E G \in [0..(k + 1) -> Seq(U)] : JoinOf(G, w, k + 1)
      OBVIOUS
    <2>1. PICK F \in [0..k -> Seq(U)] : JoinOf(F, w, k)
      BY <1>2
    <2> HIDE DEF S
    <2>2. w[k + 1] \in Seq(U)
      OBVIOUS
    <2>3. F[k] \o w[k + 1] \in Seq(U)
      BY <2>1, <2>2, ConcatProperties
    <2> DEFINE G == [j \in 0..(k + 1) |-> IF j = k + 1 THEN F[k] \o w[k + 1] ELSE F[j]]
    <2>4. \A j \in 0..(k + 1) : j = k + 1 \/ j \in 0..k
      OBVIOUS
    <2>5. G \in [0..(k + 1) -> Seq(U)]
      BY <2>1, <2>3, <2>4
    <2>6. \A j \in 0..k : G[j] = F[j]
      OBVIOUS
    <2>7. G[k + 1] = F[k] \o w[k + 1]
      OBVIOUS
    <2> HIDE DEF G
    <2>8. ASSUME NEW j \in 1..(k + 1) PROVE G[j] = G[j - 1] \o w[j]
      <3>1. j - 1 \in 0..k /\ (j = k + 1 \/ j \in 1..k)
        OBVIOUS
      <3>2. CASE j = k + 1
        <4>1. j - 1 = k
          BY <3>2
        <4> QED
          BY <2>6, <2>7, <3>1, <3>2, <4>1
      <3>3. CASE j \in 1..k
        <4>1. F[j] = F[j - 1] \o w[j]
          BY <2>1, <3>3 DEF JoinOf
        <4>2. G[j] = F[j] /\ G[j - 1] = F[j - 1]
          BY <2>6, <3>1, <3>3
        <4> QED
          BY <4>1, <4>2
      <3> QED
        BY <3>1, <3>2, <3>3
    <2>9. G[0] = <<>>
      BY <2>1, <2>6 DEF JoinOf
    <2> QED
      BY <2>5, <2>8, <2>9 DEF JoinOf
  <1> HIDE DEF S
  <1>3. n \in S
    BY <1>1, <1>2, Induction
  <1> QED
    BY <1>3 DEF S

EventUnits == Events!Events \union {<<>>}

\* An event in the buffer is a header and the units of its name.
LEMMA UnitOf ==
  ASSUME NEW e \in Events!Events
  PROVE  /\ e.len \in 0..1 /\ e # <<>>
         /\ Events!Unit(e) \in Seq(EventUnits) /\ Len(Events!Unit(e)) = 1 + e.len
         /\ Events!Unit(e)[1] = e
         /\ \A i \in 2..(1 + e.len) : Events!Unit(e)[i] = <<>>
  <1> DEFINE n == e.len   name == [k \in 1..n |-> <<>>]
  <1>1. n \in 0..1 /\ DOMAIN e = {"mask", "len"}
    BY DEF Events!Events
  <1>2. e # <<>>
    BY <1>1, EmptySeq
  <1>3. name \in Seq(EventUnits) /\ Len(name) = n /\ \A k \in 1..n : name[k] = <<>>
    <2>1. name \in [1..n -> EventUnits] /\ n \in Nat
      BY <1>1 DEF EventUnits
    <2> HIDE DEF name, n
    <2>2. name \in Seq(EventUnits)
      BY <2>1, SeqDef
    <2>3. Len(name) = n
      BY <2>1, <2>2, LenProperties
    <2> QED
      BY <2>2, <2>3 DEF name
  <1>4. <<e>> \in Seq(EventUnits) /\ Len(<<e>>) = 1 /\ <<e>>[1] = e
    BY DEF EventUnits
  <1>5. Events!Unit(e) = <<e>> \o name
    BY DEF Events!Unit
  <1> HIDE DEF name, n
  <1>6. /\ <<e>> \o name \in Seq(EventUnits) /\ Len(<<e>> \o name) = 1 + n
        /\ \A k \in 1..(1 + n) :
             (<<e>> \o name)[k] = IF k <= 1 THEN <<e>>[k] ELSE name[k - 1]
    BY <1>3, <1>4, ConcatProperties
  <1>7. 1 \in 1..(1 + n) /\ \A i \in 2..(1 + n) : i \in 1..(1 + n) /\ ~(i <= 1) /\ i - 1 \in 1..n
    BY <1>1
  <1>8. (<<e>> \o name)[1] = e
    BY <1>4, <1>6, <1>7
  <1>9. \A i \in 2..(1 + n) : (<<e>> \o name)[i] = <<>>
    BY <1>3, <1>6, <1>7
  <1> QED
    BY <1>1, <1>2, <1>5, <1>6, <1>8, <1>9 DEF n

LEMMA SameCardinality == \A S : Events!Cardinality(S) = Cardinality(S)
  BY DEF Events!Cardinality, Cardinality

\* The headers among some units.
HeadersIn(units) == {k \in 1..Len(units) : units[k] # <<>>}

\* The events and the ends of their units: at[k] is where the k-th ends.
LaidIn(units, at, events, n) ==
    \A k \in 1..n :
      /\ units[at[k - 1] + 1] = events[k]
      /\ at[k] = at[k - 1] + 1 + events[k].len
      /\ \A i \in (at[k - 1] + 2)..at[k] : units[i] = <<>>

\* One event more.
LEMMA UnitAdded ==
  ASSUME NEW events, NEW n \in Nat, NEW units \in Seq(EventUnits), NEW at,
         at[n] = Len(units), \A k \in 0..n : at[k] \in 0..Len(units),
         LaidIn(units, at, events, n),
         IsFiniteSet(HeadersIn(units)), Cardinality(HeadersIn(units)) = n,
         \A k \in 1..(n + 1) : events[k] \in Events!Events,
         at[n + 1] = Len(units \o Events!Unit(events[n + 1]))
  PROVE  LET more == units \o Events!Unit(events[n + 1])
         IN /\ more \in Seq(EventUnits) /\ Len(more) = Len(units) + 1 + events[n + 1].len
            /\ \A k \in 0..(n + 1) : at[k] \in 0..Len(more)
            /\ LaidIn(more, at, events, n + 1)
            /\ IsFiniteSet(HeadersIn(more)) /\ Cardinality(HeadersIn(more)) = n + 1
  <1> DEFINE e == events[n + 1]   more == units \o Events!Unit(e)   len == e.len
  <1>1. /\ len \in 0..1 /\ e # <<>>
        /\ Events!Unit(e) \in Seq(EventUnits) /\ Len(Events!Unit(e)) = 1 + len
        /\ Events!Unit(e)[1] = e
        /\ \A i \in 2..(1 + len) : Events!Unit(e)[i] = <<>>
    <2>1. e \in Events!Events
      OBVIOUS
    <2> HIDE DEF e
    <2> QED
      BY <2>1, UnitOf
  <1>2. Len(units) \in Nat
    BY LenProperties
  <1>3. /\ more \in Seq(EventUnits) /\ Len(more) = Len(units) + 1 + len
        /\ \A i \in 1..(Len(units) + 1 + len) :
             more[i] = IF i <= Len(units) THEN units[i] ELSE Events!Unit(e)[i - Len(units)]
    BY <1>1, <1>2, ConcatProperties
  <1>4. at[n + 1] = Len(more)
    OBVIOUS
  <1> HIDE DEF more
  <1>5. /\ \A i \in 1..Len(units) : more[i] = units[i]
        /\ more[Len(units) + 1] = e
        /\ \A i \in (Len(units) + 2)..(Len(units) + 1 + len) : more[i] = <<>>
    <2>1. \A i \in 1..Len(units) : i \in 1..(Len(units) + 1 + len) /\ i <= Len(units)
      BY <1>1, <1>2
    <2>2. /\ Len(units) + 1 \in 1..(Len(units) + 1 + len) /\ ~(Len(units) + 1 <= Len(units))
          /\ (Len(units) + 1) - Len(units) = 1
      BY <1>1, <1>2
    <2>3. \A i \in (Len(units) + 2)..(Len(units) + 1 + len) :
             /\ i \in 1..(Len(units) + 1 + len) /\ ~(i <= Len(units))
             /\ i - Len(units) \in 2..(1 + len)
      BY <1>1, <1>2, SMTT(60)
    <2> QED
      BY <1>1, <1>3, <2>1, <2>2, <2>3
  <1>6. \A k \in 0..(n + 1) : at[k] \in 0..Len(more)
    <2>1. \A k \in 0..(n + 1) : k = n + 1 \/ k \in 0..n
      OBVIOUS
    <2>2. Len(more) \in Nat /\ Len(units) <= Len(more)
      BY <1>1, <1>2, <1>3
    <2> QED
      BY <1>2, <1>4, <2>1, <2>2
  <1>7. LaidIn(more, at, events, n + 1)
    <2> SUFFICES ASSUME NEW k \in 1..(n + 1)
                 PROVE  /\ more[at[k - 1] + 1] = events[k]
                        /\ at[k] = at[k - 1] + 1 + events[k].len
                        /\ \A i \in (at[k - 1] + 2)..at[k] : more[i] = <<>>
      BY DEF LaidIn
    <2>1. CASE k = n + 1
      <3>1. at[k - 1] = Len(units) /\ at[k] = Len(units) + 1 + len /\ events[k].len = len
        BY <1>3, <1>4, <2>1
      <3> QED
        BY <1>5, <2>1, <3>1
    <2>2. CASE k # n + 1
      <3>1. k \in 1..n /\ k - 1 \in 0..n /\ k \in 0..n
        BY <2>2
      <3>2. /\ units[at[k - 1] + 1] = events[k]
            /\ at[k] = at[k - 1] + 1 + events[k].len
            /\ \A i \in (at[k - 1] + 2)..at[k] : units[i] = <<>>
        BY <3>1 DEF LaidIn
      <3>3. at[k] \in 0..Len(units) /\ at[k - 1] \in 0..Len(units)
        BY <3>1
      <3>4. at[k - 1] + 1 \in 1..Len(units)
        <4>1. at[k - 1] # Len(units)
          <5>1. events[k].len \in 0..1
            BY UnitOf
          <5> QED
            BY <1>2, <3>2, <3>3, <5>1
        <4> QED
          BY <1>2, <3>3, <4>1
      <3>5. \A i \in (at[k - 1] + 2)..at[k] : i \in 1..Len(units)
        BY <1>2, <3>3
      <3> QED
        BY <1>5, <3>2, <3>4, <3>5
    <2> QED
      BY <2>1, <2>2
  <1>8. HeadersIn(more) = HeadersIn(units) \union {Len(units) + 1}
    <2>1. \A i \in 1..Len(more) : \/ i \in 1..Len(units)
                                  \/ i = Len(units) + 1
                                  \/ i \in (Len(units) + 2)..(Len(units) + 1 + len)
      <3>1. Len(units) \in Nat /\ len \in 0..1 /\ Len(more) = Len(units) + 1 + len
        BY <1>1, <1>2, <1>3
      <3> HIDE DEF len
      <3> QED
        BY <3>1
    <2>2. /\ \A i \in 1..Len(units) : i \in 1..Len(more)
          /\ Len(units) + 1 \in 1..Len(more)
      BY <1>1, <1>2, <1>3
    <2> QED
      BY <1>1, <1>5, <2>1, <2>2 DEF HeadersIn
  <1>9. Len(units) + 1 \notin HeadersIn(units)
    BY <1>2 DEF HeadersIn
  <1>10. IsFiniteSet(HeadersIn(more)) /\ Cardinality(HeadersIn(more)) = n + 1
    <2> DEFINE H == HeadersIn(units)   last == Len(units) + 1
    <2>1. IsFiniteSet(H) /\ Cardinality(H) = n /\ last \notin H
      BY <1>9
    <2> HIDE DEF H, last
    <2>2. IsFiniteSet(H \union {last}) /\ Cardinality(H \union {last}) = n + 1
      BY <2>1, FS_AddElement
    <2> QED
      BY <1>8, <2>2 DEF H, last
  <1> QED
    BY <1>3, <1>6, <1>7, <1>10 DEF more

\* What the kernel writes into the buffer.
LEMMA UnitsOf ==
  ASSUME NEW events \in Seq(Events!Events)
  PROVE  LET units == Events!Units(events)
         IN /\ units \in Seq(EventUnits)
            /\ IsFiniteSet(HeadersIn(units)) /\ Cardinality(HeadersIn(units)) = Len(events)
            /\ \E at : /\ at[0] = 0 /\ at[Len(events)] = Len(units)
                       /\ \A k \in 0..Len(events) : at[k] \in 0..Len(units)
                       /\ LaidIn(units, at, events, Len(events))
  <1> DEFINE n == Len(events)
             w == [k \in 1..n |-> Events!Unit(events[k])]
             P(F) == F = [k \in 0..n |-> IF k = 0 THEN <<>>
                                         ELSE F[k - 1] \o Events!Unit(events[k])]
             G == CHOOSE F : P(F)
             at == [k \in 0..n |-> Len(G[k])]
  <1>1. n \in Nat /\ \A k \in 1..n : events[k] \in Events!Events
    BY LenProperties, ElementOfSeq
  <1>2. Events!Units(events) = G[n]
    BY DEF Events!Units
  <1>3. DOMAIN w = 1..n /\ \A k \in 1..n : w[k] = Events!Unit(events[k])
    OBVIOUS
  <1> HIDE DEF n, w, G
  <1>4. \A k \in 1..n : w[k] \in Seq(EventUnits)
    BY <1>1, <1>3, UnitOf
  <1>5. PICK F \in [0..n -> Seq(EventUnits)] : JoinOf(F, w, n)
    BY <1>1, <1>4, JoinExists
  <1>6. P(F)
    <2>1. \A k \in 0..n : k = 0 \/ k \in 1..n
      BY <1>1
    <2>2. \A k \in 0..n : F[k] = IF k = 0 THEN <<>>
                                 ELSE F[k - 1] \o Events!Unit(events[k])
      BY <1>3, <1>5, <2>1 DEF JoinOf
    <2> QED
      BY <1>5, <2>2
  <1>7. P(G)
    BY <1>6 DEF G
  <1>8. G[0] = <<>> /\ \A k \in 0..n : k # 0 => G[k] = G[k - 1] \o Events!Unit(events[k])
    <2>1. 0 \in 0..n
      BY <1>1
    <2>2. \A k \in 0..n : G[k] = IF k = 0 THEN <<>>
                                 ELSE G[k - 1] \o Events!Unit(events[k])
      BY <1>7
    <2> QED
      BY <2>1, <2>2
  <1> DEFINE Laid(k) == /\ G[k] \in Seq(EventUnits)
                        /\ \A j \in 0..k : at[j] \in 0..Len(G[k])
                        /\ LaidIn(G[k], at, events, k)
                        /\ IsFiniteSet(HeadersIn(G[k]))
                        /\ Cardinality(HeadersIn(G[k])) = k
             S == {k \in Nat : k <= n => Laid(k)}
  <1>9. \A k \in 0..n : at[k] = Len(G[k])
    OBVIOUS
  <1> HIDE DEF at
  <1>10. 0 \in S
    <2>1. <<>> \in Seq(EventUnits) /\ Len(<<>>) = 0
      BY EmptySeq
    <2>2. at[0] = 0 /\ \A j \in 0..0 : j = 0
      BY <1>1, <1>8, <1>9, <2>1
    <2>3. LaidIn(<<>>, at, events, 0)
      BY DEF LaidIn
    <2>4. HeadersIn(<<>>) = {}
      BY <2>1 DEF HeadersIn
    <2>5. IsFiniteSet({}) /\ Cardinality({}) = 0
      BY FS_EmptySet
    <2> QED
      BY <1>8, <2>1, <2>2, <2>3, <2>4, <2>5
  <1>11. ASSUME NEW k \in Nat, k \in S PROVE k + 1 \in S
    <2> SUFFICES ASSUME k + 1 <= n PROVE Laid(k + 1)
      OBVIOUS
    <2>1. k \in 0..n /\ k + 1 \in 0..n /\ k + 1 # 0 /\ (k + 1) - 1 = k
      BY <1>1
    <2>2. Laid(k)
      BY <1>11, <2>1
    <2>3. at[k] = Len(G[k]) /\ at[k + 1] = Len(G[k + 1])
      BY <1>9, <2>1
    <2>4. G[k + 1] = G[k] \o Events!Unit(events[k + 1])
      BY <1>8, <2>1
    <2>5. \A j \in 1..(k + 1) : events[j] \in Events!Events
      BY <1>1, <2>1
    <2> HIDE DEF S
    <2> DEFINE units == G[k]
    <2>6. /\ units \in Seq(EventUnits) /\ at[k] = Len(units)
          /\ \A j \in 0..k : at[j] \in 0..Len(units)
          /\ LaidIn(units, at, events, k)
          /\ IsFiniteSet(HeadersIn(units)) /\ Cardinality(HeadersIn(units)) = k
          /\ at[k + 1] = Len(units \o Events!Unit(events[k + 1]))
      BY <2>2, <2>3, <2>4
    <2> HIDE DEF units, Laid
    <2> DEFINE more == units \o Events!Unit(events[k + 1])
    <2>7. /\ more \in Seq(EventUnits)
          /\ \A j \in 0..(k + 1) : at[j] \in 0..Len(more)
          /\ LaidIn(more, at, events, k + 1)
          /\ IsFiniteSet(HeadersIn(more)) /\ Cardinality(HeadersIn(more)) = k + 1
      BY <2>5, <2>6, UnitAdded
    <2> QED
      BY <2>4, <2>7 DEF Laid, units
  <1> HIDE DEF S
  <1>12. n \in S
    BY <1>1, <1>10, <1>11, Induction
  <1>13. Laid(n)
    BY <1>1, <1>12 DEF S
  <1>14. at[0] = 0 /\ at[n] = Len(G[n])
    <2>1. Len(<<>>) = 0 /\ 0 \in 0..n /\ n \in 0..n
      BY <1>1
    <2> QED
      BY <1>8, <1>9, <2>1
  <1> QED
    BY <1>2, <1>13, <1>14 DEF n

KindSet == {"created", "deleted", "accessed", "closed", "modified", "moved"}

LEMMA KindsOfMask ==
  /\ Events!Range(Events!Kinds) = KindSet
  /\ Events!Unset \notin KindSet /\ Events!Null \notin KindSet /\ Events!Unset # Events!Null
  <1>1. DOMAIN Events!Kinds = 1..6
    BY DEF Events!Kinds
  <1>2. Events!Range(Events!Kinds) = {Events!Kinds[k] : k \in 1..6}
    BY <1>1 DEF Events!Range
  <1>3. \A k \in 1..6 : k \in {1, 2, 3, 4, 5, 6}
    OBVIOUS
  <1>4. {Events!Kinds[k] : k \in 1..6} = KindSet
    BY <1>3 DEF Events!Kinds, KindSet
  <1> QED
    BY <1>2, <1>4 DEF KindSet, Events!Unset, Events!Null

\* The six tests leave the one kind that an event is of.
LEMMA ChosenIs ==
  ASSUME NEW kind \in KindSet
  PROVE  Events!Chosen({kind}) = kind
  <1> DEFINE fits(k) == /\ Events!Kinds[k] \in {kind}
                        /\ \A l \in (k + 1)..Len(Events!Kinds) : Events!Kinds[l] \notin {kind}
             k0 == CHOOSE k \in DOMAIN Events!Kinds : fits(k)
  <1>1. DOMAIN Events!Kinds = 1..6 /\ Len(Events!Kinds) = 6
    BY DEF Events!Kinds
  <1>2. \E k \in 1..6 : Events!Kinds[k] = kind
    BY DEF KindSet, Events!Kinds
  <1>3. \A k, l \in 1..6 : Events!Kinds[k] = Events!Kinds[l] => k = l
    <2>1. \A k \in 1..6 : k \in {1, 2, 3, 4, 5, 6}
      OBVIOUS
    <2> QED
      BY <2>1 DEF Events!Kinds
  <1>4. \E k \in DOMAIN Events!Kinds : fits(k)
    BY <1>1, <1>2, <1>3
  <1>5. k0 \in DOMAIN Events!Kinds /\ fits(k0)
    BY <1>4
  <1>6. Events!Chosen({kind}) = Events!Kinds[k0]
    BY DEF Events!Chosen
  <1> QED
    BY <1>5, <1>6

\* What n events have to be told as: from the first of a watched kind on, each as
\* the last one of a watched kind until then.
Heard(events, n, lines) ==
    \E first \in 1..(n + 1) :
      /\ \A k \in 1..(first - 1) : events[k].mask = {}
      /\ first <= n => events[first].mask # {}
      /\ Len(lines) = n + 1 - first
      /\ \A j \in 1..Len(lines) : \E k \in first..(first + j - 1) :
           /\ events[k].mask = {lines[j]}
           /\ \A l \in (k + 1)..(first + j - 1) : events[l].mask = {}

\* What notificationMessage says after n events.
Said(events, n, words) ==
    \/ (\A k \in 1..n : events[k].mask = {}) /\ words \in {Events!Unset, Events!Null}
    \/ \E k \in 1..n : /\ words \in KindSet /\ events[k].mask = {words}
                       /\ \A l \in (k + 1)..n : events[l].mask = {}

\* One event more.
LEMMA HeardMore ==
  ASSUME NEW events, NEW n \in Nat, NEW lines \in Seq(KindSet), NEW words, NEW next,
         Heard(events, n, lines), Said(events, n, words), next # Events!Unset,
         \/ events[n + 1].mask = {} /\ next = words
         \/ next \in KindSet /\ events[n + 1].mask = {next}
  PROVE  Heard(events, n + 1, IF next = Events!Null THEN lines ELSE Append(lines, next))
  <1> DEFINE more == IF next = Events!Null THEN lines ELSE Append(lines, next)
  <1>1. PICK first \in 1..(n + 1) :
          /\ \A k \in 1..(first - 1) : events[k].mask = {}
          /\ first <= n => events[first].mask # {}
          /\ Len(lines) = n + 1 - first
          /\ \A j \in 1..Len(lines) : \E k \in first..(first + j - 1) :
               /\ events[k].mask = {lines[j]}
               /\ \A l \in (k + 1)..(first + j - 1) : events[l].mask = {}
    BY DEF Heard
  <1>2. Len(lines) \in Nat
    BY LenProperties
  <1>3. CASE next \in KindSet
    <2>1. /\ Len(Append(lines, next)) = Len(lines) + 1
          /\ \A j \in 1..Len(lines) : Append(lines, next)[j] = lines[j]
          /\ Append(lines, next)[Len(lines) + 1] = next
      BY <1>3, AppendProperties
    <2>2. more = Append(lines, next)
      BY <1>3, KindsOfMask
    <2> HIDE DEF more
    <2>3. \E k \in first..(n + 1) : /\ events[k].mask = {next}
                                   /\ \A l \in (k + 1)..(n + 1) : events[l].mask = {}
      <3>1. CASE events[n + 1].mask = {next}
        <4>1. n + 1 \in first..(n + 1) /\ \A l \in (n + 1 + 1)..(n + 1) : FALSE
          OBVIOUS
        <4> QED
          BY <3>1, <4>1
      <3>2. CASE events[n + 1].mask = {} /\ next = words
        <4>1. PICK k \in 1..n : /\ events[k].mask = {next}
                                /\ \A l \in (k + 1)..n : events[l].mask = {}
          BY <1>3, <3>2, KindsOfMask DEF Said
        <4>2. ~(k \in 1..(first - 1))
          BY <1>1, <4>1
        <4>3. k \in first..(n + 1)
          BY <4>2
        <4>4. \A l \in (k + 1)..(n + 1) : l = n + 1 \/ l \in (k + 1)..n
          OBVIOUS
        <4> QED
          BY <3>2, <4>1, <4>3, <4>4
      <3> QED
        BY <1>3, <3>1, <3>2, KindsOfMask
    <2>4. first <= n + 1 => events[first].mask # {}
      <3>1. CASE first = n + 1
        <4>1. PICK k \in first..(n + 1) : events[k].mask = {next}
          BY <2>3
        <4>2. k = first
          BY <3>1
        <4> QED
          BY <4>1, <4>2
      <3>2. CASE first # n + 1
        BY <1>1, <3>2
      <3> QED
        BY <3>1, <3>2
    <2>5. Len(more) = (n + 1) + 1 - first /\ first \in 1..((n + 1) + 1)
      BY <1>1, <1>2, <2>1, <2>2
    <2>6. ASSUME NEW j \in 1..Len(more)
          PROVE  \E k \in first..(first + j - 1) :
                   /\ events[k].mask = {more[j]}
                   /\ \A l \in (k + 1)..(first + j - 1) : events[l].mask = {}
      <3>1. CASE j \in 1..Len(lines)
        BY <1>1, <2>1, <2>2, <3>1
      <3>2. CASE j = Len(lines) + 1
        <4>1. first + j - 1 = n + 1
          BY <1>1, <1>2, <3>2
        <4> QED
          BY <2>1, <2>2, <2>3, <3>2, <4>1
      <3>3. j \in 1..Len(lines) \/ j = Len(lines) + 1
        <4>1. Len(more) = Len(lines) + 1
          BY <2>1, <2>2
        <4> QED
          BY <1>2, <4>1
      <3> QED
        BY <3>1, <3>2, <3>3
    <2> QED
      BY <1>1, <2>2, <2>4, <2>5, <2>6 DEF Heard, more
  <1>4. CASE next \notin KindSet
    <2>1. /\ events[n + 1].mask = {} /\ next = words /\ more = lines
          /\ \A k \in 1..n : events[k].mask = {}
      BY <1>4 DEF Said
    <2>2. first = n + 1
      BY <1>1, <2>1
    <2>3. Len(lines) = 0 /\ \A j \in 1..Len(lines) : FALSE
      BY <1>1, <1>2, <2>2
    <2>4. /\ (n + 1) + 1 \in 1..((n + 1) + 1) /\ ~((n + 1) + 1 <= n + 1)
          /\ (n + 1) + 1 - ((n + 1) + 1) = 0 /\ ((n + 1) + 1) - 1 = n + 1
      OBVIOUS
    <2>5. \A k \in 1..(n + 1) : events[k].mask = {}
      BY <2>1
    <2> QED
      BY <2>1, <2>3, <2>4, <2>5 DEF Heard
  <1> QED
    BY <1>3, <1>4

\* That is what EachEventTold says.
LEMMA HeardTold ==
  ASSUME NEW n \in Nat, n = Events!Walked, told \in Seq(KindSet), Heard(happened, n, told)
  PROVE  Events!EachEventTold
  <1>1. PICK first \in 1..(n + 1) :
          /\ \A k \in 1..(first - 1) : happened[k].mask = {}
          /\ first <= n => happened[first].mask # {}
          /\ Len(told) = n + 1 - first
          /\ \A j \in 1..Len(told) : \E k \in first..(first + j - 1) :
               /\ happened[k].mask = {told[j]}
               /\ \A l \in (k + 1)..(first + j - 1) : happened[l].mask = {}
    BY DEF Heard
  <1>2. Events!Watched = {k \in 1..n : happened[k].mask # {}}
    BY DEF Events!Watched
  <1>3. DOMAIN told = 1..Len(told) /\ Len(told) \in Nat
    BY LenProperties
  <1>4. \A k \in Events!Watched : k \in first..n /\ k \in 1..n /\ happened[k].mask # {}
    <2>1. \A k \in 1..n : happened[k].mask # {} => ~(k \in 1..(first - 1))
      BY <1>1
    <2> QED
      BY <1>2, <2>1
  <1>5. PICK line : line = [k \in Events!Watched |-> k + 1 - first]
    OBVIOUS
  <1>6. ASSUME NEW k \in Events!Watched
        PROVE  line[k] \in 1..Len(told) /\ happened[k].mask = {told[line[k]]}
    <2>1. line[k] = k + 1 - first /\ k + 1 - first \in 1..Len(told)
          /\ first + (k + 1 - first) - 1 = k
      BY <1>1, <1>4, <1>5
    <2>2. PICK m \in first..k : /\ happened[m].mask = {told[line[k]]}
                               /\ \A l \in (m + 1)..k : happened[l].mask = {}
      BY <1>1, <2>1
    <2>3. ~(k \in (m + 1)..k)
      BY <1>4, <2>2
    <2>4. m = k
      BY <1>4, <2>2, <2>3
    <2> QED
      BY <2>1, <2>2, <2>4
  <1>7. \A k, l \in Events!Watched : k < l => line[k] < line[l]
    BY <1>1, <1>4, <1>5
  <1>8. line \in [Events!Watched -> DOMAIN told]
    BY <1>3, <1>5, <1>6
  <1>9. Len(told) <= Events!Walked
    BY <1>1, <1>3
  <1> QED
    BY <1>6, <1>7, <1>8, <1>9 DEF Events!EachEventTold

EventTaken == Len(happened) - Len(pending)

\* The rest of the buffer holds the events the program has not been through.
Behind(at) ==
    /\ at[Events!Walked] = pointer /\ at[EventTaken] = Len(buffer)
    /\ \A k \in Events!Walked..EventTaken : at[k] \in 0..Len(buffer)
    /\ \A k \in (Events!Walked + 1)..EventTaken :
         /\ buffer[at[k - 1] + 1] = happened[k]
         /\ at[k] = at[k - 1] + 1 + happened[k].len
         /\ \A i \in (at[k - 1] + 2)..at[k] : buffer[i] = <<>>

EventQueue ==
    /\ Events!Walked \in 0..EventTaken
    /\ \A k \in 1..Len(happened) :
         happened[k].mask = {} \/ \E kind \in KindSet : happened[k].mask = {kind}
    /\ \A k \in 1..Len(pending) : pending[k] = happened[EventTaken + k]
    /\ watch = "read" => pointer = Len(buffer)

EventIInv ==
    /\ Events!TypeOK
    /\ EventQueue
    /\ \E at : Behind(at)
    /\ Heard(happened, Events!Walked, told)
    /\ Said(happened, Events!Walked, message)

LEMMA EventSteps ==
  ASSUME [IpcNext]_ipcVars
  PROVE  \/ Events!Read \/ Events!Walk \/ Events!EndOfWalk \/ Events!Kernel
         \/ UNCHANGED eventVars
  <1> USE DEF Only, ipcVars
  <1>1. CASE MainStep
    BY <1>1 DEF MainStep, Events!Program
  <1>2. CASE OtherStep
    BY <1>2 DEF OtherStep
  <1>3. CASE \E r \in Runs : RunStep(r)
    BY <1>3 DEF RunStep
  <1>4. CASE Optional
    BY <1>4 DEF Optional
  <1>5. CASE Ended
    BY <1>5 DEF Ended, Events!Over, eventVars, Events!eventVars
  <1>6. CASE UNCHANGED ipcVars
    BY <1>6
  <1> QED
    BY <1>1, <1>2, <1>3, <1>4, <1>5, <1>6 DEF IpcNext

\* The types once more, in the forms the steps need them.
LEMMA EventFacts ==
  ASSUME EventIInv
  PROVE  /\ Len(happened) \in Nat /\ Len(pending) \in Nat /\ Len(buffer) \in Nat
         /\ pointer \in Nat /\ pointer <= Len(buffer)
         /\ EventTaken \in Nat /\ Events!Walked \in Nat /\ Events!Walked <= EventTaken
         /\ Len(happened) = EventTaken + Len(pending)
         /\ pending \in Seq(Events!Events) /\ happened \in Seq(Events!Events)
         /\ buffer \in Seq(EventUnits) /\ told \in Seq(KindSet)
         /\ IsFiniteSet(Events!Headers)
         /\ Events!Walked = EventTaken - Cardinality(Events!Headers)
         /\ Cardinality(Events!Headers) \in Nat
  <1>1. /\ pending \in Seq(Events!Events) /\ happened \in Seq(Events!Events)
        /\ buffer \in Seq(EventUnits) /\ told \in Seq(KindSet)
        /\ pointer \in 0..Len(buffer)
    BY KindsOfMask DEF EventIInv, Events!TypeOK, EventUnits
  <1>2. Len(happened) \in Nat /\ Len(pending) \in Nat /\ Len(buffer) \in Nat
    BY <1>1, LenProperties
  <1>3. Events!Walked \in 0..EventTaken
    BY DEF EventIInv, EventQueue
  <1>4. IsFiniteSet(Events!Headers)
    <2>1. Events!Headers \in SUBSET ((pointer + 1)..Len(buffer))
      BY DEF Events!Headers
    <2>2. pointer + 1 \in Int /\ Len(buffer) \in Int
      BY <1>1, <1>2
    <2> QED
      BY <2>1, <2>2, FS_Interval, FS_Subset
  <1>5. Cardinality(Events!Headers) \in Nat
    BY <1>4, FS_CardinalityType
  <1>6. Events!Walked = EventTaken - Cardinality(Events!Headers)
    BY SameCardinality DEF Events!Walked, EventTaken
  <1>7. EventTaken \in Int /\ Len(happened) = EventTaken + Len(pending)
    BY <1>2 DEF EventTaken
  <1>8. EventTaken \in Nat /\ Events!Walked \in Nat /\ Events!Walked <= EventTaken
    BY <1>3, <1>7
  <1> QED
    BY <1>1, <1>2, <1>4, <1>5, <1>6, <1>7, <1>8

LEMMA EventInitIInv == IpcInit => EventIInv
  <1> SUFFICES ASSUME Events!Init PROVE EventIInv
    BY DEF IpcInit
  <1>1. /\ watch = "read" /\ pending = <<>> /\ happened = <<>> /\ buffer = <<>>
        /\ pointer = 0 /\ message \in {Events!Unset, Events!Null} /\ told = <<>>
    BY DEF Events!Init
  <1>2. \A S : <<>> \in Seq(S) /\ Len(<<>>) = 0
    BY EmptySeq
  <1>3. Events!TypeOK
    BY <1>1, <1>2, EventAssumption DEF Events!TypeOK
  <1>4. Events!Walked = 0 /\ EventTaken = 0
    <2>1. Events!Headers = {}
      BY <1>1, <1>2 DEF Events!Headers
    <2>2. Cardinality({}) = 0
      BY FS_EmptySet
    <2> QED
      BY <1>1, <1>2, <2>1, <2>2, SameCardinality DEF Events!Walked, EventTaken
  <1>5. EventQueue
    BY <1>1, <1>2, <1>4 DEF EventQueue
  <1>6. Behind([k \in {0} |-> 0])
    BY <1>1, <1>2, <1>4 DEF Behind
  <1>7. Heard(happened, 0, told)
    <2>1. 1 \in 1..(0 + 1) /\ ~(1 <= 0) /\ Len(told) = 0 + 1 - 1
          /\ \A k \in 1..(1 - 1) : FALSE
      BY <1>1, <1>2
    <2>2. \A j \in 1..Len(told) : FALSE
      BY <1>1, <1>2
    <2> QED
      BY <2>1, <2>2 DEF Heard
  <1>8. Said(happened, 0, message)
    BY <1>1 DEF Said
  <1> QED
    BY <1>3, <1>4, <1>5, <1>6, <1>7, <1>8 DEF EventIInv

\* What has been heard does not depend on the events that follow.
LEMMA HeardSame ==
  ASSUME NEW events, NEW later, NEW n \in Nat, \A k \in 1..n : later[k] = events[k],
         NEW lines \in Seq(KindSet), NEW words,
         Heard(events, n, lines), Said(events, n, words)
  PROVE  Heard(later, n, lines) /\ Said(later, n, words)
  <1>1. PICK first \in 1..(n + 1) :
          /\ \A k \in 1..(first - 1) : events[k].mask = {}
          /\ first <= n => events[first].mask # {}
          /\ Len(lines) = n + 1 - first
          /\ \A j \in 1..Len(lines) : \E k \in first..(first + j - 1) :
               /\ events[k].mask = {lines[j]}
               /\ \A l \in (k + 1)..(first + j - 1) : events[l].mask = {}
    BY DEF Heard
  <1>2. \A k \in 1..(first - 1) : later[k].mask = {}
    BY <1>1
  <1>3. first <= n => later[first].mask # {}
    BY <1>1
  <1>4. ASSUME NEW j \in 1..Len(lines)
        PROVE  \E k \in first..(first + j - 1) :
                 /\ later[k].mask = {lines[j]}
                 /\ \A l \in (k + 1)..(first + j - 1) : later[l].mask = {}
    <2>1. PICK k \in first..(first + j - 1) :
                 /\ events[k].mask = {lines[j]}
                 /\ \A l \in (k + 1)..(first + j - 1) : events[l].mask = {}
      BY <1>1
    <2>2. first + j - 1 <= n /\ first + j - 1 \in Int
      <3>1. Len(lines) \in Nat
        BY LenProperties
      <3> QED
        BY <1>1, <3>1
    <2>3. k \in 1..n /\ \A l \in (k + 1)..(first + j - 1) : l \in 1..n
      BY <2>2
    <2> QED
      BY <2>1, <2>3
  <1>5. Heard(later, n, lines)
    BY <1>1, <1>2, <1>3, <1>4 DEF Heard
  <1>6. Said(later, n, words)
    <2>1. \A k \in 1..n : \A l \in (k + 1)..n : l \in 1..n
      OBVIOUS
    <2> QED
      BY <2>1 DEF Said
  <1> QED
    BY <1>5, <1>6

\* An event enters the queue.
LEMMA EventEnters ==
  ASSUME EventIInv, NEW event \in Events!Events,
         event.mask = {} \/ \E kind \in KindSet : event.mask = {kind},
         pending' = Append(pending, event), happened' = Append(happened, event),
         UNCHANGED <<watch, buffer, pointer, message, told>>
  PROVE  EventIInv'
  <1>1. /\ Len(happened) \in Nat /\ Len(pending) \in Nat
        /\ EventTaken \in Nat /\ Events!Walked \in Nat /\ Events!Walked <= EventTaken
        /\ Len(happened) = EventTaken + Len(pending)
        /\ pending \in Seq(Events!Events) /\ happened \in Seq(Events!Events)
        /\ told \in Seq(KindSet)
    BY EventFacts
  <1>2. /\ pending' \in Seq(Events!Events) /\ Len(pending') = Len(pending) + 1
        /\ \A k \in 1..Len(pending) : pending'[k] = pending[k]
        /\ pending'[Len(pending) + 1] = event
    BY <1>1, AppendProperties
  <1>3. /\ happened' \in Seq(Events!Events) /\ Len(happened') = Len(happened) + 1
        /\ \A k \in 1..Len(happened) : happened'[k] = happened[k]
        /\ happened'[Len(happened) + 1] = event
    BY <1>1, AppendProperties
  <1>4. EventTaken' = EventTaken
    BY <1>1, <1>2, <1>3 DEF EventTaken
  <1>5. Events!Walked' = Events!Walked
    <2>1. Events!Headers' = Events!Headers
      BY DEF Events!Headers
    <2>2. /\ Events!Walked = EventTaken - Cardinality(Events!Headers)
          /\ Events!Walked' = EventTaken' - Cardinality(Events!Headers')
      BY SameCardinality DEF Events!Walked, EventTaken
    <2> QED
      BY <1>4, <2>1, <2>2
  <1>6. Events!TypeOK'
    BY <1>2, <1>3 DEF EventIInv, Events!TypeOK
  <1>7. EventQueue'
    <2>1. \A k \in 1..Len(happened') : k \in 1..Len(happened) \/ k = Len(happened) + 1
      BY <1>1, <1>3
    <2>2. \A k \in 1..Len(happened') :
            happened'[k].mask = {} \/ \E kind \in KindSet : happened'[k].mask = {kind}
      BY <1>3, <2>1 DEF EventIInv, EventQueue
    <2>3. ASSUME NEW k \in 1..Len(pending') PROVE pending'[k] = happened'[EventTaken + k]
      <3>1. CASE k = Len(pending) + 1
        <4>1. EventTaken + k = Len(happened) + 1
          BY <1>1, <3>1
        <4> QED
          BY <1>2, <1>3, <3>1, <4>1
      <3>2. CASE k # Len(pending) + 1
        <4>1. k \in 1..Len(pending) /\ EventTaken + k \in 1..Len(happened)
          BY <1>1, <1>2, <3>2
        <4> QED
          BY <1>2, <1>3, <4>1 DEF EventIInv, EventQueue
      <3> QED
        BY <3>1, <3>2
    <2> QED
      BY <1>4, <1>5, <2>2, <2>3 DEF EventIInv, EventQueue
  <1>8. \E at : Behind(at)'
    <2>1. PICK at : Behind(at)
      BY DEF EventIInv
    <2>2. \A k \in (Events!Walked + 1)..EventTaken : happened'[k] = happened[k]
      BY <1>1, <1>3
    <2>3. Behind(at)'
      BY <1>4, <1>5, <2>1, <2>2 DEF Behind
    <2> QED
      BY <2>3
  <1>9. Heard(happened', Events!Walked, told) /\ Said(happened', Events!Walked, message)
    <2>1. \A k \in 1..Events!Walked : happened'[k] = happened[k]
      BY <1>1, <1>3
    <2> QED
      BY <1>1, <2>1, HeardSame DEF EventIInv
  <1> QED
    BY <1>5, <1>6, <1>7, <1>8, <1>9 DEF EventIInv

LEMMA EventKernel ==
  ASSUME EventIInv, Events!Kernel
  PROVE  EventIInv'
  <1>1. PICK kind \in {"created", "deleted", "modified", "closed", "none"}, len \in 0..1 :
          Events!Happens(kind, len)
    BY DEF Events!Kernel
  <1> DEFINE event == IF Len(pending) >= QueueRoom
                      THEN [mask |-> {}, len |-> 0]
                      ELSE [mask |-> Events!Mask(kind), len |-> len]
  <1>2. /\ pending' = Append(pending, event) /\ happened' = Append(happened, event)
        /\ UNCHANGED <<watch, buffer, pointer, message, told>>
    BY <1>1 DEF Events!Happens
  <1>3. /\ Events!Mask(kind) \in SUBSET KindSet
        /\ Events!Mask(kind) = {} \/ \E k \in KindSet : Events!Mask(kind) = {k}
    BY DEF Events!Mask, KindSet
  <1>4. /\ event \in Events!Events
        /\ event.mask = {} \/ \E k \in KindSet : event.mask = {k}
    BY <1>3, KindsOfMask DEF Events!Events
  <1> HIDE DEF event
  <1> QED
    BY <1>2, <1>4, EventEnters

\* The event that the pointer is at.
LEMMA EventWalks ==
  ASSUME EventIInv, Events!Walk
  PROVE  EventIInv'
  <1> DEFINE n == Events!Walked   e == happened[Events!Walked + 1]
  <1>1. /\ Len(happened) \in Nat /\ Len(pending) \in Nat /\ Len(buffer) \in Nat
        /\ pointer \in Nat /\ pointer <= Len(buffer)
        /\ EventTaken \in Nat /\ n \in Nat /\ n <= EventTaken
        /\ Len(happened) = EventTaken + Len(pending)
        /\ happened \in Seq(Events!Events) /\ told \in Seq(KindSet)
        /\ IsFiniteSet(Events!Headers)
        /\ n = EventTaken - Cardinality(Events!Headers)
        /\ Cardinality(Events!Headers) \in Nat
    BY EventFacts
  <1>2. /\ watch = "walk" /\ pointer < Len(buffer)
        /\ message' = Events!Chosen(buffer[pointer + 1].mask)
        /\ pending' = pending /\ happened' = happened /\ buffer' = buffer
        /\ IF message' = Events!Unset
           THEN watch' = "crashed" /\ pointer' = pointer /\ told' = told
           ELSE /\ pointer' = pointer + 1 + buffer[pointer + 1].len
                /\ told' = IF message' = Events!Null THEN told ELSE Append(told, message')
                /\ watch' = watch
    BY DEF Events!Walk, Events!watchEvent, Events!Advance
  <1>3. PICK at : Behind(at)
    BY DEF EventIInv
  <1>4. n < EventTaken /\ n + 1 \in (n + 1)..EventTaken /\ n + 1 \in 1..Len(happened)
    <2>1. n # EventTaken
      BY <1>2, <1>3 DEF Behind
    <2> QED
      BY <1>1, <2>1
  <1>5. /\ buffer[pointer + 1] = e /\ at[n + 1] = pointer + 1 + e.len
        /\ \A i \in (pointer + 2)..at[n + 1] : buffer[i] = <<>>
        /\ at[n + 1] \in 0..Len(buffer)
    <2>1. (n + 1) - 1 = n /\ n + 1 \in n..EventTaken
      BY <1>1, <1>4
    <2> QED
      BY <1>3, <1>4, <2>1 DEF Behind
  <1>6. e \in Events!Events /\ (e.mask = {} \/ \E kind \in KindSet : e.mask = {kind})
    BY <1>1, <1>4, ElementOfSeq DEF EventIInv, EventQueue
  <1>7. e.len \in 0..1 /\ e # <<>>
    BY <1>6, UnitOf
  <1>8. \/ e.mask = {} /\ message' = message
        \/ message' \in KindSet /\ e.mask = {message'}
    <2>1. CASE e.mask = {}
      BY <1>2, <1>5, <2>1 DEF Events!Chosen
    <2>2. ASSUME NEW kind \in KindSet, e.mask = {kind} PROVE message' = kind
      BY <1>2, <1>5, <2>2, ChosenIs
    <2> QED
      BY <1>6, <2>1, <2>2
  <1>9. Said(happened, n, message) /\ Heard(happened, n, told)
    BY DEF EventIInv
  <1>10. EventTaken' = EventTaken
    BY <1>2 DEF EventTaken
  <1>11. message' \in KindSet \union {Events!Unset, Events!Null}
    BY <1>8, KindsOfMask DEF EventIInv, Events!TypeOK
  <1> HIDE DEF n, e
  <1>12. CASE message' = Events!Unset
    <2>1. message' = message /\ watch' = "crashed" /\ pointer' = pointer /\ told' = told
      BY <1>2, <1>8, <1>12, KindsOfMask
    <2>2. Events!Walked' = Events!Walked
      BY <1>2, <2>1 DEF Events!Walked, Events!Headers
    <2>3. Events!TypeOK'
      BY <1>2, <2>1 DEF EventIInv, Events!TypeOK
    <2>4. EventQueue'
      BY <1>2, <1>10, <2>1, <2>2 DEF EventIInv, EventQueue
    <2>5. Behind(at)'
      BY <1>2, <1>3, <1>10, <2>1, <2>2 DEF Behind
    <2> QED
      BY <1>2, <2>1, <2>2, <2>3, <2>4, <2>5 DEF EventIInv
  <1>13. CASE message' # Events!Unset
    <2>1. /\ pointer' = at[n + 1] /\ pointer' \in 0..Len(buffer) /\ watch' = "walk"
          /\ told' = IF message' = Events!Null THEN told ELSE Append(told, message')
      BY <1>2, <1>5, <1>13
    <2>2. told' \in Seq(KindSet)
      BY <1>1, <1>11, <1>13, <2>1, AppendProperties
    <2>3. Events!Headers' = Events!Headers \ {pointer + 1} /\ pointer + 1 \in Events!Headers
      <3>1. pointer + 1 \in (pointer + 1)..Len(buffer)
        BY <1>1, <1>2
      <3>2. \A i \in (pointer + 1)..Len(buffer) :
               \/ i = pointer + 1
               \/ i \in (pointer + 2)..pointer'
               \/ i \in (pointer' + 1)..Len(buffer)
        BY <1>1, <2>1, SMTT(60)
      <3>3. pointer' \in Nat /\ pointer + 1 <= pointer'
        BY <1>1, <1>5, <1>7, <2>1, SMTT(60)
      <3>4. \A i \in (pointer' + 1)..Len(buffer) :
               i \in (pointer + 1)..Len(buffer) /\ i # pointer + 1
        <4>1. pointer \in Nat /\ Len(buffer) \in Nat
          BY <1>1
        <4>2. \A p, q, m \in Nat : p + 1 <= q =>
                \A i \in (q + 1)..m : i \in (p + 1)..m /\ i # p + 1
          OBVIOUS
        <4> QED
          BY <3>3, <4>1, <4>2
      <3> QED
        BY <1>2, <1>5, <1>7, <2>1, <3>1, <3>2, <3>4 DEF Events!Headers
    <2>4. Cardinality(Events!Headers') = Cardinality(Events!Headers) - 1
      BY <1>1, <2>3, FS_RemoveElement
    <2>5. Events!Walked' = n + 1
      <3>1. Events!Walked' = EventTaken' - Cardinality(Events!Headers')
        BY SameCardinality DEF Events!Walked, EventTaken
      <3> QED
        BY <1>1, <1>10, <2>4, <3>1
    <2>6. Events!TypeOK'
      BY <1>2, <1>11, <2>1, <2>2, KindsOfMask DEF EventIInv, Events!TypeOK
    <2>7. EventQueue'
      <3>1. n + 1 \in 0..EventTaken
        BY <1>1, <1>4
      <3> QED
        BY <1>2, <1>10, <2>1, <2>5, <3>1 DEF EventIInv, EventQueue
    <2>8. Behind(at)'
      <3>1. /\ \A k \in (n + 1)..EventTaken : k \in n..EventTaken
            /\ \A k \in ((n + 1) + 1)..EventTaken : k \in (n + 1)..EventTaken
        BY <1>1, SMTT(60)
      <3> QED
        BY <1>2, <1>3, <1>10, <2>1, <2>5, <3>1 DEF Behind, n
    <2>9. Heard(happened, n + 1, told')
      <3> DEFINE next == message'
      <3>1. /\ next # Events!Unset
            /\ \/ happened[n + 1].mask = {} /\ next = message
               \/ next \in KindSet /\ happened[n + 1].mask = {next}
        BY <1>8, <1>13 DEF e, n
      <3>2. n \in Nat /\ told \in Seq(KindSet)
        BY <1>1
      <3> HIDE DEF next
      <3>3. Heard(happened, n + 1, IF next = Events!Null THEN told ELSE Append(told, next))
        BY <1>9, <3>1, <3>2, HeardMore
      <3> QED
        BY <2>1, <3>3 DEF next
    <2>10. Said(happened, n + 1, message')
      <3>1. \A k \in 1..(n + 1) : k = n + 1 \/ k \in 1..n
        BY <1>1, SMTT(60)
      <3>2. \A k \in 1..n : /\ k \in 1..(n + 1)
                            /\ \A l \in (k + 1)..(n + 1) : l = n + 1 \/ l \in (k + 1)..n
        BY <1>1
      <3>3. n + 1 \in 1..(n + 1) /\ \A l \in ((n + 1) + 1)..(n + 1) : FALSE
        BY <1>1, SMTT(60)
      <3>4. CASE e.mask = {} /\ message' = message
        <4>1. CASE \A k \in 1..n : happened[k].mask = {}
          <5>1. \A k \in 1..(n + 1) : happened[k].mask = {}
            BY <3>1, <3>4, <4>1 DEF e, n
          <5>2. message \in {Events!Unset, Events!Null}
            BY <1>9, <4>1 DEF Said
          <5> QED
            BY <3>4, <5>1, <5>2 DEF Said
        <4>2. CASE ~ \A k \in 1..n : happened[k].mask = {}
          <5>1. PICK k \in 1..n : /\ message \in KindSet /\ happened[k].mask = {message}
                                  /\ \A l \in (k + 1)..n : happened[l].mask = {}
            BY <1>9, <4>2 DEF Said
          <5>2. \A l \in (k + 1)..(n + 1) : happened[l].mask = {}
            BY <3>2, <3>4, <5>1 DEF e, n
          <5> QED
            BY <3>2, <3>4, <5>1, <5>2 DEF Said
        <4> QED
          BY <4>1, <4>2
      <3>5. CASE message' \in KindSet /\ e.mask = {message'}
        BY <3>3, <3>5 DEF Said, e, n
      <3> QED
        BY <1>8, <3>4, <3>5
    <2> QED
      BY <1>2, <2>5, <2>6, <2>7, <2>8, <2>9, <2>10 DEF EventIInv
  <1> QED
    BY <1>12, <1>13

\* As many events as fit.
LEMMA EventReads ==
  ASSUME EventIInv, Events!Read
  PROVE  EventIInv'
  <1> DEFINE fitting == {n \in 1..Len(pending) : Events!Fits(n)}
             taken == Events!Max(fitting)
             read == SubSeq(pending, 1, taken)
  <1>1. /\ Len(happened) \in Nat /\ Len(pending) \in Nat /\ Len(buffer) \in Nat
        /\ EventTaken \in Nat /\ Events!Walked \in Nat
        /\ Len(happened) = EventTaken + Len(pending)
        /\ pending \in Seq(Events!Events) /\ happened \in Seq(Events!Events)
        /\ told \in Seq(KindSet)
        /\ Events!Walked = EventTaken - Cardinality(Events!Headers)
    BY EventFacts
  <1>2. /\ watch = "read" /\ pending # <<>>
        /\ buffer' = Events!Units(read) /\ pending' = SubSeq(pending, taken + 1, Len(pending))
        /\ pointer' = 0 /\ watch' = "walk"
        /\ happened' = happened /\ message' = message /\ told' = told
    BY DEF Events!Read
  <1>3. \A n \in 0..Len(pending) :
          /\ SubSeq(pending, 1, n) \in Seq(Events!Events) /\ Len(SubSeq(pending, 1, n)) = n
          /\ \A k \in 1..n : SubSeq(pending, 1, n)[k] = pending[k]
    <2> SUFFICES ASSUME NEW n \in 0..Len(pending)
                 PROVE  /\ SubSeq(pending, 1, n) \in Seq(Events!Events)
                        /\ Len(SubSeq(pending, 1, n)) = n
                        /\ \A k \in 1..n : SubSeq(pending, 1, n)[k] = pending[k]
      OBVIOUS
    <2>1. n \in Nat /\ \A k \in 1..n : k \in 1..Len(pending)
      BY <1>1
    <2>2. \A k \in 1..n : pending[k] \in Events!Events
      BY <1>1, <2>1, ElementOfSeq
    <2> QED
      BY <2>1, <2>2, SubSeqProperties
  <1>4. 1 \in fitting
    <2>1. Len(pending) # 0 /\ 1 \in 0..Len(pending) /\ 1 \in 1..Len(pending)
      BY <1>1, <1>2, EmptySeq
    <2> DEFINE one == SubSeq(pending, 1, 1)
    <2>2. one \in Seq(Events!Events) /\ Len(one) = 1
      BY <1>3, <2>1
    <2> HIDE DEF one
    <2>3. PICK at : /\ at[0] = 0 /\ at[1] = Len(Events!Units(one))
                    /\ LaidIn(Events!Units(one), at, one, 1)
      BY <2>2, UnitsOf
    <2>4. at[1] = at[0] + 1 + one[1].len
      <3>1. 1 \in 1..1 /\ 1 - 1 = 0
        OBVIOUS
      <3> QED
        BY <2>3, <3>1 DEF LaidIn
    <2>5. one[1].len \in 0..1
      BY <2>2, ElementOfSeq, UnitOf
    <2>6. Len(Events!Units(one)) <= BufferSize
      BY <2>3, <2>4, <2>5, EventAssumption
    <2> QED
      BY <2>1, <2>6 DEF Events!Fits, one
  <1>5. taken \in 1..Len(pending) /\ Events!Fits(taken)
    <2>1. fitting \subseteq 1..Len(pending) /\ fitting # {}
      BY <1>4
    <2>2. taken \in fitting
      BY <1>1, <2>1, LargestNumber
    <2> QED
      BY <2>2
  <1> HIDE DEF taken
  <1>6. /\ taken \in Nat /\ taken \in 0..Len(pending)
        /\ read \in Seq(Events!Events) /\ Len(read) = taken
        /\ \A k \in 1..taken : read[k] = pending[k]
    BY <1>1, <1>3, <1>5
  <1>7. Len(Events!Units(read)) <= BufferSize
    BY <1>5 DEF Events!Fits
  <1> HIDE DEF read
  <1>8. /\ buffer' \in Seq(EventUnits) /\ Cardinality(HeadersIn(buffer')) = taken
        /\ \E at : /\ at[0] = 0 /\ at[taken] = Len(buffer')
                   /\ \A k \in 0..taken : at[k] \in 0..Len(buffer')
                   /\ LaidIn(buffer', at, read, taken)
    BY <1>2, <1>6, UnitsOf
  <1>9. /\ pending' \in Seq(Events!Events) /\ Len(pending') = Len(pending) - taken
        /\ \A k \in 1..(Len(pending) - taken) : pending'[k] = pending[taken + k]
    <2>1. \A k \in (taken + 1)..Len(pending) : pending[k] \in Events!Events
      BY <1>1, <1>6, ElementOfSeq
    <2>2. taken + 1 \in Int /\ Len(pending) \in Int
      BY <1>1, <1>6
    <2> DEFINE rest == SubSeq(pending, taken + 1, Len(pending))
    <2>3. /\ rest \in Seq(Events!Events)
          /\ Len(rest) = IF taken + 1 <= Len(pending)
                         THEN Len(pending) - (taken + 1) + 1 ELSE 0
          /\ \A k \in 1..(Len(pending) - (taken + 1) + 1) :
               rest[k] = pending[(taken + 1) + k - 1]
      BY <2>1, <2>2, SubSeqProperties
    <2>4. /\ Len(pending) - (taken + 1) + 1 = Len(pending) - taken
          /\ (~(taken + 1 <= Len(pending)) => Len(pending) - taken = 0)
          /\ \A k \in 1..(Len(pending) - taken) : (taken + 1) + k - 1 = taken + k
      BY <1>1, <1>5, <1>6
    <2> HIDE DEF rest
    <2> QED
      BY <1>2, <2>3, <2>4 DEF rest
  <1>10. EventTaken' = EventTaken + taken
    <2>1. EventTaken' = Len(happened) - Len(pending')
      BY <1>2 DEF EventTaken
    <2>2. /\ Len(happened) \in Nat /\ Len(pending) \in Nat /\ taken \in Nat
          /\ EventTaken \in Nat
          /\ Len(happened) = EventTaken + Len(pending) /\ Len(pending') = Len(pending) - taken
      BY <1>1, <1>6, <1>9
    <2> QED
      BY <2>1, <2>2
  <1>11. Events!Walked = EventTaken
    <2>1. pointer = Len(buffer)
      BY <1>2 DEF EventIInv, EventQueue
    <2>2. Events!Headers = {}
      BY <1>1, <2>1 DEF Events!Headers
    <2> QED
      BY <1>1, <2>2, FS_EmptySet
  <1>12. Events!Walked' = Events!Walked
    <2>1. Events!Headers' = HeadersIn(buffer')
      BY <1>2 DEF Events!Headers, HeadersIn
    <2>2. Events!Walked' = EventTaken' - Cardinality(Events!Headers')
      BY SameCardinality DEF Events!Walked, EventTaken
    <2> QED
      BY <1>1, <1>6, <1>8, <1>10, <1>11, <2>1, <2>2
  <1>13. Events!TypeOK'
    <2>1. Len(buffer') \in Nat
      BY <1>8, LenProperties
    <2>2. Len(buffer') <= BufferSize /\ pointer' \in 0..Len(buffer')
      BY <1>2, <1>7, <2>1
    <2>3. buffer' \in Seq(Events!Events \union {<<>>})
      BY <1>8 DEF EventUnits
    <2> QED
      BY <1>2, <1>9, <2>2, <2>3 DEF EventIInv, Events!TypeOK
  <1>14. EventQueue'
    <2>1. Events!Walked' \in 0..EventTaken'
      BY <1>1, <1>6, <1>10, <1>11, <1>12
    <2>2. ASSUME NEW k \in 1..Len(pending') PROVE pending'[k] = happened[EventTaken + taken + k]
      <3>1. k \in 1..(Len(pending) - taken) /\ taken + k \in 1..Len(pending)
            /\ EventTaken + (taken + k) = EventTaken + taken + k
        BY <1>1, <1>6, <1>9
      <3>2. pending[taken + k] = happened[EventTaken + (taken + k)]
        BY <3>1 DEF EventIInv, EventQueue
      <3> QED
        BY <1>9, <3>1, <3>2
    <2> QED
      BY <1>2, <1>10, <2>1, <2>2 DEF EventIInv, EventQueue
  <1>15. \E at : Behind(at)'
    <2>1. PICK at0 : /\ at0[0] = 0 /\ at0[taken] = Len(buffer')
                     /\ \A k \in 0..taken : at0[k] \in 0..Len(buffer')
                     /\ LaidIn(buffer', at0, read, taken)
      BY <1>8
    <2> DEFINE n == EventTaken
    <2>2. PICK at : at = [k \in n..(n + taken) |-> at0[k - n]]
      OBVIOUS
    <2>3. \A k \in n..(n + taken) : at[k] = at0[k - n] /\ k - n \in 0..taken
      BY <1>1, <1>6, <2>2
    <2>4. /\ n \in n..(n + taken) /\ n - n = 0 /\ n + taken \in n..(n + taken)
          /\ (n + taken) - n = taken
      BY <1>1, <1>6
    <2>5. at[n] = pointer' /\ at[n + taken] = Len(buffer')
      BY <1>2, <2>1, <2>3, <2>4
    <2>6. \A k \in n..(n + taken) : at[k] \in 0..Len(buffer')
      BY <2>1, <2>3
    <2>7. ASSUME NEW k \in (n + 1)..(n + taken)
          PROVE  /\ buffer'[at[k - 1] + 1] = happened[k]
                 /\ at[k] = at[k - 1] + 1 + happened[k].len
                 /\ \A i \in (at[k - 1] + 2)..at[k] : buffer'[i] = <<>>
      <3>1. /\ k - n \in 1..taken /\ k - n \in 1..Len(pending) /\ n + (k - n) = k
            /\ k \in n..(n + taken) /\ k - 1 \in n..(n + taken)
            /\ (k - 1) - n = (k - n) - 1
        BY <1>1, <1>6
      <3>2. /\ buffer'[at0[(k - n) - 1] + 1] = read[k - n]
            /\ at0[k - n] = at0[(k - n) - 1] + 1 + read[k - n].len
            /\ \A i \in (at0[(k - n) - 1] + 2)..at0[k - n] : buffer'[i] = <<>>
        BY <2>1, <3>1 DEF LaidIn
      <3>3. read[k - n] = happened[k]
        <4>1. pending[k - n] = happened[n + (k - n)]
          BY <3>1 DEF EventIInv, EventQueue
        <4> QED
          BY <1>6, <3>1, <4>1
      <3>4. at[k] = at0[k - n] /\ at[k - 1] = at0[(k - n) - 1]
        BY <2>3, <3>1
      <3> QED
        BY <3>2, <3>3, <3>4
    <2>8. Behind(at)'
      <3>1. Events!Walked' = n /\ EventTaken' = n + taken
        BY <1>10, <1>11, <1>12
      <3> HIDE DEF n
      <3> QED
        BY <1>2, <2>5, <2>6, <2>7, <3>1 DEF Behind
    <2> QED
      BY <2>8
  <1> QED
    BY <1>2, <1>12, <1>13, <1>14, <1>15 DEF EventIInv

LEMMA EventStepIInv ==
  ASSUME EventIInv, [IpcNext]_ipcVars
  PROVE  EventIInv'
  <1>1. CASE Events!Read
    BY <1>1, EventReads
  <1>2. CASE Events!Walk
    BY <1>2, EventWalks
  <1>3. CASE Events!Kernel
    BY <1>3, EventKernel
  <1>4. CASE Events!EndOfWalk \/ UNCHANGED eventVars
    <2>1. /\ pending' = pending /\ happened' = happened /\ buffer' = buffer
          /\ pointer' = pointer /\ message' = message /\ told' = told
          /\ watch' = watch \/ (watch' = "read" /\ pointer >= Len(buffer))
      BY <1>4 DEF Events!EndOfWalk, eventVars
    <2>2. Events!Walked' = Events!Walked /\ EventTaken' = EventTaken
      BY <2>1 DEF Events!Walked, Events!Headers, EventTaken
    <2>3. Events!TypeOK'
      BY <2>1 DEF EventIInv, Events!TypeOK
    <2>4. EventQueue'
      <3>1. pointer \in Nat /\ Len(buffer) \in Nat /\ pointer <= Len(buffer)
        BY EventFacts
      <3>2. watch' = "read" => pointer' = Len(buffer')
        BY <2>1, <3>1 DEF EventIInv, EventQueue
      <3> QED
        BY <2>1, <2>2, <3>2 DEF EventIInv, EventQueue
    <2>5. \E at : Behind(at)'
      <3>1. PICK at : Behind(at)
        BY DEF EventIInv
      <3>2. Behind(at)'
        BY <2>1, <2>2, <3>1 DEF Behind
      <3> QED
        BY <3>2
    <2> QED
      BY <2>1, <2>2, <2>3, <2>4, <2>5 DEF EventIInv
  <1> QED
    BY <1>1, <1>2, <1>3, <1>4, EventSteps

\* However the events are divided among the calls of read(), whatever their names,
\* and however many fit in the buffer and in the queue, every event of a watched kind
\* is told by its own message, in order, and none is told twice.
THEOREM EventsTold == IpcSpec => []EachEventTold
  <1>1. EventIInv => EachEventTold
    <2> SUFFICES ASSUME EventIInv PROVE Events!EachEventTold
      BY DEF EachEventTold
    <2>1. Events!Walked \in Nat /\ told \in Seq(KindSet)
      BY EventFacts
    <2> QED
      BY <2>1, HeardTold DEF EventIInv
  <1> QED
    BY <1>1, EventInitIInv, EventStepIInv, PTL DEF IpcSpec

-----------------------------------------------------------------------------
(* AlarmSignal.c. *)

\* From alarm() on there is a timer, a signal on its way, or a handler that is
\* about to call alarm() again; and the handler runs only once it is installed.
AlarmIInv ==
    /\ Alarm!TypeOK
    /\ main = "alarm" => timer = Alarm!Off /\ ~pendingAlarm /\ handler = "out"
    /\ main \in {"sigaction", "pause"} =>
         timer > 0 \/ pendingAlarm \/ handler = "alarm"
    /\ handler # "out" => main = "pause"

LEMMA AlarmSteps ==
  ASSUME [IpcNext]_ipcVars
  PROVE  Alarm!Next \/ UNCHANGED alarmVars
  BY DEF IpcNext, MainStep, OtherStep, RunStep, Optional, Ended, Only, ipcVars, Alarm!Next

LEMMA AlarmInitIInv == IpcInit => AlarmIInv
  <1> SUFFICES ASSUME Alarm!Init PROVE AlarmIInv
    BY DEF IpcInit
  <1>1. -1 \in -1..Delay
    BY AlarmAssumption
  <1> QED
    BY <1>1 DEF Alarm!Init, AlarmIInv, Alarm!TypeOK, Alarm!Off

LEMMA AlarmStepIInv == AlarmIInv /\ [IpcNext]_ipcVars => AlarmIInv'
  <1> SUFFICES ASSUME AlarmIInv, [IpcNext]_ipcVars PROVE AlarmIInv'
    OBVIOUS
  <1> USE AlarmAssumption DEF AlarmIInv, Alarm!TypeOK, Alarm!Off
  <1>1. CASE Alarm!Alarm
    BY <1>1 DEF Alarm!Alarm
  <1>2. CASE Alarm!Sigaction
    BY <1>2 DEF Alarm!Sigaction
  <1>3. CASE Alarm!Deliver
    BY <1>3 DEF Alarm!Deliver
  <1>4. CASE Alarm!HandlerAlarm
    BY <1>4 DEF Alarm!HandlerAlarm
  <1>5. CASE Alarm!HandlerPrint
    BY <1>5 DEF Alarm!HandlerPrint
  <1>6. CASE Alarm!Tick
    <2>1. PICK left \in 0..(timer - 1) :
            /\ timer' = IF left = 0 THEN -1 ELSE left
            /\ pendingAlarm' = (pendingAlarm \/ left = 0)
      BY <1>6 DEF Alarm!Tick
    <2>2. main' = main /\ handler' = handler /\ main # "killed" /\ timer > 0
      BY <1>6 DEF Alarm!Tick
    <2>3. timer \in -1..Delay /\ main \in {"sigaction", "pause"}
      BY <2>2
    <2>4. timer' \in -1..Delay /\ pendingAlarm' \in BOOLEAN
      BY <2>1, <2>3
    <2>5. timer' > 0 \/ pendingAlarm'
      <3>1. CASE left = 0
        BY <2>1, <3>1, Zenon
      <3>2. CASE left # 0
        <4>1. timer' = left
          BY <2>1, <3>2
        <4> QED
          BY <2>3, <3>2, <4>1
      <3> QED
        BY <3>1, <3>2
    <2> QED
      BY <2>2, <2>3, <2>4, <2>5
  <1>7. CASE UNCHANGED alarmVars
    BY <1>7 DEF alarmVars
  <1> QED
    BY <1>1, <1>2, <1>3, <1>4, <1>5, <1>6, <1>7, AlarmSteps
    DEF Alarm!Next, Alarm!Process, Alarm!Over, Alarm!alarmVars, alarmVars

\* Whenever main is in pause(), whatever the argument of alarm(), and however slow
\* the process is, the next SIGALRM is set up, on its way, or about to be set up.
THEOREM AlarmNeverLost == IpcSpec => []AlarmKept
  <1>1. AlarmIInv => AlarmKept
    BY DEF AlarmIInv, AlarmKept, Alarm!Armed
  <1> QED
    BY <1>1, AlarmInitIInv, AlarmStepIInv, PTL DEF IpcSpec

-----------------------------------------------------------------------------
(* The types of all programs. *)

LEMMA SendTypes ==
  /\ IpcInit => SendIInv
  /\ SendIInv /\ [IpcNext]_ipcVars => SendIInv'
  /\ SendIInv => TypeOK
  <1>1. IpcInit => SendIInv
    BY SendInitIInv DEF IpcInit
  <1>2. ASSUME [IpcNext]_ipcVars PROVE [Next]_vars
    BY <1>2 DEF IpcNext, MainStep, OtherStep, RunStep, Optional, Ended, Only, ipcVars, Next
  <1> QED
    BY <1>1, <1>2, SendStepIInv DEF SendIInv

\* A queue is never longer than msgsnd() lets it become.
LEMMA QueueRoomKept ==
  /\ IpcInit => Len(queue) <= Room
  /\ QueueIInv /\ Len(queue) <= Room /\ [IpcNext]_ipcVars => (Len(queue) <= Room)'
  <1>1. ASSUME Queue!Init PROVE Len(queue) <= Room
    <2>1. queue = <<>> /\ Len(<<>>) = 0
      BY <1>1, EmptySeq DEF Queue!Init
    <2> QED
      BY <2>1, QueueAssumption
  <1>2. ASSUME QueueIInv, Len(queue) <= Room, [IpcNext]_ipcVars PROVE Len(queue') <= Room
    <2>1. queue \in Seq(Runs) /\ Len(queue) \in Nat /\ Room \in Nat
      BY <1>2, QueueAssumption, LenProperties DEF QueueIInv, QueueInv
    <2>2. CASE queue' = queue
      BY <1>2, <2>2
    <2>3. ASSUME NEW r \in Runs, Len(queue) < Room, queue' = Append(queue, r)
          PROVE  Len(queue') <= Room
      BY <2>1, <2>3, AppendProperties
    <2>4. CASE queue # <<>> /\ queue' = Tail(queue)
      <3>1. Len(queue') = Len(queue) - 1
        BY <2>1, <2>4, HeadTailProperties
      <3> QED
        BY <1>2, <2>1, <3>1
    <2>5. CASE queue' = <<>>
      <3>1. Len(queue') = 0
        BY <2>5, EmptySeq
      <3> QED
        BY <2>1, <3>1
    <2>6. CASE UNCHANGED queueVars
      BY <2>2, <2>6 DEF queueVars
    <2>7. ASSUME NEW r \in Runs, Queue!Step(r) \/ Queue!Kill(r) PROVE Len(queue') <= Room
      BY <2>2, <2>3, <2>4, <2>5, <2>7
      DEF Queue!Step, Queue!Parent, Queue!Kill, Queue!Get, Queue!GetFails, Queue!Fork,
          Queue!ForkFails, Queue!Send, Queue!Wait, Queue!Recv, Queue!RecvFails, Queue!Remove
    <2> QED
      BY <1>2, <2>6, <2>7, QueueSteps
  <1> QED
    BY <1>1, <1>2 DEF IpcInit


\* What RecordLocks' invariant leaves out of its type.
LocksHeld == full \in BOOLEAN /\ readLocks \subseteq Pair /\ writeLocks \subseteq Pair

LEMMA LocksHeldKept ==
  /\ IpcInit => LocksHeld
  /\ LocksHeld /\ [IpcNext]_ipcVars => LocksHeld'
  /\ LocksIInv /\ LocksHeld => Locks!TypeOK
  <1>1. IpcInit => LocksHeld
    BY DEF IpcInit, Locks!Init, LocksHeld
  <1>2. ASSUME LocksHeld, [IpcNext]_ipcVars PROVE LocksHeld'
    <2>1. CASE UNCHANGED lockVars
      BY <1>2, <2>1 DEF lockVars, LocksHeld
    <2>2. ASSUME NEW r \in Pair, Locks!Step(r) \/ Locks!Kill(r) PROVE LocksHeld'
      <3>1. CASE Locks!Parent(r) \/ Locks!Kill(r)
        BY <1>2, <3>1 DEF LocksHeld, Locks!Parent, Locks!Kill, Locks!Open, Locks!OpenFails,
           Locks!Write, Locks!Lock, Locks!LockFails, Locks!Fork, Locks!ForkFails, Locks!Wait,
           Locks!Unlock, Locks!Exit
      <3>2. CASE Locks!Child(r)
        BY <1>2, <3>2 DEF LocksHeld, Locks!Child, Locks!ReopenFails, Locks!Read,
           Locks!ChildLock, Locks!ChildLockFails, Locks!ChildExit
      <3> QED
        BY <2>2, <3>1, <3>2 DEF Locks!Step
    <2> QED
      BY <1>2, <2>1, <2>2, LocksSteps
  <1>3. LocksIInv /\ LocksHeld => Locks!TypeOK
    BY DEF LocksIInv, LocksHeld, Locks!TypeOK
  <1> QED
    BY <1>1, <1>2, <1>3

\* A run of UnixSharedMemory.c creates one segment at most, in its shmget().
Beyond == {r \in Pair : shmPc[r].parent # "get"}
ShmCounted == latestSegment <= Cardinality(Beyond)

LEMMA ShmCountedKept ==
  /\ IpcInit => ShmCounted
  /\ ShmIInv /\ ShmCounted /\ [IpcNext]_ipcVars => ShmCounted'
  /\ ShmIInv /\ ShmCounted => Shm!TypeOK
  <1>1. ASSUME Shm!Init PROVE ShmCounted
    <2>1. Beyond = {} /\ latestSegment = 0
      BY <1>1 DEF Shm!Init, Shm!NoSegment, Beyond
    <2> QED
      BY <2>1, FS_EmptySet DEF ShmCounted
  <1>2. IsFiniteSet(Beyond) /\ Cardinality(Beyond) \in Nat
    BY PairAssumption, FS_Subset, FS_CardinalityType DEF Beyond
  <1>3. ASSUME ShmIInv, ShmCounted, [IpcNext]_ipcVars PROVE ShmCounted'
    <2>1. CASE UNCHANGED shmVars
      BY <1>3, <2>1 DEF shmVars, ShmCounted, Beyond
    <2>2. ASSUME NEW r \in Pair, Shm!Get(r) PROVE ShmCounted'
      <3>1. /\ shmPc[r].parent = "get" /\ shmPc' = [shmPc EXCEPT ![r]["parent"] = "attach"]
            /\ latestSegment' \in {latestSegment, latestSegment + 1}
            /\ shmPc \in [Pair -> [Shm!Processes -> Shm!Calls]] /\ latestSegment \in Nat
        BY <1>3, <2>2 DEF Shm!Get, Shm!GoTo, ShmIInv, ShmTypes
      <3>2. Beyond' = Beyond \union {r} /\ r \notin Beyond
        BY <3>1 DEF Beyond, Shm!Processes
      <3>3. Cardinality(Beyond \union {r}) = Cardinality(Beyond) + 1
        BY <1>2, <3>2, FS_AddElement
      <3>4. ShmCounted' = (latestSegment' <= Cardinality(Beyond'))
        BY DEF ShmCounted
      <3> QED
        BY <1>2, <1>3, <3>1, <3>2, <3>3, <3>4 DEF ShmCounted
    <2>3. ASSUME NEW r \in Pair, Shm!Step(r), ~Shm!Get(r) PROVE ShmCounted'
      <3>1. /\ latestSegment' = latestSegment
            /\ \A q \in Pair : shmPc[q].parent # "get" => shmPc'[q].parent # "get"
        <4>1. ShmTypes /\ "parent" \in Shm!Processes /\ "child" \in Shm!Processes
          BY <1>3 DEF ShmIInv, Shm!Processes
        <4>2. CASE \E p \in Shm!Processes :
                     \E call \in {"fork", "left", "failed", "writing", "print", "remove",
                                 "detach", "exited"} :
                       Shm!GoTo(r, p, call) /\ latestSegment' = latestSegment
          <5>1. PICK p \in Shm!Processes :
                  \E call \in Shm!Calls :
                    call # "get" /\ Shm!GoTo(r, p, call) /\ latestSegment' = latestSegment
            BY <4>2 DEF Shm!Calls
          <5> QED
            BY <4>1, <5>1, ShmStays
        <4>3. CASE Shm!Fork(r)
          <5>1. /\ shmPc' = [shmPc EXCEPT ![r] = [parent |-> "wait", child |-> "write"]]
                /\ latestSegment' = latestSegment
            BY <4>3 DEF Shm!Fork
          <5>2. shmPc'[r].parent = "wait" /\ \A q \in Pair : q # r => shmPc'[q] = shmPc[q]
            BY <4>1, <5>1 DEF ShmTypes
          <5> QED
            BY <5>1, <5>2
        <4>4. CASE Shm!GetFails(r) \/ Shm!Attach(r) \/ Shm!AttachFails(r) \/ Shm!ForkFails(r)
          BY <4>1, <4>2, <4>4 DEF Shm!GetFails, Shm!Attach, Shm!AttachFails, Shm!ForkFails
        <4>5. CASE Shm!StartWrite(r) \/ Shm!EndWrite(r) \/ Shm!Wait(r) \/ Shm!PrintText(r)
          BY <4>1, <4>2, <4>5 DEF Shm!StartWrite, Shm!EndWrite, Shm!Wait, Shm!PrintText
        <4>6. CASE \E p \in Shm!Processes : Shm!Remove(r, p) \/ Shm!Detach(r, p)
          BY <4>2, <4>6 DEF Shm!Remove, Shm!Detach
        <4> QED
          BY <2>3, <4>3, <4>4, <4>5, <4>6 DEF Shm!Step
      <3>2. Beyond \subseteq Beyond' /\ Beyond' \subseteq Pair
        BY <3>1 DEF Beyond
      <3>3. Cardinality(Beyond) <= Cardinality(Beyond') /\ Cardinality(Beyond') \in Nat
        BY <3>2, PairAssumption, FS_Subset, FS_CardinalityType
      <3>4. latestSegment \in Nat
        BY <1>3 DEF ShmIInv, ShmTypes
      <3> QED
        BY <1>2, <1>3, <3>1, <3>3, <3>4 DEF ShmCounted
    <2> QED
      BY <1>3, <2>1, <2>2, <2>3, ShmSteps
  <1>4. ASSUME ShmIInv, ShmCounted PROVE Shm!TypeOK
    <2>1. \A S : Shm!Cardinality(S) = Cardinality(S)
      BY DEF Shm!Cardinality, Cardinality
    <2>2. Cardinality(Beyond) <= Cardinality(Pair) /\ Cardinality(Pair) \in Nat
      BY PairAssumption, FS_Subset, FS_CardinalityType DEF Beyond
    <2>3. latestSegment \in 0..Shm!Cardinality(Pair)
      BY <1>2, <1>4, <2>1, <2>2 DEF ShmIInv, ShmTypes, ShmCounted
    <2> QED
      BY <1>4, <2>3 DEF ShmIInv, ShmTypes, Shm!TypeOK
  <1> QED
    BY <1>1, <1>3, <1>4 DEF IpcInit

-----------------------------------------------------------------------------
(* Forking.c, ProcessGroups.c, BasicUnixSystemCalls.c. *)

\* The parent's own parent is never one of the two, and the child's is not the
\* shell.
ForksIInv ==
    /\ Forks!TypeOK
    /\ ppid["parent"] \in {"shell", "init"}
    /\ forkPc["child"] # "off" => ppid["child"] \in {"parent", "init"}
    /\ forkPc["parent"] = "before" \/ forkPc["parent"] = "fork" => forkPc["child"] = "off"

LEMMA ForksSteps ==
  ASSUME [IpcNext]_ipcVars
  PROVE  Forks!ShellEnds \/ Forks!Parent \/ Forks!Child \/ UNCHANGED forkVars
  BY DEF IpcNext, MainStep, OtherStep, RunStep, Optional, Ended, Only, ipcVars,
         Forks!Over, Forks!forkVars, forkVars

LEMMA ForksInitIInv == IpcInit => ForksIInv
  <1> SUFFICES ASSUME Forks!Init PROVE ForksIInv
    BY DEF IpcInit
  <1>1. <<>> \in Seq(Forks!Lines)
    OBVIOUS
  <1>2. \A p \in Forks!Processes : forkPc[p] \in {"off", "fork", "before"}
    BY DEF Forks!Init
  <1>3. forkPc \in [Forks!Processes -> {"off", "fork", "before"}]
    BY <1>2 DEF Forks!Init
  <1>4. forkPc["child"] = "off"
    <2>1. "child" \in Forks!Processes
      BY DEF Forks!Processes
    <2> QED
      BY <2>1 DEF Forks!Init
  <1>5. ppid = [p \in Forks!Processes |-> "shell"] /\ ppid["parent"] = "shell"
    BY DEF Forks!Init, Forks!Processes
  <1>6. Forks!TypeOK
    BY <1>1, <1>3, <1>5 DEF Forks!Init, Forks!TypeOK
  <1> QED
    BY <1>4, <1>5, <1>6 DEF ForksIInv

\* printf(), fflush() and the end of a process, for the types of stdio and out.
LEMMA ForksOutput ==
  ASSUME Forks!TypeOK, NEW p \in Forks!Processes
  PROVE  /\ \A line \in Forks!Lines : Forks!Printf(p, line) =>
              stdio' \in [Forks!Processes -> Seq(Forks!Lines)] /\ forkOut' \in Seq(Forks!Lines)
         /\ \A lines \in Seq(Forks!Lines) : Forks!Flush(p, lines) =>
              stdio' \in [Forks!Processes -> Seq(Forks!Lines)] /\ forkOut' \in Seq(Forks!Lines)
  <1> USE DEF Forks!TypeOK
  <1>1. stdio[p] \in Seq(Forks!Lines) /\ <<>> \in Seq(Forks!Lines)
    OBVIOUS
  <1>2. \A line \in Forks!Lines :
           /\ Append(forkOut, line) \in Seq(Forks!Lines)
           /\ Append(stdio[p], line) \in Seq(Forks!Lines)
    BY <1>1, AppendProperties
  <1>3. \A lines \in Seq(Forks!Lines) : forkOut \o stdio[p] \o lines \in Seq(Forks!Lines)
    <2> TAKE lines \in Seq(Forks!Lines)
    <2>1. forkOut \o stdio[p] \in Seq(Forks!Lines)
      BY <1>1, ConcatProperties
    <2> QED
      BY <2>1, ConcatProperties
  <1> HIDE DEF Forks!TypeOK
  <1>4. stdio \in [Forks!Processes -> Seq(Forks!Lines)] /\ forkOut \in Seq(Forks!Lines)
    BY DEF Forks!TypeOK
  <1>5. ASSUME NEW line \in Forks!Lines, Forks!Printf(p, line)
        PROVE  stdio' \in [Forks!Processes -> Seq(Forks!Lines)] /\ forkOut' \in Seq(Forks!Lines)
    BY <1>2, <1>4, <1>5 DEF Forks!Printf
  <1>6. ASSUME NEW lines \in Seq(Forks!Lines), Forks!Flush(p, lines)
        PROVE  stdio' \in [Forks!Processes -> Seq(Forks!Lines)] /\ forkOut' \in Seq(Forks!Lines)
    BY <1>1, <1>3, <1>4, <1>6 DEF Forks!Flush
  <1> QED
    BY <1>5, <1>6

LEMMA ForksStepIInv == ForksIInv /\ [IpcNext]_ipcVars => ForksIInv'
  <1> SUFFICES ASSUME ForksIInv, [IpcNext]_ipcVars PROVE ForksIInv'
    OBVIOUS
  <1> DEFINE Out == stdio' \in [Forks!Processes -> Seq(Forks!Lines)] /\ forkOut' \in Seq(Forks!Lines)
  <1>1. Forks!TypeOK /\ <<>> \in Seq(Forks!Lines) /\ <<"child">> \in Seq(Forks!Lines)
    BY DEF ForksIInv, Forks!Lines
  <1>2. stdio \in [Forks!Processes -> Seq(Forks!Lines)] /\ forkOut \in Seq(Forks!Lines)
    BY <1>1 DEF Forks!TypeOK
  <1>3. /\ "parent" \in Forks!Processes /\ "child" \in Forks!Processes
        /\ {"before", "parent", "child", "reaped"} \subseteq Forks!Lines
    BY DEF Forks!Processes, Forks!Lines
  <1> USE DEF Forks!To, Forks!Die
  <1>4. CASE Forks!ShellEnds
    <2>1. Out
      BY <1>2, <1>4 DEF Forks!ShellEnds
    <2> QED
      BY <1>4, <2>1 DEF Forks!ShellEnds, ForksIInv, Forks!TypeOK, Forks!Processes
  <1>5. CASE Forks!Before
    <2>1. Out
      BY <1>1, <1>3, <1>5, ForksOutput DEF Forks!Before
    <2> QED
      BY <1>5, <2>1 DEF Forks!Before, ForksIInv, Forks!TypeOK, Forks!Processes
  <1>6. CASE Forks!Fork
    <2>1. Out
      BY <1>2, <1>3, <1>6 DEF Forks!Fork
    <2> QED
      BY <1>6, <2>1 DEF Forks!Fork, ForksIInv, Forks!TypeOK, Forks!Processes
  <1>7. CASE Forks!ForkFails
    <2>1. Out
      BY <1>1, <1>3, <1>7, ForksOutput DEF Forks!ForkFails
    <2> QED
      BY <1>7, <2>1 DEF Forks!ForkFails, ForksIInv, Forks!TypeOK, Forks!Processes
  <1>8. CASE Forks!ParentPrints \/ Forks!Wait
    <2>1. Out
      BY <1>1, <1>3, <1>8, ForksOutput DEF Forks!ParentPrints, Forks!Wait
    <2> QED
      BY <1>8, <2>1 DEF Forks!ParentPrints, Forks!Wait, ForksIInv, Forks!TypeOK, Forks!Processes
  <1>9. CASE Forks!ExitUnflushed
    <2>1. Out
      BY <1>2, <1>9 DEF Forks!ExitUnflushed
    <2> QED
      BY <1>9, <2>1 DEF Forks!ExitUnflushed, ForksIInv, Forks!TypeOK, Forks!Processes
  <1>10. CASE Forks!ChildEnds
    <2>1. Out
      BY <1>1, <1>3, <1>10, ForksOutput DEF Forks!ChildEnds
    <2> QED
      BY <1>10, <2>1 DEF Forks!ChildEnds, ForksIInv, Forks!TypeOK, Forks!Processes
  <1>11. ASSUME NEW p \in Forks!Processes, Forks!Compare(p) PROVE ForksIInv'
    <2>1. role' = [role EXCEPT ![p] = IF Forks!IsParent(p) THEN "parent" ELSE "child"]
      BY <1>11 DEF Forks!Compare
    <2>2. role'[p] \in {"parent", "child"} /\ role' \in [Forks!Processes -> {"none", "parent", "child", "init"}]
      BY <1>1, <2>1 DEF Forks!TypeOK
    <2>3. Out
      BY <1>1, <1>3, <1>11, <2>2, ForksOutput DEF Forks!Compare
    <2> QED
      BY <1>11, <2>2, <2>3 DEF Forks!Compare, ForksIInv, Forks!TypeOK, Forks!Processes
  <1>12. ASSUME NEW p \in Forks!Processes, Forks!PrintPpid(p) PROVE ForksIInv'
    <2>1. Out
      BY <1>1, <1>3, <1>12, ForksOutput DEF Forks!PrintPpid, Forks!Processes
    <2>2. forkPc[p] = "print" /\ role' = [role EXCEPT ![p] = IF p = "child" THEN ppid[p] ELSE "parent"]
      BY <1>12 DEF Forks!PrintPpid
    <2>3. role' \in [Forks!Processes -> {"none", "parent", "child", "init"}]
      BY <1>1, <2>2 DEF ForksIInv, Forks!TypeOK, Forks!Processes
    <2> QED
      BY <1>12, <2>1, <2>3 DEF Forks!PrintPpid, ForksIInv, Forks!TypeOK, Forks!Processes
  <1>13. ASSUME NEW p \in Forks!Processes, Forks!Exit(p) PROVE ForksIInv'
    <2>1. Out
      BY <1>1, <1>13, ForksOutput DEF Forks!Exit
    <2> QED
      BY <1>13, <2>1 DEF Forks!Exit, ForksIInv, Forks!TypeOK, Forks!Processes
  <1>14. CASE UNCHANGED forkVars
    BY <1>14 DEF forkVars, ForksIInv, Forks!TypeOK
  <1> QED
    BY <1>3, <1>4, <1>5, <1>6, <1>7, <1>8, <1>9, <1>10, <1>11, <1>12, <1>13, <1>14, ForksSteps
    DEF Forks!Parent, Forks!Child

-----------------------------------------------------------------------------
\* Every program of the processes that meet in the kernel stays within its types,
\* for every value of the constants.
IpcTypesIInv ==
    /\ SendIInv /\ PipeIInv /\ QueueIInv /\ Len(queue) <= Room
    /\ ShmIInv /\ ShmCounted /\ LocksIInv /\ LocksHeld
    /\ FifoIInv /\ EventIInv /\ ForksIInv /\ AlarmIInv

THEOREM IpcTypesCorrect == IpcSpec => []IpcTypeOK
  <1>1. IpcInit => IpcTypesIInv
    BY SendTypes, PipeInitIInv, QueueInitIInv, QueueRoomKept, ShmInitIInv, ShmCountedKept,
       LocksInitIInv, LocksHeldKept, FifoInitIInv, EventInitIInv, ForksInitIInv, AlarmInitIInv
    DEF IpcTypesIInv
  <1>2. IpcTypesIInv /\ [IpcNext]_ipcVars => IpcTypesIInv'
    BY SendTypes, PipeStepIInv, QueueStepIInv, QueueRoomKept, ShmStepIInv, ShmCountedKept,
       LocksStepIInv, LocksHeldKept, FifoStepIInv, EventStepIInv, ForksStepIInv, AlarmStepIInv
    DEF IpcTypesIInv
  <1>3. IpcTypesIInv => IpcTypeOK
    <2> SUFFICES ASSUME IpcTypesIInv PROVE IpcTypeOK
      OBVIOUS
    <2>1. TypeOK /\ Pipe!TypeOK /\ Shm!TypeOK /\ Locks!TypeOK /\ Events!TypeOK
      BY SendTypes, ShmCountedKept, LocksHeldKept DEF IpcTypesIInv, PipeIInv, EventIInv
    <2>2. Queue!TypeOK
      BY DEF IpcTypesIInv, QueueIInv, QueueInv, Queue!TypeOK
    <2>3. Named!TypeOK
      BY DEF IpcTypesIInv, FifoIInv, FifoTypes, Named!TypeOK
    <2>4. Forks!TypeOK /\ Alarm!TypeOK
      BY DEF IpcTypesIInv, ForksIInv, AlarmIInv
    <2> QED
      BY <2>1, <2>2, <2>3, <2>4 DEF IpcTypeOK
  <1> QED
    BY <1>1, <1>2, <1>3, PTL DEF IpcSpec

-----------------------------------------------------------------------------
(* Who takes itself for whom, and which lines reach the output how often. *)

\* How often x is in s.
At(s, x) == {k \in 1..Len(s) : s[k] = x}
Times(s, x) == Cardinality(At(s, x))

LEMMA TimesOf ==
  ASSUME NEW U, NEW s \in Seq(U), NEW x
  PROVE  IsFiniteSet(At(s, x)) /\ Times(s, x) \in Nat
  <1>1. Len(s) \in Nat
    BY LenProperties
  <1>2. IsFiniteSet(1..Len(s)) /\ At(s, x) \in SUBSET (1..Len(s))
    BY <1>1, FS_Interval DEF At
  <1>3. IsFiniteSet(At(s, x))
    BY <1>2, FS_Subset
  <1> QED
    BY <1>3, FS_CardinalityType DEF Times

LEMMA TimesEmpty == \A x : Times(<<>>, x) = 0
  <1>1. \A x : At(<<>>, x) = {}
    BY EmptySeq DEF At
  <1> QED
    BY <1>1, FS_EmptySet DEF Times

LEMMA TimesAppend ==
  ASSUME NEW U, NEW s \in Seq(U), NEW y \in U, NEW x
  PROVE  Times(Append(s, y), x) = Times(s, x) + (IF x = y THEN 1 ELSE 0)
  <1> DEFINE more == Append(s, y)   last == Len(s) + 1
  <1>1. /\ Len(s) \in Nat /\ Len(more) = Len(s) + 1
        /\ \A k \in 1..Len(s) : more[k] = s[k]
        /\ more[last] = y
    BY LenProperties, AppendProperties
  <1>2. IsFiniteSet(At(s, x)) /\ Times(s, x) \in Nat
    BY TimesOf
  <1> HIDE DEF more
  <1>3. \A k : k \in 1..Len(more) <=> k \in 1..Len(s) \/ k = last
    BY <1>1
  <1>4. last \notin At(s, x)
    BY <1>1 DEF At
  <1> HIDE DEF last
  <1>5. At(more, x) = IF x = y THEN At(s, x) \union {last} ELSE At(s, x)
    BY <1>1, <1>3 DEF At
  <1>6. Cardinality(At(s, x) \union {last}) = Times(s, x) + 1
    BY <1>2, <1>4, FS_AddElement DEF Times
  <1> QED
    BY <1>2, <1>5, <1>6 DEF Times, more

LEMMA TimesConcat ==
  ASSUME NEW U, NEW s \in Seq(U), NEW t \in Seq(U), NEW x
  PROVE  Times(s \o t, x) = Times(s, x) + Times(t, x)
  <1> DEFINE both == s \o t   Moved == {Len(s) + k : k \in At(t, x)}
  <1>1. /\ Len(s) \in Nat /\ Len(t) \in Nat /\ Len(both) = Len(s) + Len(t)
        /\ \A k \in 1..(Len(s) + Len(t)) :
             both[k] = IF k <= Len(s) THEN s[k] ELSE t[k - Len(s)]
    BY LenProperties, ConcatProperties
  <1>2. /\ IsFiniteSet(At(s, x)) /\ Times(s, x) \in Nat
        /\ IsFiniteSet(At(t, x)) /\ Times(t, x) \in Nat
    BY TimesOf
  <1> HIDE DEF both
  <1>3. /\ \A k \in 1..Len(s) : both[k] = s[k]
        /\ \A k \in 1..Len(t) : both[Len(s) + k] = t[k]
    <2>1. \A k \in 1..Len(s) : k \in 1..(Len(s) + Len(t)) /\ k <= Len(s)
      BY <1>1
    <2>2. \A k \in 1..Len(t) :
             /\ Len(s) + k \in 1..(Len(s) + Len(t)) /\ ~(Len(s) + k <= Len(s))
             /\ (Len(s) + k) - Len(s) = k
      BY <1>1
    <2> QED
      BY <1>1, <2>1, <2>2
  <1>4. /\ \A k \in 1..Len(both) : k \in 1..Len(s) \/ \E j \in 1..Len(t) : k = Len(s) + j
        /\ \A k \in 1..Len(s) : k \in 1..Len(both)
        /\ \A j \in 1..Len(t) : Len(s) + j \in 1..Len(both) /\ Len(s) + j \notin 1..Len(s)
    <2>1. \A k \in 1..Len(both) : k \in 1..Len(s) \/ (k - Len(s) \in 1..Len(t) /\ k = Len(s) + (k - Len(s)))
      BY <1>1
    <2> QED
      BY <1>1, <2>1
  <1>5. At(both, x) = At(s, x) \union Moved /\ At(s, x) \intersect Moved = {}
    BY <1>3, <1>4 DEF At
  <1>6. IsFiniteSet(Moved) /\ Cardinality(Moved) = Times(t, x)
    <2> DEFINE f == [k \in At(t, x) |-> Len(s) + k]
    <2>1. \A j, k \in At(t, x) : f[j] = f[k] => j = k
      BY <1>1 DEF At
    <2>2. f \in [At(t, x) -> Moved] /\ \A z \in Moved : \E k \in At(t, x) : f[k] = z
      OBVIOUS
    <2> HIDE DEF f, Moved
    <2>3. ExistsBijection(At(t, x), Moved)
      BY <2>1, <2>2 DEF ExistsBijection, Bijection, Injection, Surjection, IsInjective
    <2> QED
      BY <1>2, <2>3, FS_Bijection DEF Times
  <1> HIDE DEF Moved
  <1>7. Cardinality(At(s, x) \union Moved) = Times(s, x) + Times(t, x)
    <2>1. Cardinality({}) = 0
      BY FS_EmptySet
    <2>2. Cardinality(At(s, x) \union Moved) =
             Cardinality(At(s, x)) + Cardinality(Moved) - Cardinality(At(s, x) \intersect Moved)
      BY <1>2, <1>6, FS_Union
    <2>3. Cardinality(At(s, x) \union Moved) = Times(s, x) + Times(t, x) - 0
      BY <1>5, <1>6, <2>1, <2>2 DEF Times
    <2> QED
      BY <1>2, <2>3
  <1> QED
    BY <1>5, <1>7 DEF Times, both

\* printf() and fflush() count their lines.
LEMMA PrintfTimes ==
  ASSUME Forks!TypeOK, NEW p \in Forks!Processes, NEW line \in Forks!Lines,
         Forks!Printf(p, line)
  PROVE  /\ terminal => /\ stdio' = stdio /\ forkOut' = Append(forkOut, line)
                        /\ \A x : Times(forkOut', x) =
                                    Times(forkOut, x) + (IF x = line THEN 1 ELSE 0)
         /\ ~terminal =>
              /\ forkOut' = forkOut
              /\ \A q \in Forks!Processes : q # p => stdio'[q] = stdio[q]
              /\ \A x : Times(stdio'[p], x) = Times(stdio[p], x) + (IF x = line THEN 1 ELSE 0)
  <1>1. /\ forkOut \in Seq(Forks!Lines) /\ stdio[p] \in Seq(Forks!Lines)
        /\ stdio \in [Forks!Processes -> Seq(Forks!Lines)]
    BY DEF Forks!TypeOK
  <1>2. CASE terminal
    <2>1. stdio' = stdio /\ forkOut' = Append(forkOut, line)
      BY <1>2 DEF Forks!Printf
    <2> QED
      BY <1>1, <1>2, <2>1, TimesAppend
  <1>3. CASE ~terminal
    <2>1. forkOut' = forkOut /\ stdio' = [stdio EXCEPT ![p] = Append(stdio[p], line)]
      BY <1>3 DEF Forks!Printf
    <2>2. stdio'[p] = Append(stdio[p], line) /\ \A q \in Forks!Processes : q # p => stdio'[q] = stdio[q]
      BY <1>1, <2>1
    <2> QED
      BY <1>1, <1>3, <2>1, <2>2, TimesAppend
  <1> QED
    BY <1>2, <1>3

LEMMA FlushTimes ==
  ASSUME Forks!TypeOK, NEW p \in Forks!Processes, NEW lines \in Seq(Forks!Lines),
         Forks!Flush(p, lines)
  PROVE  /\ \A x : Times(forkOut', x) =
                     Times(forkOut, x) + Times(stdio[p], x) + Times(lines, x)
         /\ stdio'[p] = <<>>
         /\ \A q \in Forks!Processes : q # p => stdio'[q] = stdio[q]
         /\ stdio[p] = <<>> /\ lines = <<>> => forkOut' = forkOut
  <1>1. /\ forkOut \in Seq(Forks!Lines) /\ stdio[p] \in Seq(Forks!Lines)
        /\ stdio \in [Forks!Processes -> Seq(Forks!Lines)]
    BY DEF Forks!TypeOK
  <1>2. forkOut' = (forkOut \o stdio[p]) \o lines /\ stdio' = [stdio EXCEPT ![p] = <<>>]
    BY DEF Forks!Flush
  <1>3. forkOut \o stdio[p] \in Seq(Forks!Lines)
    BY <1>1, ConcatProperties
  <1>4. \A x : Times((forkOut \o stdio[p]) \o lines, x) = Times(forkOut \o stdio[p], x) + Times(lines, x)
    BY <1>3, TimesConcat
  <1>5. \A x : Times(forkOut \o stdio[p], x) = Times(forkOut, x) + Times(stdio[p], x)
    BY <1>1, TimesConcat
  <1>6. stdio[p] = <<>> /\ lines = <<>> => forkOut' = forkOut
    BY <1>1, <1>2, ConcatEmptySeq
  <1> QED
    BY <1>1, <1>2, <1>4, <1>5, <1>6

\* exit() writes what is in the buffer, and fflush() after printf() one line more.
LEMMA FlushNothing ==
  ASSUME Forks!TypeOK, NEW p \in Forks!Processes, Forks!Flush(p, <<>>)
  PROVE  /\ \A x : Times(forkOut', x) = Times(forkOut, x) + Times(stdio[p], x)
         /\ stdio'[p] = <<>>
         /\ \A q \in Forks!Processes : q # p => stdio'[q] = stdio[q]
         /\ stdio[p] = <<>> => forkOut' = forkOut
  <1>1. /\ forkOut \in Seq(Forks!Lines) /\ stdio[p] \in Seq(Forks!Lines)
        /\ <<>> \in Seq(Forks!Lines)
    BY DEF Forks!TypeOK
  <1>2. /\ \A x : Times(forkOut', x) = Times(forkOut, x) + Times(stdio[p], x) + Times(<<>>, x)
        /\ stdio'[p] = <<>>
        /\ \A q \in Forks!Processes : q # p => stdio'[q] = stdio[q]
        /\ stdio[p] = <<>> => forkOut' = forkOut
    BY <1>1, FlushTimes
  <1>3. ASSUME NEW x PROVE Times(forkOut', x) = Times(forkOut, x) + Times(stdio[p], x)
    <2>1. Times(forkOut, x) \in Nat /\ Times(stdio[p], x) \in Nat
      BY <1>1, TimesOf
    <2>2. Times(forkOut', x) = Times(forkOut, x) + Times(stdio[p], x) + 0
      BY <1>2, TimesEmpty
    <2> QED
      BY <2>1, <2>2
  <1> QED
    BY <1>2, <1>3

LEMMA FlushOne ==
  ASSUME Forks!TypeOK, NEW p \in Forks!Processes, NEW line \in Forks!Lines,
         Forks!Flush(p, <<line>>)
  PROVE  /\ \A x : Times(forkOut', x) =
                     Times(forkOut, x) + Times(stdio[p], x) + (IF x = line THEN 1 ELSE 0)
         /\ stdio'[p] = <<>>
         /\ \A q \in Forks!Processes : q # p => stdio'[q] = stdio[q]
  <1>1. <<line>> \in Seq(Forks!Lines)
    OBVIOUS
  <1>2. \A x : Times(<<line>>, x) = IF x = line THEN 1 ELSE 0
    <2> TAKE x
    <2>1. At(<<line>>, x) = IF x = line THEN {1} ELSE {}
      BY DEF At
    <2> QED
      BY <2>1, FS_EmptySet, FS_Singleton DEF Times
  <1>3. /\ \A x : Times(forkOut', x) = Times(forkOut, x) + Times(stdio[p], x) + Times(<<line>>, x)
        /\ stdio'[p] = <<>>
        /\ \A q \in Forks!Processes : q # p => stdio'[q] = stdio[q]
    BY <1>1, FlushTimes
  <1> QED
    BY <1>2, <1>3

\* Where the two processes of each demonstration can be.
ForksControl ==
    /\ forkPc["child"] \in {"off", "print", "exit", "ended"} /\ forkPc["parent"] # "off"
    /\ forkPc["child"] = "off" <=> forkPc["parent"] \in {"before", "fork", "failed"}
    /\ demo = "groups" => forkPc["parent"] # "before"
    /\ demo = "waiting" => forkPc["parent"] # "exit" /\ forkPc["child"] # "exit"
    /\ demo # "waiting" => forkPc["parent"] \notin {"wait", "after"}
    /\ demo = "waiting" /\ forkPc["parent"] \in {"after", "ended"} => forkPc["child"] = "ended"
    /\ forkPc["child"] # "off" /\ ppid["child"] = "init" => forkPc["parent"] = "ended"

\* What the saved ppid can be by then, and what follows from a comparison with it.
ForksRoles ==
    /\ demo = "intro" =>
         /\ forkPc["parent"] # "before" => saved \in {"shell", "init"}
         /\ saved = "init" => ppid["parent"] = "init"
    /\ \A p \in Forks!Processes :
         forkPc[p] \in {"off", "before", "fork", "print"} => role[p] = "none"
    /\ Forks!Roles

Done(p) == IF forkPc[p] = "ended" THEN 1 ELSE 0

\* The line printed before the fork(): on a terminal it is out by then; otherwise
\* it is in the buffer of every process that has not ended, and reaches the file
\* with each that flushes.
ForksBefore ==
    /\ demo = "groups" =>
         /\ Times(forkOut, "before") = 0
         /\ \A p \in Forks!Processes : Times(stdio[p], "before") = 0
    /\ terminal =>
         /\ \A p \in Forks!Processes : stdio[p] = <<>>
         /\ demo # "groups" =>
              Times(forkOut, "before") = IF forkPc["parent"] = "before" THEN 0 ELSE 1
    /\ demo # "groups" /\ ~terminal =>
         /\ forkPc["parent"] \in {"before", "fork"} =>
              /\ Times(forkOut, "before") = 0
              /\ Times(stdio["parent"], "before") = IF forkPc["parent"] = "fork" THEN 1 ELSE 0
         /\ forkPc["child"] # "off" =>
              /\ \A p \in Forks!Processes :
                   forkPc[p] # "ended" => Times(stdio[p], "before") = 1
              /\ Times(forkOut, "before") =
                   Done("child") + (IF demo = "intro" THEN Done("parent") ELSE 0)

\* forkingandwaiting: the lines of each process.
ForksLines ==
    demo = "waiting" =>
      /\ \A p \in Forks!Processes : Times(stdio[p], "child") = 0
      /\ Times(stdio["child"], "parent") = 0 /\ Times(stdio["child"], "reaped") = 0
      /\ forkPc["parent"] \in {"before", "fork"} =>
           Times(stdio["parent"], "parent") = 0 /\ Times(stdio["parent"], "reaped") = 0
      /\ Times(forkOut, "child") = Done("child")
      /\ Times(forkOut, "parent") =
           IF terminal /\ forkPc["parent"] \in {"wait", "after", "ended"} THEN 1 ELSE 0
      /\ Times(forkOut, "reaped") =
           IF terminal /\ forkPc["parent"] \in {"after", "ended"} THEN 1 ELSE 0
      /\ terminal /\ forkPc["parent"] \in {"after", "ended"} => Forks!Last(forkOut) = "reaped"

\* fork_intro and processgroups: the line each process has printed is out or in
\* its buffer, and only a process about to call exit() holds one there.
OutOrHeld(p, line) ==
    IF forkPc[p] \in {"exit", "ended"} THEN Forks!Printed(p, line) ELSE 0

OwnKept(line) ==
    /\ Times(forkOut, line) + Times(stdio["parent"], line) + Times(stdio["child"], line) =
         OutOrHeld("parent", line) + OutOrHeld("child", line)
    /\ \A p \in Forks!Processes : forkPc[p] # "exit" => Times(stdio[p], line) = 0

ForksOwn == demo # "waiting" => OwnKept("parent") /\ OwnKept("child")

LEMMA ForksControlKept ==
  /\ IpcInit => ForksControl
  /\ ForksIInv /\ ForksControl /\ [IpcNext]_ipcVars => ForksControl'
  <1>1. ASSUME Forks!Init PROVE ForksControl
    <2>1. "parent" \in Forks!Processes /\ "child" \in Forks!Processes
      BY DEF Forks!Processes
    <2>2. forkPc["child"] = "off" /\ forkPc["parent"] = IF demo = "groups" THEN "fork" ELSE "before"
      BY <1>1, <2>1 DEF Forks!Init
    <2> QED
      BY <2>2 DEF ForksControl
  <1>2. ASSUME ForksIInv, ForksControl, [IpcNext]_ipcVars PROVE ForksControl'
    <2>1. /\ "parent" \in Forks!Processes /\ "child" \in Forks!Processes
          /\ Forks!Processes = {"parent", "child"}
          /\ demo \in {"intro", "groups", "waiting"}
          /\ forkPc \in [Forks!Processes -> {"off", "before", "fork", "print", "wait", "after",
                                             "exit", "ended", "failed"}]
          /\ ppid \in [Forks!Processes -> {"shell", "parent", "init"}]
      BY <1>2 DEF ForksIInv, Forks!TypeOK, Forks!Processes, Forks!Demos
    <2> USE DEF Forks!To, Forks!Die
    <2>2. CASE Forks!ShellEnds
      BY <1>2, <2>1, <2>2 DEF Forks!ShellEnds, ForksIInv, ForksControl
    <2>3. CASE Forks!Before
      BY <1>2, <2>1, <2>3 DEF Forks!Before, ForksControl
    <2>4. CASE Forks!Fork
      BY <1>2, <2>1, <2>4 DEF Forks!Fork, ForksControl
    <2>5. CASE Forks!ForkFails
      BY <1>2, <2>1, <2>5 DEF Forks!ForkFails, ForksControl
    <2>6. CASE Forks!ParentPrints \/ Forks!Wait
      BY <1>2, <2>1, <2>6 DEF Forks!ParentPrints, Forks!Wait, ForksControl
    <2>7. CASE Forks!ExitUnflushed
      BY <1>2, <2>1, <2>7 DEF Forks!ExitUnflushed, ForksControl
    <2>8. CASE Forks!ChildEnds
      BY <1>2, <2>1, <2>8 DEF Forks!ChildEnds, ForksControl, ForksIInv
    <2>9. ASSUME NEW p \in Forks!Processes, Forks!Compare(p) \/ Forks!PrintPpid(p)
          PROVE  ForksControl'
      BY <1>2, <2>1, <2>9 DEF Forks!Compare, Forks!PrintPpid, ForksControl
    <2>10. ASSUME NEW p \in Forks!Processes, Forks!Exit(p) PROVE ForksControl'
      BY <1>2, <2>1, <2>10 DEF Forks!Exit, ForksControl, ForksIInv
    <2>11. CASE UNCHANGED forkVars
      BY <1>2, <2>11 DEF forkVars, ForksControl
    <2> QED
      BY <1>2, <2>1, <2>2, <2>3, <2>4, <2>5, <2>6, <2>7, <2>8, <2>9, <2>10, <2>11, ForksSteps
      DEF Forks!Parent, Forks!Child
  <1> QED
    BY <1>1, <1>2 DEF IpcInit

LEMMA ForksRolesKept ==
  /\ IpcInit => ForksRoles
  /\ ForksIInv /\ ForksControl /\ ForksRoles /\ [IpcNext]_ipcVars => ForksRoles'
  <1>1. ASSUME Forks!Init PROVE ForksRoles
    <2>1. "parent" \in Forks!Processes /\ "child" \in Forks!Processes
      BY DEF Forks!Processes
    <2>2. /\ saved = "none" /\ \A p \in Forks!Processes : role[p] = "none"
          /\ demo # "groups" => forkPc["parent"] = "before"
      BY <1>1, <2>1 DEF Forks!Init
    <2> QED
      BY <2>1, <2>2 DEF ForksRoles, Forks!Roles
  <1>2. ASSUME ForksIInv, ForksControl, ForksRoles, [IpcNext]_ipcVars PROVE ForksRoles'
    <2>1. /\ "parent" \in Forks!Processes /\ "child" \in Forks!Processes
          /\ Forks!Processes = {"parent", "child"}
          /\ demo \in {"intro", "groups", "waiting"}
          /\ forkPc \in [Forks!Processes -> {"off", "before", "fork", "print", "wait", "after",
                                             "exit", "ended", "failed"}]
          /\ ppid \in [Forks!Processes -> {"shell", "parent", "init"}]
          /\ role \in [Forks!Processes -> {"none", "parent", "child", "init"}]
          /\ ppid["parent"] \in {"shell", "init"}
          /\ forkPc["child"] # "off" => ppid["child"] \in {"parent", "init"}
      BY <1>2 DEF ForksIInv, Forks!TypeOK, Forks!Processes, Forks!Demos
    <2> USE DEF Forks!To, Forks!Die, ForksRoles, Forks!Roles, Forks!Ended
    <2>2. CASE Forks!ShellEnds
      BY <1>2, <2>1, <2>2 DEF Forks!ShellEnds
    <2>3. CASE Forks!Before
      <3>1. role["parent"] = "none" /\ role["child"] = "none"
        BY <1>2, <2>1, <2>3 DEF Forks!Before, ForksControl
      <3> QED
        BY <1>2, <2>1, <2>3, <3>1 DEF Forks!Before, ForksControl
    <2>4. CASE Forks!Fork
      BY <1>2, <2>1, <2>4 DEF Forks!Fork, ForksControl
    <2>5. CASE Forks!ForkFails
      BY <1>2, <2>1, <2>5 DEF Forks!ForkFails
    <2>6. CASE Forks!ParentPrints \/ Forks!Wait
      BY <1>2, <2>1, <2>6 DEF Forks!ParentPrints, Forks!Wait
    <2>7. CASE Forks!ExitUnflushed
      BY <1>2, <2>1, <2>7 DEF Forks!ExitUnflushed, ForksControl
    <2>8. CASE Forks!ChildEnds
      BY <1>2, <2>1, <2>8 DEF Forks!ChildEnds
    <2>9. ASSUME NEW p \in Forks!Processes, Forks!Compare(p) PROVE ForksRoles'
      <3>1. /\ demo = "intro" /\ forkPc[p] = "print"
            /\ role' = [role EXCEPT ![p] = IF ppid[p] = saved THEN "parent" ELSE "child"]
            /\ forkPc' = [forkPc EXCEPT ![p] = "exit"]
            /\ UNCHANGED <<demo, ppid, saved>>
        BY <2>9 DEF Forks!Compare, Forks!IsParent
      <3>2. CASE p = "parent"
        BY <1>2, <2>1, <3>1, <3>2 DEF ForksControl
      <3>3. CASE p = "child"
        BY <1>2, <2>1, <3>1, <3>3 DEF ForksControl
      <3> QED
        BY <2>1, <3>2, <3>3
    <2>10. ASSUME NEW p \in Forks!Processes, Forks!PrintPpid(p) PROVE ForksRoles'
      <3>1. /\ demo = "groups" /\ forkPc[p] = "print"
            /\ role' = [role EXCEPT ![p] = IF p = "child" THEN ppid[p] ELSE "parent"]
            /\ forkPc' = [forkPc EXCEPT ![p] = "exit"]
            /\ UNCHANGED <<demo, ppid, saved>>
        BY <2>10 DEF Forks!PrintPpid
      <3> QED
        BY <1>2, <2>1, <3>1 DEF ForksControl
    <2>11. ASSUME NEW p \in Forks!Processes, Forks!Exit(p) PROVE ForksRoles'
      BY <1>2, <2>1, <2>11 DEF Forks!Exit
    <2>12. CASE UNCHANGED forkVars
      BY <1>2, <2>12 DEF forkVars
    <2> QED
      BY <1>2, <2>1, <2>2, <2>3, <2>4, <2>5, <2>6, <2>7, <2>8, <2>9, <2>10, <2>11, <2>12,
         ForksSteps
      DEF Forks!Parent, Forks!Child
  <1> QED
    BY <1>1, <1>2 DEF IpcInit

LEMMA ForksBeforeKept ==
  /\ IpcInit => ForksBefore
  /\ ForksIInv /\ ForksControl /\ ForksBefore /\ [IpcNext]_ipcVars => ForksBefore'
  <1>1. ASSUME Forks!Init PROVE ForksBefore
    <2>1. /\ "parent" \in Forks!Processes /\ "child" \in Forks!Processes
          /\ Forks!Processes = {"parent", "child"}
      BY DEF Forks!Processes
    <2>2. /\ \A p \in Forks!Processes : stdio[p] = <<>>
          /\ forkOut = <<>> /\ forkPc["child"] = "off"
          /\ forkPc["parent"] = IF demo = "groups" THEN "fork" ELSE "before"
      BY <1>1, <2>1 DEF Forks!Init
    <2> QED
      BY <2>1, <2>2, TimesEmpty DEF ForksBefore, Done
  <1>2. ASSUME ForksIInv, ForksControl, ForksBefore, [IpcNext]_ipcVars PROVE ForksBefore'
    <2>1. /\ "parent" \in Forks!Processes /\ "child" \in Forks!Processes
          /\ Forks!Processes = {"parent", "child"}
          /\ demo \in {"intro", "groups", "waiting"} /\ terminal \in BOOLEAN
          /\ forkPc \in [Forks!Processes -> {"off", "before", "fork", "print", "wait", "after",
                                             "exit", "ended", "failed"}]
          /\ stdio \in [Forks!Processes -> Seq(Forks!Lines)] /\ forkOut \in Seq(Forks!Lines)
      BY <1>2 DEF ForksIInv, Forks!TypeOK, Forks!Processes, Forks!Demos
    <2>2. /\ {"before", "parent", "child", "reaped", "error"} = Forks!Lines
          /\ <<>> \in Seq(Forks!Lines) /\ <<"child">> \in Seq(Forks!Lines)
          /\ Forks!TypeOK
      BY <1>2 DEF Forks!Lines, ForksIInv
    <2>3. /\ \A x : Times(forkOut, x) \in Nat
          /\ \A x : Times(stdio["parent"], x) \in Nat /\ Times(stdio["child"], x) \in Nat
      BY <2>1, TimesOf
    <2> USE DEF Forks!To, Forks!Die, ForksBefore, Done
    <2>4. CASE Forks!ShellEnds
      BY <1>2, <2>4 DEF Forks!ShellEnds
    <2>5. CASE Forks!Before
      BY <1>2, <2>1, <2>2, <2>3, <2>5, PrintfTimes DEF Forks!Before, ForksControl
    <2>6. CASE Forks!Fork
      BY <1>2, <2>1, <2>3, <2>6 DEF Forks!Fork, ForksControl
    <2>7. CASE Forks!ForkFails
      <3>1. Forks!Flush("parent", <<>>)
        BY <2>7 DEF Forks!ForkFails
      <3>2. /\ stdio'["parent"] = <<>> /\ stdio'["child"] = stdio["child"]
            /\ Times(forkOut', "before") = Times(forkOut, "before") + Times(stdio["parent"], "before")
            /\ Times(<<>>, "before") = 0
            /\ stdio["parent"] = <<>> => forkOut' = forkOut
        BY <2>1, <2>2, <3>1, FlushNothing, TimesEmpty
      <3>3. /\ forkPc["parent"] = "fork" /\ forkPc'["parent"] = "failed"
            /\ forkPc["child"] = "off" /\ forkPc'["child"] = "off"
            /\ demo' = demo /\ terminal' = terminal
        BY <1>2, <2>1, <2>7 DEF Forks!ForkFails, ForksControl
      <3> QED
        BY <1>2, <2>1, <2>3, <3>2, <3>3
    <2>8. CASE Forks!ParentPrints
      BY <1>2, <2>1, <2>2, <2>3, <2>8, PrintfTimes DEF Forks!ParentPrints, ForksControl
    <2>9. CASE Forks!Wait
      <3>1. Forks!Printf("parent", "reaped")
        BY <2>9, <2>1 DEF Forks!Wait
      <3>2. /\ terminal =>
                 /\ stdio' = stdio /\ forkOut' = Append(forkOut, "reaped")
                 /\ Times(forkOut', "before") = Times(forkOut, "before") + 0
            /\ ~terminal =>
                 /\ forkOut' = forkOut /\ stdio'["child"] = stdio["child"]
                 /\ Times(stdio'["parent"], "before") = Times(stdio["parent"], "before") + 0
        BY <2>1, <2>2, <3>1, PrintfTimes
      <3>3. /\ forkPc["parent"] = "wait" /\ forkPc'["parent"] = "after"
            /\ forkPc'["child"] = forkPc["child"] /\ forkPc["child"] = "ended" /\ demo = "waiting"
            /\ demo' = demo /\ terminal' = terminal
        BY <1>2, <2>1, <2>9 DEF Forks!Wait, ForksControl
      <3> QED
        BY <1>2, <2>1, <2>3, <3>2, <3>3
    <2>10. CASE Forks!ExitUnflushed
      BY <1>2, <2>1, <2>3, <2>10 DEF Forks!ExitUnflushed, ForksControl
    <2>11. CASE Forks!ChildEnds
      <3>1. Forks!Flush("child", <<"child">>)
        BY <2>11 DEF Forks!ChildEnds
      <3>2. \A x : Times(forkOut', x) =
                 Times(forkOut, x) + Times(stdio["child"], x) + (IF x = "child" THEN 1 ELSE 0)
        BY <2>1, <2>2, <3>1, FlushOne
      <3>3. /\ stdio'["child"] = <<>> /\ stdio'["parent"] = stdio["parent"]
            /\ Times(forkOut', "before") = Times(forkOut, "before") + Times(stdio["child"], "before") + 0
            /\ Times(<<>>, "before") = 0
        BY <2>1, <2>2, <3>1, <3>2, FlushOne, TimesEmpty
      <3>4. /\ forkPc["child"] = "print" /\ forkPc'["child"] = "ended"
            /\ forkPc'["parent"] = forkPc["parent"]
            /\ forkPc["parent"] \in {"print", "wait"}
            /\ demo = "waiting" /\ demo' = demo /\ terminal' = terminal
        BY <1>2, <2>1, <2>11 DEF Forks!ChildEnds, ForksControl
      <3> QED
        BY <1>2, <2>1, <2>3, <3>3, <3>4
    <2>12. ASSUME NEW p \in Forks!Processes, Forks!Compare(p) \/ Forks!PrintPpid(p)
           PROVE  ForksBefore'
      <3>1. PICK line \in {"parent", "child"} : Forks!Printf(p, line)
        BY <1>2, <2>1, <2>12 DEF Forks!Compare, Forks!PrintPpid, ForksIInv, Forks!TypeOK
      <3>2. /\ terminal => stdio' = stdio /\ Times(forkOut', "before") = Times(forkOut, "before") + 0
            /\ ~terminal =>
                 /\ forkOut' = forkOut
                 /\ \A q \in Forks!Processes : q # p => stdio'[q] = stdio[q]
                 /\ Times(stdio'[p], "before") = Times(stdio[p], "before") + 0
        BY <2>1, <2>2, <3>1, PrintfTimes
      <3>3. /\ forkPc[p] = "print" /\ forkPc'[p] = "exit"
            /\ \A q \in Forks!Processes : q # p => forkPc'[q] = forkPc[q]
            /\ demo' = demo /\ terminal' = terminal
            /\ forkPc["parent"] # "before"  /\ forkPc["parent"] # "fork"
        BY <1>2, <2>1, <2>12 DEF Forks!Compare, Forks!PrintPpid, ForksControl
      <3>4. CASE p = "parent"
        BY <1>2, <2>1, <2>3, <3>2, <3>3, <3>4
      <3>5. CASE p = "child"
        BY <1>2, <2>1, <2>3, <3>2, <3>3, <3>5
      <3> QED
        BY <2>1, <3>4, <3>5
    <2>13. ASSUME NEW p \in Forks!Processes, Forks!Exit(p) PROVE ForksBefore'
      <3>1. Forks!Flush(p, <<>>)
        BY <2>13 DEF Forks!Exit
      <3>2. /\ Times(forkOut', "before") = Times(forkOut, "before") + Times(stdio[p], "before")
            /\ stdio'[p] = <<>> /\ \A q \in Forks!Processes : q # p => stdio'[q] = stdio[q]
            /\ Times(<<>>, "before") = 0
        BY <2>1, <2>2, <3>1, FlushNothing, TimesEmpty
      <3>3. /\ forkPc[p] = "exit" /\ forkPc'[p] = "ended"
            /\ \A q \in Forks!Processes : q # p => forkPc'[q] = forkPc[q]
            /\ demo' = demo /\ terminal' = terminal /\ demo # "waiting"
            /\ forkPc["child"] # "off" /\ forkPc["parent"] # "before" /\ forkPc["parent"] # "fork"
        BY <1>2, <2>1, <2>13 DEF Forks!Exit, ForksControl
      <3>4. CASE p = "parent"
        BY <1>2, <2>1, <2>3, <3>2, <3>3, <3>4
      <3>5. CASE p = "child"
        BY <1>2, <2>1, <2>3, <3>2, <3>3, <3>5
      <3> QED
        BY <2>1, <3>4, <3>5
    <2>14. CASE UNCHANGED forkVars
      BY <1>2, <2>14 DEF forkVars
    <2> QED
      BY <1>2, <2>1, <2>4, <2>5, <2>6, <2>7, <2>8, <2>9, <2>10, <2>11, <2>12, <2>13, <2>14,
         ForksSteps
      DEF Forks!Parent, Forks!Child
  <1> QED
    BY <1>1, <1>2 DEF IpcInit

LEMMA ForksLinesKept ==
  /\ IpcInit => ForksLines
  /\ ForksIInv /\ ForksControl /\ ForksLines /\ [IpcNext]_ipcVars => ForksLines'
  <1>1. ASSUME Forks!Init PROVE ForksLines
    <2>1. /\ "parent" \in Forks!Processes /\ "child" \in Forks!Processes
          /\ Forks!Processes = {"parent", "child"}
      BY DEF Forks!Processes
    <2>2. /\ \A p \in Forks!Processes : stdio[p] = <<>>
          /\ forkOut = <<>> /\ forkPc["child"] = "off"
          /\ forkPc["parent"] = IF demo = "groups" THEN "fork" ELSE "before"
      BY <1>1, <2>1 DEF Forks!Init
    <2> QED
      BY <2>1, <2>2, TimesEmpty DEF ForksLines, Done
  <1>2. ASSUME ForksIInv, ForksControl, ForksLines, [IpcNext]_ipcVars PROVE ForksLines'
    <2>1. /\ "parent" \in Forks!Processes /\ "child" \in Forks!Processes
          /\ Forks!Processes = {"parent", "child"}
          /\ demo \in {"intro", "groups", "waiting"} /\ terminal \in BOOLEAN
          /\ forkPc \in [Forks!Processes -> {"off", "before", "fork", "print", "wait", "after",
                                             "exit", "ended", "failed"}]
          /\ stdio \in [Forks!Processes -> Seq(Forks!Lines)] /\ forkOut \in Seq(Forks!Lines)
      BY <1>2 DEF ForksIInv, Forks!TypeOK, Forks!Processes, Forks!Demos
    <2>2. /\ {"before", "parent", "child", "reaped", "error"} = Forks!Lines
          /\ <<>> \in Seq(Forks!Lines) /\ <<"child">> \in Seq(Forks!Lines)
          /\ Forks!TypeOK
      BY <1>2 DEF Forks!Lines, ForksIInv
    <2>3. /\ \A x : Times(forkOut, x) \in Nat
          /\ \A x : Times(stdio["parent"], x) \in Nat /\ Times(stdio["child"], x) \in Nat
      BY <2>1, TimesOf
    <2> USE DEF Forks!To, Forks!Die, ForksLines, Done
    <2>4. CASE Forks!ShellEnds
      BY <1>2, <2>4 DEF Forks!ShellEnds
    <2>5. CASE Forks!Before
      BY <1>2, <2>1, <2>2, <2>3, <2>5, PrintfTimes DEF Forks!Before, ForksControl
    <2>6. CASE Forks!Fork
      BY <1>2, <2>1, <2>3, <2>6 DEF Forks!Fork, ForksControl
    <2>7. CASE Forks!ForkFails
      <3>1. Forks!Flush("parent", <<>>)
        BY <2>7 DEF Forks!ForkFails
      <3>2. /\ stdio'["parent"] = <<>> /\ stdio'["child"] = stdio["child"]
            /\ Times(forkOut', "child") = Times(forkOut, "child") + Times(stdio["parent"], "child")
            /\ Times(forkOut', "parent") = Times(forkOut, "parent") + Times(stdio["parent"], "parent")
            /\ Times(forkOut', "reaped") = Times(forkOut, "reaped") + Times(stdio["parent"], "reaped")
            /\ Times(<<>>, "child") = 0
            /\ Times(<<>>, "parent") = 0
            /\ Times(<<>>, "reaped") = 0
            /\ stdio["parent"] = <<>> => forkOut' = forkOut
        BY <2>1, <2>2, <3>1, FlushNothing, TimesEmpty
      <3>3. /\ forkPc["parent"] = "fork" /\ forkPc'["parent"] = "failed"
            /\ forkPc["child"] = "off" /\ forkPc'["child"] = "off"
            /\ demo' = demo /\ terminal' = terminal
        BY <1>2, <2>1, <2>7 DEF Forks!ForkFails, ForksControl
      <3>4. demo = "waiting" =>
              /\ Times(stdio["parent"], "child") = 0 /\ Times(forkOut, "child") = 0
              /\ Times(stdio["parent"], "parent") = 0 /\ Times(forkOut, "parent") = 0
              /\ Times(stdio["parent"], "reaped") = 0 /\ Times(forkOut, "reaped") = 0
              /\ Times(stdio["child"], "child") = 0 /\ Times(stdio["child"], "parent") = 0
              /\ Times(stdio["child"], "reaped") = 0
        BY <1>2, <2>1, <3>3
      <3>5. demo = "waiting" =>
              /\ Times(forkOut', "child") = 0 /\ Times(forkOut', "parent") = 0
              /\ Times(forkOut', "reaped") = 0
        BY <3>2, <3>4
      <3> QED
        BY <2>1, <3>2, <3>3, <3>4, <3>5
    <2>8. CASE Forks!ParentPrints
      <3>1. Forks!Printf("parent", "parent")
        BY <2>8, <2>1 DEF Forks!ParentPrints
      <3>2. /\ terminal =>
                 /\ stdio' = stdio /\ forkOut' = Append(forkOut, "parent")
                 /\ Times(forkOut', "child") = Times(forkOut, "child") + 0
                 /\ Times(forkOut', "parent") = Times(forkOut, "parent") + 1
                 /\ Times(forkOut', "reaped") = Times(forkOut, "reaped") + 0
            /\ ~terminal =>
                 /\ forkOut' = forkOut /\ stdio'["child"] = stdio["child"]
                 /\ Times(stdio'["parent"], "child") = Times(stdio["parent"], "child") + 0
                 /\ Times(stdio'["parent"], "parent") = Times(stdio["parent"], "parent") + 1
                 /\ Times(stdio'["parent"], "reaped") = Times(stdio["parent"], "reaped") + 0
        BY <2>1, <2>2, <3>1, PrintfTimes
      <3>3. /\ forkPc["parent"] = "print" /\ forkPc'["parent"] = "wait"
            /\ forkPc'["child"] = forkPc["child"] /\ demo = "waiting"
            /\ demo' = demo /\ terminal' = terminal
        BY <1>2, <2>1, <2>8 DEF Forks!ParentPrints, ForksControl
      <3> QED
        BY <1>2, <2>1, <2>3, <3>2, <3>3
    <2>9. CASE Forks!Wait
      <3>1. Forks!Printf("parent", "reaped")
        BY <2>9, <2>1 DEF Forks!Wait
      <3>2. /\ terminal =>
                 /\ stdio' = stdio /\ forkOut' = Append(forkOut, "reaped")
                 /\ Times(forkOut', "child") = Times(forkOut, "child") + 0
                 /\ Times(forkOut', "parent") = Times(forkOut, "parent") + 0
                 /\ Times(forkOut', "reaped") = Times(forkOut, "reaped") + 1
            /\ ~terminal =>
                 /\ forkOut' = forkOut /\ stdio'["child"] = stdio["child"]
                 /\ Times(stdio'["parent"], "child") = Times(stdio["parent"], "child") + 0
                 /\ Times(stdio'["parent"], "parent") = Times(stdio["parent"], "parent") + 0
                 /\ Times(stdio'["parent"], "reaped") = Times(stdio["parent"], "reaped") + 1
        BY <2>1, <2>2, <3>1, PrintfTimes
      <3>3. /\ forkPc["parent"] = "wait" /\ forkPc'["parent"] = "after"
            /\ forkPc'["child"] = forkPc["child"] /\ forkPc["child"] = "ended" /\ demo = "waiting"
            /\ demo' = demo /\ terminal' = terminal
        BY <1>2, <2>1, <2>9 DEF Forks!Wait, ForksControl
      <3>4. terminal => Forks!Last(forkOut') = "reaped"
        <4>1. /\ Append(forkOut, "reaped")[Len(forkOut) + 1] = "reaped"
              /\ Len(Append(forkOut, "reaped")) = Len(forkOut) + 1
          BY <2>1, <2>2, AppendProperties
        <4> QED
          BY <3>2, <4>1 DEF Forks!Last
      <3> QED
        BY <1>2, <2>1, <2>3, <3>2, <3>3, <3>4
    <2>10. CASE Forks!ExitUnflushed
      BY <1>2, <2>1, <2>3, <2>10 DEF Forks!ExitUnflushed, ForksControl
    <2>11. CASE Forks!ChildEnds
      <3>1. Forks!Flush("child", <<"child">>)
        BY <2>11 DEF Forks!ChildEnds
      <3>2. \A x : Times(forkOut', x) =
                 Times(forkOut, x) + Times(stdio["child"], x) + (IF x = "child" THEN 1 ELSE 0)
        BY <2>1, <2>2, <3>1, FlushOne
      <3>3. /\ stdio'["child"] = <<>> /\ stdio'["parent"] = stdio["parent"]
            /\ Times(forkOut', "child") = Times(forkOut, "child") + Times(stdio["child"], "child") + 1
            /\ Times(forkOut', "parent") = Times(forkOut, "parent") + Times(stdio["child"], "parent") + 0
            /\ Times(forkOut', "reaped") = Times(forkOut, "reaped") + Times(stdio["child"], "reaped") + 0
            /\ Times(<<>>, "child") = 0
            /\ Times(<<>>, "parent") = 0
            /\ Times(<<>>, "reaped") = 0
        BY <2>1, <2>2, <3>1, <3>2, FlushOne, TimesEmpty
      <3>4. /\ forkPc["child"] = "print" /\ forkPc'["child"] = "ended"
            /\ forkPc'["parent"] = forkPc["parent"]
            /\ forkPc["parent"] \in {"print", "wait"}
            /\ demo = "waiting" /\ demo' = demo /\ terminal' = terminal
        BY <1>2, <2>1, <2>11 DEF Forks!ChildEnds, ForksControl
      <3>5. /\ Times(stdio["child"], "child") = 0 /\ Times(forkOut, "child") = 0
            /\ Times(stdio["child"], "parent") = 0 /\ Times(stdio["child"], "reaped") = 0
            /\ Times(stdio["parent"], "child") = 0
        BY <1>2, <2>1, <3>4
      <3>6. /\ Times(forkOut', "child") = 1
            /\ Times(forkOut', "parent") = Times(forkOut, "parent")
            /\ Times(forkOut', "reaped") = Times(forkOut, "reaped")
        BY <2>3, <3>3, <3>5
      <3>7. Times(forkOut, "parent") = (IF terminal /\ forkPc["parent"] = "wait" THEN 1 ELSE 0)
            /\ Times(forkOut, "reaped") = 0
        BY <1>2, <3>4
      <3> QED
        BY <2>1, <3>3, <3>4, <3>5, <3>6, <3>7
    <2>12. ASSUME NEW p \in Forks!Processes, Forks!Compare(p) \/ Forks!PrintPpid(p)
           PROVE  ForksLines'
      BY <1>2, <2>1, <2>2, <2>3, <2>12, PrintfTimes DEF Forks!Compare, Forks!PrintPpid, ForksControl
    <2>13. ASSUME NEW p \in Forks!Processes, Forks!Exit(p) PROVE ForksLines'
      BY <1>2, <2>1, <2>2, <2>3, <2>13, FlushTimes, TimesEmpty DEF Forks!Exit, ForksControl
    <2>14. CASE UNCHANGED forkVars
      BY <1>2, <2>14 DEF forkVars
    <2> QED
      BY <1>2, <2>1, <2>4, <2>5, <2>6, <2>7, <2>8, <2>9, <2>10, <2>11, <2>12, <2>13, <2>14,
         ForksSteps
      DEF Forks!Parent, Forks!Child
  <1> QED
    BY <1>1, <1>2 DEF IpcInit

\* The effect of printf() on the lines both processes hold: one more of that line.
LEMMA ForksOwnPrintf ==
  ASSUME Forks!TypeOK, NEW p \in Forks!Processes, NEW line \in Forks!Lines,
         Forks!Printf(p, line), NEW x
  PROVE  /\ Times(forkOut', x) + Times(stdio'["parent"], x) + Times(stdio'["child"], x) =
              Times(forkOut, x) + Times(stdio["parent"], x) + Times(stdio["child"], x)
                + (IF x = line THEN 1 ELSE 0)
         /\ \A q \in Forks!Processes : q # p => stdio'[q] = stdio[q]
         /\ x # line => \A q \in Forks!Processes : Times(stdio'[q], x) = Times(stdio[q], x)
  <1>1. /\ Forks!Processes = {"parent", "child"} /\ p \in {"parent", "child"}
        /\ terminal \in BOOLEAN
        /\ Times(forkOut, x) \in Nat
        /\ Times(stdio["parent"], x) \in Nat /\ Times(stdio["child"], x) \in Nat
    BY TimesOf DEF Forks!Processes, Forks!TypeOK
  <1>2. CASE terminal
    <2>1. stdio' = stdio /\ Times(forkOut', x) = Times(forkOut, x) + (IF x = line THEN 1 ELSE 0)
      BY <1>2, PrintfTimes
    <2> QED
      BY <1>1, <2>1
  <1>3. CASE ~terminal
    <2>1. /\ forkOut' = forkOut /\ \A q \in Forks!Processes : q # p => stdio'[q] = stdio[q]
          /\ Times(stdio'[p], x) = Times(stdio[p], x) + (IF x = line THEN 1 ELSE 0)
      BY <1>3, PrintfTimes
    <2>2. CASE p = "parent"
      BY <1>1, <2>1, <2>2
    <2>3. CASE p = "child"
      BY <1>1, <2>1, <2>3
    <2> QED
      BY <1>1, <2>2, <2>3
  <1> QED
    BY <1>1, <1>2, <1>3

\* exit() moves what the process holds to the output.
LEMMA ForksOwnFlush ==
  ASSUME Forks!TypeOK, NEW p \in Forks!Processes, Forks!Flush(p, <<>>), NEW x
  PROVE  /\ Times(forkOut', x) + Times(stdio'["parent"], x) + Times(stdio'["child"], x) =
              Times(forkOut, x) + Times(stdio["parent"], x) + Times(stdio["child"], x)
         /\ \A q \in Forks!Processes : q # p => stdio'[q] = stdio[q]
         /\ Times(stdio'[p], x) = 0
  <1>1. /\ Forks!Processes = {"parent", "child"} /\ p \in {"parent", "child"}
        /\ Times(forkOut, x) \in Nat
        /\ Times(stdio["parent"], x) \in Nat /\ Times(stdio["child"], x) \in Nat
    BY TimesOf DEF Forks!Processes, Forks!TypeOK
  <1>2. /\ Times(forkOut', x) = Times(forkOut, x) + Times(stdio[p], x)
        /\ stdio'[p] = <<>>
        /\ \A q \in Forks!Processes : q # p => stdio'[q] = stdio[q]
    BY FlushNothing
  <1>3. Times(stdio'[p], x) = 0
    BY <1>2, TimesEmpty
  <1>4. CASE p = "parent"
    BY <1>1, <1>2, <1>3, <1>4
  <1>5. CASE p = "child"
    BY <1>1, <1>2, <1>3, <1>5
  <1> QED
    BY <1>1, <1>2, <1>3, <1>4, <1>5

LEMMA ForksOwnKept ==
  /\ IpcInit => ForksOwn
  /\ ForksIInv /\ ForksControl /\ ForksOwn /\ [IpcNext]_ipcVars => ForksOwn'
  <1> USE DEF ForksOwn
  <1>1. ASSUME Forks!Init PROVE ForksOwn
    <2>1. /\ Forks!Processes = {"parent", "child"}
          /\ stdio["parent"] = <<>> /\ stdio["child"] = <<>> /\ forkOut = <<>>
          /\ forkPc["child"] = "off" /\ forkPc["parent"] \in {"fork", "before"}
      BY <1>1 DEF Forks!Init, Forks!Processes
    <2>2. \A x : Times(<<>>, x) = 0
      BY TimesEmpty
    <2> QED
      BY <2>1, <2>2 DEF OwnKept, OutOrHeld
  <1>2. ASSUME ForksIInv, ForksControl, ForksOwn, [IpcNext]_ipcVars PROVE ForksOwn'
    <2>1. /\ Forks!Processes = {"parent", "child"}
          /\ demo \in {"intro", "groups", "waiting"}
          /\ forkPc \in [{"parent", "child"} -> {"off", "before", "fork", "print", "wait", "after",
                                             "exit", "ended", "failed"}]
          /\ role \in [{"parent", "child"} -> {"none", "parent", "child", "init"}]
          /\ stdio \in [{"parent", "child"} -> Seq(Forks!Lines)] /\ forkOut \in Seq(Forks!Lines)
          /\ {"before", "parent", "child", "reaped", "error"} = Forks!Lines
          /\ Forks!TypeOK
      BY <1>2 DEF ForksIInv, Forks!TypeOK, Forks!Processes, Forks!Demos, Forks!Lines
    <2>2. \A x : Times(forkOut, x) \in Nat /\ Times(stdio["parent"], x) \in Nat
                 /\ Times(stdio["child"], x) \in Nat
      BY <2>1, TimesOf
    <2> SUFFICES ASSUME demo' # "waiting", NEW line \in {"parent", "child"} PROVE OwnKept(line)'
      OBVIOUS
    <2>3. CASE UNCHANGED <<demo, forkPc, stdio, forkOut, role>>
      BY <1>2, <2>1, <2>3 DEF OwnKept, OutOrHeld, Forks!Printed, Forks!OwnLine
    <2>4. CASE Forks!Before
      <3>1. Forks!Printf("parent", "before") /\ demo' = demo /\ role' = role
            /\ forkPc["parent"] = "before" /\ forkPc' = [forkPc EXCEPT !["parent"] = "fork"]
        BY <2>4 DEF Forks!Before, Forks!To
      <3>4. /\ "parent" \in Forks!Processes /\ "child" \in Forks!Processes
            /\ "before" \in Forks!Lines /\ line # "before"
        BY <2>1
      <3>2. /\ Times(forkOut', line) + Times(stdio'["parent"], line) + Times(stdio'["child"], line) =
                 Times(forkOut, line) + Times(stdio["parent"], line) + Times(stdio["child"], line)
                   + (IF line = "before" THEN 1 ELSE 0)
            /\ line # "before" =>
                 \A q \in Forks!Processes : Times(stdio'[q], line) = Times(stdio[q], line)
        BY <2>1, <3>1, <3>4, ForksOwnPrintf
      <3>3. OwnKept(line) /\ forkPc'["parent"] = "fork" /\ forkPc'["child"] = forkPc["child"]
        BY <1>2, <2>1, <3>1
      <3> QED
        BY <2>1, <2>2, <3>1, <3>2, <3>3, <3>4 DEF OwnKept, OutOrHeld, Forks!Printed, Forks!OwnLine
    <2>5. CASE Forks!Fork
      <3>1. /\ demo' = demo /\ role' = role /\ forkOut' = forkOut
            /\ forkPc["parent"] = "fork" /\ forkPc["child"] = "off"
            /\ forkPc'["parent"] = "print" /\ forkPc'["child"] = "print"
            /\ stdio'["parent"] = stdio["parent"] /\ stdio'["child"] = stdio["parent"]
        BY <1>2, <2>1, <2>5 DEF Forks!Fork, ForksControl
      <3>2. OwnKept(line)
        BY <1>2, <3>1
      <3>3. Times(stdio["parent"], line) = 0 /\ Times(stdio["child"], line) = 0
        BY <2>1, <3>1, <3>2 DEF OwnKept
      <3> QED
        BY <2>1, <2>2, <3>1, <3>2, <3>3 DEF OwnKept, OutOrHeld
    <2>6. CASE Forks!ForkFails
      <3>1. Forks!Flush("parent", <<>>) /\ demo' = demo /\ role' = role
            /\ forkPc["parent"] = "fork" /\ forkPc' = [forkPc EXCEPT !["parent"] = "failed"]
        BY <2>6 DEF Forks!ForkFails, Forks!To
      <3>2. /\ Times(forkOut', line) + Times(stdio'["parent"], line) + Times(stdio'["child"], line) =
                 Times(forkOut, line) + Times(stdio["parent"], line) + Times(stdio["child"], line)
            /\ Times(stdio'["parent"], line) = 0 /\ stdio'["child"] = stdio["child"]
        BY <2>1, <3>1, ForksOwnFlush
      <3>3. OwnKept(line) /\ forkPc'["parent"] = "failed" /\ forkPc'["child"] = forkPc["child"]
        BY <1>2, <2>1, <3>1
      <3> QED
        BY <2>1, <2>2, <3>1, <3>2, <3>3 DEF OwnKept, OutOrHeld, Forks!Printed, Forks!OwnLine
    <2>7. CASE Forks!ParentPrints \/ Forks!Wait \/ Forks!ExitUnflushed \/ Forks!ChildEnds
      BY <1>2, <2>1, <2>7
      DEF Forks!ParentPrints, Forks!Wait, Forks!ExitUnflushed, Forks!ChildEnds, ForksControl
    <2>8. ASSUME NEW p \in Forks!Processes, Forks!Compare(p) \/ Forks!PrintPpid(p)
          PROVE  OwnKept(line)'
      <3>1. PICK own \in {"parent", "child"} : Forks!Printf(p, own) /\ own = Forks!OwnLine(p)'
        BY <2>1, <2>8 DEF Forks!Compare, Forks!PrintPpid, Forks!OwnLine
      <3>2. /\ demo' = demo /\ forkPc[p] = "print" /\ forkPc'[p] = "exit"
            /\ \A q \in Forks!Processes : q # p => role'[q] = role[q] /\ forkPc'[q] = forkPc[q]
        BY <2>1, <2>8 DEF Forks!Compare, Forks!PrintPpid, Forks!To
      <3>3. /\ Times(forkOut', line) + Times(stdio'["parent"], line) + Times(stdio'["child"], line) =
                 Times(forkOut, line) + Times(stdio["parent"], line) + Times(stdio["child"], line)
                   + (IF line = own THEN 1 ELSE 0)
            /\ \A q \in Forks!Processes : q # p => stdio'[q] = stdio[q]
        <4>1. Forks!TypeOK /\ own \in Forks!Lines /\ Forks!Printf(p, own)
          BY <2>1, <3>1
        <4> QED
          BY <4>1, ForksOwnPrintf
      <3>4. OwnKept(line)
        BY <1>2, <3>2
      <3>5. OutOrHeld(p, line) = 0 /\ OutOrHeld(p, line)' = (IF line = own THEN 1 ELSE 0)
        BY <3>1, <3>2 DEF OutOrHeld, Forks!Printed
      <3>6. \A q \in Forks!Processes : q # p =>
              OutOrHeld(q, line) \in Nat /\ OutOrHeld(q, line)' = OutOrHeld(q, line)
        BY <3>2 DEF OutOrHeld, Forks!Printed, Forks!OwnLine
      <3>7. OutOrHeld("parent", line)' + OutOrHeld("child", line)' =
              OutOrHeld("parent", line) + OutOrHeld("child", line) + (IF line = own THEN 1 ELSE 0)
        <4>1. CASE p = "parent"
          BY <2>1, <3>5, <3>6, <4>1
        <4>2. CASE p = "child"
          BY <2>1, <3>5, <3>6, <4>2
        <4> QED
          BY <2>1, <2>8, <4>1, <4>2
      <3>8. \A q \in Forks!Processes : forkPc'[q] # "exit" => Times(stdio'[q], line) = 0
        BY <2>8, <3>2, <3>3, <3>4 DEF OwnKept
      <3> QED
        BY <3>3, <3>4, <3>7, <3>8 DEF OwnKept
    <2>9. ASSUME NEW p \in Forks!Processes, Forks!Exit(p) PROVE OwnKept(line)'
      <3>1. Forks!Flush(p, <<>>) /\ demo' = demo /\ role' = role
            /\ forkPc[p] = "exit" /\ forkPc' = [forkPc EXCEPT ![p] = "ended"]
        BY <2>9 DEF Forks!Exit, Forks!Die, Forks!To
      <3>2. /\ Times(forkOut', line) + Times(stdio'["parent"], line) + Times(stdio'["child"], line) =
                 Times(forkOut, line) + Times(stdio["parent"], line) + Times(stdio["child"], line)
            /\ Times(stdio'[p], line) = 0
            /\ \A q \in Forks!Processes : q # p => stdio'[q] = stdio[q]
        BY <2>1, <3>1, ForksOwnFlush
      <3>3. OwnKept(line)
        BY <1>2, <3>1
      <3>4. \A q \in Forks!Processes : OutOrHeld(q, line)' = OutOrHeld(q, line)
        BY <2>1, <3>1 DEF OutOrHeld, Forks!Printed, Forks!OwnLine
      <3>5. \A q \in Forks!Processes : forkPc'[q] # "exit" => Times(stdio'[q], line) = 0
        BY <2>1, <3>1, <3>2, <3>3 DEF OwnKept
      <3>6. OutOrHeld("parent", line)' = OutOrHeld("parent", line) /\ OutOrHeld("child", line)' = OutOrHeld("child", line)
        BY <2>1, <3>4
      <3> QED
        BY <3>2, <3>3, <3>5, <3>6 DEF OwnKept
    <2>10. CASE Forks!ShellEnds
      BY <2>3, <2>10 DEF Forks!ShellEnds
    <2>11. CASE UNCHANGED forkVars
      BY <2>3, <2>11 DEF forkVars
    <2> QED
      BY <1>2, <2>1, <2>4, <2>5, <2>6, <2>7, <2>8, <2>9, <2>10, <2>11, ForksSteps
      DEF Forks!Parent, Forks!Child
  <1> QED
    BY <1>1, <1>2 DEF IpcInit

LEMMA CountIsTimes ==
  ASSUME Forks!TypeOK
  PROVE  \A x : Forks!Count(x) = Times(forkOut, x)
  <1>1. DOMAIN forkOut = 1..Len(forkOut)
    BY LenProperties DEF Forks!TypeOK
  <1>2. \A S : Forks!Cardinality(S) = Cardinality(S)
    BY DEF Forks!Cardinality, Cardinality
  <1> QED
    BY <1>1, <1>2 DEF Forks!Count, Times, At

\* TwoProcesses: of fork_intro, processgroups and forkingandwaiting, whatever the
\* order in which the shell, the parent and the child end.  A process that takes
\* itself for the other one is an orphan or has become one since; and at the end
\* each line has been written as often as there were processes that held it in
\* the buffer they flushed: twice for a line printed into a file before fork(),
\* never for what the parent of forkingandwaiting holds when it calls _exit().
THEOREM TwoProcessesTold == IpcSpec => []TwoProcesses
  <1> DEFINE Inv == ForksIInv /\ ForksControl /\ ForksRoles /\ ForksBefore /\ ForksLines
                 /\ ForksOwn
  <1>1. IpcInit => Inv
    BY ForksInitIInv, ForksControlKept, ForksRolesKept, ForksBeforeKept, ForksLinesKept,
       ForksOwnKept
  <1>2. Inv /\ [IpcNext]_ipcVars => Inv'
    BY ForksStepIInv, ForksControlKept, ForksRolesKept, ForksBeforeKept, ForksLinesKept,
       ForksOwnKept
  <1>3. Inv => TwoProcesses
    <2> SUFFICES ASSUME Inv PROVE Forks!Roles /\ Forks!Output
      BY DEF TwoProcesses
    <2>1. Forks!Roles
      BY DEF ForksRoles
    <2>2. ASSUME Forks!Ended("parent"), forkPc["child"] = "ended"
          PROVE  /\ Times(forkOut, "before") = CASE demo = "groups" -> 0
                                                [] demo = "intro" /\ ~terminal -> 2
                                                [] OTHER -> 1
                 /\ demo # "waiting" =>
                      \A line \in {"parent", "child"} :
                        Times(forkOut, line) =
                          Forks!Printed("parent", line) + Forks!Printed("child", line)
                 /\ demo = "waiting" =>
                      /\ Times(forkOut, "child") = 1
                      /\ Times(forkOut, "parent") = Times(forkOut, "reaped")
                      /\ Times(forkOut, "reaped") = (IF terminal THEN 1 ELSE 0)
                      /\ terminal => Forks!Last(forkOut) = "reaped"
      <3>1. forkPc["parent"] = "ended" /\ Done("parent") = 1 /\ Done("child") = 1
        BY <2>2 DEF Forks!Ended, ForksControl, Done
      <3>2. demo \in {"intro", "groups", "waiting"} /\ terminal \in BOOLEAN
        BY DEF ForksIInv, Forks!TypeOK, Forks!Demos
      <3>6. ASSUME demo # "waiting", NEW line \in {"parent", "child"}
            PROVE  Times(forkOut, line) =
                     Forks!Printed("parent", line) + Forks!Printed("child", line)
        <4>1. /\ "parent" \in Forks!Processes /\ "child" \in Forks!Processes
              /\ forkOut \in Seq(Forks!Lines)
          BY DEF Forks!Processes, ForksIInv, Forks!TypeOK
        <4>2. OwnKept(line) /\ Times(forkOut, line) \in Nat
          BY <3>6, <4>1, TimesOf DEF ForksOwn
        <4>3. Times(stdio["parent"], line) = 0 /\ Times(stdio["child"], line) = 0
          BY <2>2, <3>1, <4>1, <4>2 DEF OwnKept
        <4>4. OutOrHeld("parent", line) = Forks!Printed("parent", line)
              /\ OutOrHeld("child", line) = Forks!Printed("child", line)
          BY <2>2, <3>1 DEF OutOrHeld
        <4> QED
          BY <4>2, <4>3, <4>4 DEF OwnKept
      <3>3. CASE demo = "groups"
        BY <3>3, <3>6 DEF ForksBefore
      <3>4. CASE demo = "intro"
        BY <2>2, <3>1, <3>4, <3>6 DEF ForksBefore
      <3>5. CASE demo = "waiting"
        <4>1. Times(forkOut, "before") = 1
          BY <2>2, <3>1, <3>5 DEF ForksBefore
        <4> QED
          BY <3>1, <3>5, <4>1 DEF ForksLines
      <3> QED
        BY <3>2, <3>3, <3>4, <3>5
    <2>3. \A x : Forks!Count(x) = Times(forkOut, x)
      BY CountIsTimes DEF ForksIInv
    <2>4. Forks!Output
      BY <2>2, <2>3 DEF Forks!Output, Forks!Processes
    <2> QED
      BY <2>1, <2>4
  <1> QED
    BY <1>1, <1>2, <1>3, PTL DEF IpcSpec
===============================================================================
