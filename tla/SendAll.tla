------------------------------- MODULE SendAll -------------------------------
(***************************************************************************)
(* UnixSocketSendAllBytes.c: sendAllOfMessage loops on send() until as     *)
(* many bytes as the message has were accepted by the kernel.  Each call   *)
(* is send(socketFd, buffer, sizeof buffer, 0): it starts at the first     *)
(* byte again, and sizeof buffer is the size of a pointer.                 *)
(***************************************************************************)
EXTENDS Integers, Sequences

CONSTANTS
    PointerSize,  \* sizeof(char *), 8 on the usual machines
    Lengths       \* the lengths the function is called with

ASSUME SendAllAssumption == PointerSize \in Nat \ {0} /\ Lengths \subseteq Nat

VARIABLES
    pc,           \* "loop", "return"
    length,       \* the value *length had at the call
    totalSent, bytesLeft,
    numberSent,   \* the result of the last send(); not initialised
    result,       \* *length and the returned value, <<>> before the return
    wire          \* the bytes the kernel accepted, as offsets in buffer

vars == <<pc, length, totalSent, bytesLeft, numberSent, result, wire>>

Init ==
    /\ pc = "loop"
    /\ length \in Lengths
    /\ totalSent = 0
    /\ bytesLeft = length
    /\ numberSent \in {-1, 0}    \* whatever the register or stack slot held
    /\ result = <<>>
    /\ wire = <<>>

\* Mutant: totalSent is overwritten, not added to.
SendForgets(n) ==
    /\ pc = "loop" /\ totalSent < length
    /\ numberSent' = n
    /\ totalSent' = n
    /\ bytesLeft' = bytesLeft - n
    /\ wire' = wire \o [k \in 1..n |-> k]
    /\ UNCHANGED <<pc, length, result>>

\* send() accepts n bytes, from the first one of buffer.
Send(n) ==
    /\ pc = "loop" /\ totalSent < length
    /\ numberSent' = n
    /\ totalSent' = totalSent + n
    /\ bytesLeft' = bytesLeft - n
    /\ wire' = wire \o [k \in 1..n |-> k]
    /\ UNCHANGED <<pc, length, result>>

\* Mutant: *length keeps the value it had at the call.
ReturnLength(number) ==
    /\ result' = <<length, IF number = -1 THEN -1 ELSE 0>>
    /\ pc' = "return"
    /\ UNCHANGED <<length, totalSent, bytesLeft, wire>>

\* The assignment of totalSent to *length and the return.
Return(number) ==
    /\ result' = <<totalSent, IF number = -1 THEN -1 ELSE 0>>
    /\ pc' = "return"
    /\ UNCHANGED <<length, totalSent, bytesLeft, wire>>

\* send() = -1: break.
SendFails ==
    /\ pc = "loop" /\ totalSent < length
    /\ numberSent' = -1
    /\ Return(-1)

LoopEnds ==
    /\ pc = "loop" /\ totalSent >= length
    /\ Return(numberSent)
    /\ UNCHANGED numberSent

Over == pc = "return" /\ UNCHANGED vars

Running == (\E n \in 1..PointerSize : Send(n)) \/ SendFails \/ LoopEnds

Next == Running \/ Over

Spec == Init /\ [][Next]_vars

\* send() on a connected socket returns: the function is running code.
FairSpec == Spec /\ WF_vars(Running)

-----------------------------------------------------------------------------
(* Properties. *)

TypeOK ==
    /\ pc \in {"loop", "return"}
    /\ length \in Lengths
    /\ totalSent \in Nat
    /\ bytesLeft \in Int
    /\ numberSent \in -1..PointerSize
    /\ wire \in Seq(1..PointerSize)

\* The two counters stay complementary and count what the kernel took; the loop
\* takes too much by less than one pointer's size.
Accounting ==
    /\ totalSent + bytesLeft = length
    /\ Len(wire) = totalSent
    /\ totalSent > 0 => totalSent < length + PointerSize

\* What the caller learns: *length is what went out, and an error of a call that
\* sent something means the message was not finished.
HonestReport ==
    pc = "return" =>
        /\ result[1] = Len(wire)
        /\ result[2] = 0 => result[1] >= length
        /\ (result[2] = -1 /\ length > 0) => result[1] < length

\* The function returns.
Returns == <>(pc = "return")

\* "a function which could be used to ensure all bytes are sent": after a
\* successful return the wire carries the message, byte for byte.
AllBytesSent ==
    (pc = "return" /\ result[2] = 0) => wire = [k \in 1..length |-> k]
===============================================================================
