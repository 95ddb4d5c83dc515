----------------------------- MODULE EventWatching -----------------------------
(***************************************************************************)
(* UnixFileEventWatching.c: the kernel queues events of a watched path,    *)
(* the program reads as many as fit in its buffer and walks over them.     *)
(* An event is a header followed by a name of variable length; sizes are   *)
(* in units of a header.  notificationMessage survives the event it was    *)
(* set for, and is not initialised.                                        *)
(***************************************************************************)
EXTENDS Integers, Sequences, SequencesExt

CONSTANTS
    MaxEvents,   \* bound: events that happen
    QueueRoom,   \* events the kernel keeps before it reports an overflow
    BufferSize   \* size of buffer, 4096 bytes in the code

\* The kinds of watchMask in the order in which the loop tests them.  An event
\* of the kernel's own (overflow, watch removed, unmount) is of none of them.
Kinds == <<"created", "deleted", "accessed", "closed", "modified", "moved">>
Mask(kind) == IF kind = "none" THEN {} ELSE {kind}

Unset == "unset"     \* notificationMessage before the first event
Null == "null"       \* an uninitialised pointer that happens to be NULL

VARIABLES
    watch,       \* "read", "walk", "crashed" (printf of a wild pointer)
    pending,     \* the events in the kernel's queue
    happened,    \* every event that entered that queue
    buffer,      \* the units read() returned: headers and <<>> for the names
    pointer,     \* bufferPointer, as the number of units before it
    message,     \* notificationMessage
    told         \* what was printed

eventVars == <<watch, pending, happened, buffer, pointer, message, told>>

Events == [mask : SUBSET Range(Kinds), len : 0..1]

TypeOK ==
    /\ watch \in {"read", "walk", "crashed"}
    /\ pending \in Seq(Events) /\ happened \in Seq(Events)
    /\ buffer \in Seq(Events \union {<<>>})
    /\ Len(buffer) <= BufferSize
    /\ pointer \in 0..Len(buffer)
    /\ message \in Range(Kinds) \union {Unset, Null}
    /\ told \in Seq(Range(Kinds))

Init ==
    /\ watch = "read"
    /\ pending = <<>> /\ happened = <<>>
    /\ buffer = <<>> /\ pointer = 0
    /\ message \in {Unset, Null}
    /\ told = <<>>

-----------------------------------------------------------------------------
(* The kernel. *)

\* An event that equals the last one in the queue is merged with it, and one
\* that finds the queue full becomes an event without a kind.
Happens(kind, len) ==
    LET event == IF Len(pending) >= QueueRoom
                 THEN [mask |-> {}, len |-> 0]
                 ELSE [mask |-> Mask(kind), len |-> len]
    IN /\ Len(happened) < MaxEvents
       /\ pending # <<>> => Last(pending) # event
       /\ pending' = Append(pending, event)
       /\ happened' = Append(happened, event)
       /\ UNCHANGED <<watch, buffer, pointer, message, told>>

\* A header, and the units of the name behind it.
Unit(event) == <<event>> \o [n \in 1..event.len |-> <<>>]

Units(events) ==
    LET upTo[n \in 0..Len(events)] ==
            IF n = 0 THEN <<>> ELSE upTo[n - 1] \o Unit(events[n])
    IN upTo[Len(events)]

\* read() returns the longest prefix of the queue that fits in the buffer.
Fits(n) == Len(Units(SubSeq(pending, 1, n))) <= BufferSize

-----------------------------------------------------------------------------
(* The program. *)

Read ==
    /\ watch = "read" /\ pending # <<>>
    /\ LET taken == Max({n \in 1..Len(pending) : Fits(n)})
       IN /\ buffer' = Units(SubSeq(pending, 1, taken))
          /\ pending' = SubSeq(pending, taken + 1, Len(pending))
    /\ pointer' = 0
    /\ watch' = "walk"
    /\ UNCHANGED <<happened, message, told>>

watchEvent == buffer[pointer + 1]

\* The six tests, each of which overwrites what the one before has set.
Chosen(mask) ==
    IF mask = {} THEN message
    ELSE Kinds[CHOOSE k \in DOMAIN Kinds :
           Kinds[k] \in mask /\ \A l \in (k + 1)..Len(Kinds) : Kinds[l] \notin mask]

\* Mutant: every event is taken to have a name.
AdvanceFixed == pointer' = pointer + 2

\* bufferPointer += sizeof(struct inotify_event) + watchEvent->len
Advance == pointer' = pointer + 1 + watchEvent.len

\* One event: a message is printed unless the pointer is NULL.
Walk ==
    /\ watch = "walk" /\ pointer < Len(buffer)
    /\ message' = Chosen(watchEvent.mask)
    /\ IF message' = Unset
       THEN watch' = "crashed" /\ UNCHANGED <<pointer, told>>
       ELSE /\ Advance
            /\ told' = IF message' = Null THEN told ELSE Append(told, message')
            /\ UNCHANGED watch
    /\ UNCHANGED <<pending, happened, buffer>>

EndOfWalk ==
    /\ watch = "walk" /\ pointer >= Len(buffer)
    /\ watch' = "read"
    /\ UNCHANGED <<pending, happened, buffer, pointer, message, told>>

Program == Read \/ Walk \/ EndOfWalk

\* What a watched directory and its file produce: entries carry a name.
Kernel ==
    \/ \E kind \in {"created", "deleted"} : Happens(kind, 1)
    \/ \E kind \in {"modified", "closed"}, len \in 0..1 : Happens(kind, len)
    \/ Happens("none", 0)

\* The program has crashed, or waits for events.
Over ==
    /\ watch = "crashed" \/ (watch = "read" /\ pending = <<>>)
    /\ UNCHANGED eventVars

Next == Program \/ Kernel \/ Over

FairSpec == Init /\ [][Next]_eventVars /\ WF_eventVars(Program)

-----------------------------------------------------------------------------
(* Properties. *)

\* The headers in the buffer that the pointer has still to meet.
Headers == {k \in (pointer + 1)..Len(buffer) : buffer[k] # <<>>}

\* How many events the program has been through, and which of them are of a kind
\* it watches.
Walked == Len(happened) - Len(pending) - Cardinality(Headers)
Watched == {k \in 1..Walked : happened[k].mask # {}}

\* "For each event it could be, print said event": whatever the lengths of the names
\* and however the events are divided among the calls of read(), every event of a
\* watched kind is told as what it is and in order, and no event is told twice.
EachEventTold ==
    /\ Len(told) <= Walked
    /\ \E line \in [Watched -> DOMAIN told] :
         \A k, l \in Watched :
            happened[k].mask = {told[line[k]]} /\ (k < l => line[k] < line[l])

\* "Print said event. If even is NULL, iterate the loop and continue": an event that
\* is none of the six is passed over, so nothing is told but those of a watched kind.
OthersPassedOver == Len(told) <= Cardinality(Watched)

\* The kernel's queue is emptied again and again, unless the program crashes on
\* the pointer it never set.
AllTold == []<>(watch = "crashed" \/ (pending = <<>> /\ watch = "read"))
===============================================================================
