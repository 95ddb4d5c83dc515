------------------------------- MODULE ChatRoom -------------------------------
(***************************************************************************)
(* What both telnet servers promise, in the words of the poll server's     *)
(* header: "each message they send is broadcast to all other members in    *)
(* the chat currently".  Joining, leaving and saying something are atomic, *)
(* so everybody in the room hears the same conversation.                   *)
(***************************************************************************)
EXTENDS Integers, Sequences, FiniteSets

CONSTANTS
    Clients,
    MaxMsgs,     \* bound: messages one client writes
    Announces    \* the server tells the room who joins and leaves

ASSUME RoomAssumption == MaxMsgs \in Nat /\ Announces \in BOOLEAN

\* A message is its author and a number: 1, 2, ... for what the author wrote,
\* and two numbers for the server's notices about it.
Joined == -1
Left == -2
RoomMessages == Clients \X ({Joined, Left} \union 1..MaxMsgs)

VARIABLES
    status,      \* client -> "out" (not yet in), "in" the room, or "left"
    said,        \* client -> how many of its messages have been broadcast
    heard        \* client -> the messages broadcast to it, in order

vars == <<status, said, heard>>

TypeOK ==
    /\ status \in [Clients -> {"out", "in", "left"}]
    /\ said \in [Clients -> 0..MaxMsgs]
    /\ heard \in [Clients -> Seq(RoomMessages)]

Init ==
    /\ status = [c \in Clients |-> "out"]
    /\ said = [c \in Clients |-> 0]
    /\ heard = [c \in Clients |-> <<>>]

\* Mutant: one member gets the messages ahead of what it has not read yet.
BroadcastOvertakes(c, msgs) ==
    \E e \in Clients :
        heard' = [d \in Clients |->
                    IF status[d] # "in" \/ d = c THEN heard[d]
                    ELSE IF d = e THEN msgs \o heard[d] ELSE heard[d] \o msgs]

\* Mutant: the loop over the members stops one short.
BroadcastStopsShort(c, msgs) ==
    \E e \in Clients :
        heard' = [d \in Clients |->
                    IF status[d] = "in" /\ d # c /\ d # e THEN heard[d] \o msgs ELSE heard[d]]

\* Every member except c hears the messages.
Broadcast(c, msgs) ==
    heard' = [d \in Clients |->
                IF status[d] = "in" /\ d # c THEN heard[d] \o msgs ELSE heard[d]]

Announce(c, notice) == Broadcast(c, IF Announces THEN <<<<c, notice>>>> ELSE <<>>)

Join(c) ==
    /\ status[c] = "out"
    /\ status' = [status EXCEPT ![c] = "in"]
    /\ Announce(c, Joined)
    /\ UNCHANGED said

\* Mutant: data of a connection that was closed is still broadcast.
SayAfterLeaving(c) ==
    /\ status[c] # "out"
    /\ \E hi \in (said[c] + 1)..MaxMsgs :
         /\ said' = [said EXCEPT ![c] = hi]
         /\ Broadcast(c, [k \in 1..(hi - said[c]) |-> <<c, said[c] + k>>])
    /\ UNCHANGED status

\* Mutant: counts one message more than it broadcasts.
SayMiscounts(c) ==
    /\ status[c] = "in"
    /\ \E hi \in (said[c] + 1)..MaxMsgs :
         /\ said' = [said EXCEPT ![c] = hi + 1]
         /\ Broadcast(c, [k \in 1..(hi - said[c]) |-> <<c, said[c] + k>>])
    /\ UNCHANGED status

\* One or more messages of c reach every other member, and nobody else.
Say(c) ==
    /\ status[c] = "in"
    /\ \E hi \in (said[c] + 1)..MaxMsgs :
         /\ said' = [said EXCEPT ![c] = hi]
         /\ Broadcast(c, [k \in 1..(hi - said[c]) |-> <<c, said[c] + k>>])
    /\ UNCHANGED status

Leave(c) ==
    /\ status[c] = "in"
    /\ status' = [status EXCEPT ![c] = "left"]
    /\ Announce(c, Left)
    /\ UNCHANGED said

Next == \E c \in Clients : Join(c) \/ Say(c) \/ Leave(c)

Spec == Init /\ [][Next]_vars

-----------------------------------------------------------------------------
(* Properties. *)

Before(d, m, n) ==
    \E p, q \in DOMAIN heard[d] : p < q /\ heard[d][p] = m /\ heard[d][q] = n

\* Total order: two clients that heard the same two messages or notices heard
\* them in the same order, as the single-threaded broadcast loops promise.
TotalOrder ==
    \A d, e \in Clients : \A p, q \in DOMAIN heard[d] :
        p < q => ~Before(e, heard[d][q], heard[d][p])

\* The notices frame a conversation: nothing of a client is heard before the
\* notice that it joined or after the notice that it left.
Framed ==
    \A d, c \in Clients : \A k \in 1..MaxMsgs :
        ~Before(d, <<c, k>>, <<c, Joined>>) /\ ~Before(d, <<c, Left>>, <<c, k>>)
===============================================================================
