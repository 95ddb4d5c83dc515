------------------------------ MODULE RoomHistory ------------------------------
(***************************************************************************)
(* The chat room with a memory of its own: what everybody had said when a  *)
(* member came in.  The memory changes nothing in the room; it lets a      *)
(* property say what "all other members in the chat currently" have heard. *)
(***************************************************************************)
EXTENDS ChatRoom

VARIABLE since   \* since[d][c]: how many messages of c had been said when d joined

\* Whoever comes in remembers what has been said so far.
Arrivals ==
    [d \in Clients |->
        IF status[d] # "in" /\ status'[d] = "in" THEN said ELSE since[d]]

NobodyCame == since = [d \in Clients |-> [c \in Clients |-> 0]]

\* The memory alone, for a specification that implements the room.
Remembers == NobodyCame /\ [][since' = Arrivals]_<<vars, since>>

HistoryInit == Init /\ NobodyCame
HistoryNext == Next /\ since' = Arrivals
HistorySpec == HistoryInit /\ [][HistoryNext]_<<vars, since>>

-----------------------------------------------------------------------------
(* Properties. *)

\* The places in what d heard where c said something, and what c said there.
HeardOf(d, c) == {p \in DOMAIN heard[d] : heard[d][p][1] = c /\ heard[d][p][2] > 0}
NumbersHeard(d, c) == {heard[d][p][2] : p \in HeardOf(d, c)}

\* d has heard nothing of itself; of another client it has heard what that one
\* said since d joined, to the last message while d is in the room.
HeardAll(d, c) ==
    /\ c = d => HeardOf(d, c) = {}
    /\ \A p, q \in HeardOf(d, c) : p < q => heard[d][p][2] < heard[d][q][2]
    /\ c # d => \E last \in since[d][c]..said[c] :
         /\ NumbersHeard(d, c) = (since[d][c] + 1)..last
         /\ status[d] = "in" => last = said[c]

\* The broadcast reaches "all other members in the chat currently": of another
\* client, a member has heard exactly what that one said since the member joined,
\* to the last message; one that has left heard it up to some message; each once
\* and in order, and nobody hears itself.
NothingMissed == \A d, c \in Clients : HeardAll(d, c)
===============================================================================
