---------------------------- MODULE MCPollServer ----------------------------
(* PollServer with small sets: descriptor numbers from 3 up, as in a process *)
(* whose standard streams are open.                                          *)
EXTENDS PollServer, TLC
CONSTANTS a, b, c, d

Two == {a, b}
Three == {a, b, c}
Four == {a, b, c, d}
SymTwo == Permutations(Two)
SymThree == Permutations(Three)
SymFour == Permutations(Four)

FdsFive == 3..5
FdsSix == 3..6

\* Memory handed over by malloc and realloc: zeroed pages (descriptor 0 with no
\* events asked for never reports any), or anything in revents.
CleanJunk == {[fd |-> NoFd, revents |-> "none"]}
DirtyJunk == [fd : {NoFd}, revents : {"none", "in"}]
=============================================================================
