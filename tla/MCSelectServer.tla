--------------------------- MODULE MCSelectServer ---------------------------
(* SelectServer with small sets of clients and descriptors. *)
EXTENDS SelectServer, TLC
CONSTANTS a, b, c

Two == {a, b}
Three == {a, b, c}
SymTwo == Permutations(Two)
SymThree == Permutations(Three)
FdsFive == 3..5
FdsSix == 3..6
=============================================================================
