----------------------------- MODULE MCChatRoom -----------------------------
(* Four clients in a room that announces arrivals and departures: the least *)
(* number for two clients to hear the texts of two others.  Each may say two *)
(* things, so that somebody can come in between them, and all together      *)
(* MaxTotal.                                                                *)
EXTENDS RoomHistory, FiniteSetsExt, TLC
CONSTANTS MaxTotal, a, b, c, d

Four == {a, b, c, d}
SymFour == Permutations(Four)

ShortNext ==
    HistoryNext /\ MapThenSumSet(LAMBDA client : said'[client], Clients) <= MaxTotal

\* HistorySpec with a bound on what is said.
ShortSpec == HistoryInit /\ [][ShortNext]_<<vars, since>>
=============================================================================
