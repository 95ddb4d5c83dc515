------------------------------ MODULE MCServers ------------------------------
(***************************************************************************)
(* The two chat servers under one configuration file: the initial state    *)
(* chooses which of them is run, and the variables of the other one, its   *)
(* sockets included, keep their initial values.  The variables inherited   *)
(* from PollServer are those of the poll server.                           *)
(***************************************************************************)
EXTENDS MCPollServer

VARIABLES
    server,      \* "poll" or "select"
    selectQueue, selectSock, selectPeer, selectSent, selectRead, selectStream,
    selectUnread,
    master_set, select_set, fd_max, selectPc, selectI, selectJ, from, selectMsg

selectVars ==
    <<selectQueue, selectSock, selectPeer, selectSent, selectRead, selectStream,
      selectUnread, master_set, select_set, fd_max, selectPc, selectI, selectJ, from,
      selectMsg>>
allVars == <<server, vars, selectVars>>

Select == INSTANCE SelectServer WITH
    queue <- selectQueue, sock <- selectSock, peer <- selectPeer, sent <- selectSent,
    read <- selectRead, stream <- selectStream, unread <- selectUnread,
    pc <- selectPc, i <- selectI, j <- selectJ, msg <- selectMsg

ServersInit ==
    /\ server \in {"poll", "select"}
    /\ Init /\ Select!Init
    /\ server = "select" => \A k \in DOMAIN pfds : pfds[k].revents = "none"

PollOnly(step) == server = "poll" /\ step /\ UNCHANGED <<server, selectVars>>
SelectOnly(step) == server = "select" /\ step /\ UNCHANGED <<server, vars>>

\* One step of the server that runs, of one of its clients, or none any more.
ServersNext ==
    \/ PollOnly(Server) \/ SelectOnly(Select!Server)
    \/ \E client \in Clients :
         PollOnly(Client(client)) \/ SelectOnly(Select!Client(client))
    \/ PollOnly(Over) \/ SelectOnly(Select!Over)

ServersSpec == ServersInit /\ [][ServersNext]_allVars

\* The fairness of the two servers' own specifications.
FairServers ==
    /\ ServersSpec
    /\ WF_allVars(PollOnly(Server)) /\ WF_allVars(SelectOnly(Select!Server))
    /\ \A client \in Clients :
         WF_allVars(PollOnly(ClientReads(client)) \/ SelectOnly(Select!ClientReads(client)))

-----------------------------------------------------------------------------
\* The select server broadcasts what is written and closes the connections of those
\* who leave.
SelectResponsive == Select!Responsive
===============================================================================
