-------------------------- MODULE FileTransferProofs --------------------------
(***************************************************************************)
(* Uploads never mix, and what leaves only a part of one is a client that  *)
(* gives up, a file that changes, an error the server prints or, for a     *)
(* tail, fclose(), for any number of clients and blocks.                   *)
(***************************************************************************)
EXTENDS FileTransfer, SequenceTheorems, TLAPS

\* The first n blocks of client c.
Blocks(c, n) == [k \in 1..n |-> <<c, k>>]

\* The types without the sequences and without the cardinality of current.
Types ==
    /\ client \in [Clients -> {"off", "sending", "ok", "failed"}]
    /\ size \in [Clients -> 0..MaxBlocks] /\ length \in [Clients -> 0..MaxBlocks]
    /\ sent \in [Clients -> 0..MaxBlocks]
    /\ rcvd \in [Clients -> 0..MaxBlocks]
    /\ queue \in Seq(Clients)
    /\ conn \in [Clients -> {"none", "queued", "open", "closed"}]
    /\ parent \in {"poll", "fork", "wait"}
    /\ current \subseteq Clients
    /\ child \in [Clients -> ChildStates]
    /\ torn \subseteq 1..MaxBlocks /\ reported \in BOOLEAN

\* Every connection is accepted once: it is in the queue at most once, and then
\* nobody serves it yet.
QueueInv ==
    /\ \A k \in DOMAIN queue : conn[queue[k]] = "queued"
    /\ \A k, l \in DOMAIN queue : queue[k] = queue[l] => k = l
    /\ \A c \in Clients :
         /\ client[c] = "off" => conn[c] = "none"
         /\ conn[c] \in {"none", "queued"} => child[c] = "none"

\* A child that has not exited is the one the parent waits for.
ParentInv ==
    /\ parent = "poll" => current = {}
    /\ parent # "poll" => \E c \in Clients : current = {c}
    /\ parent = "fork" => \A c \in current : conn[c] = "open" /\ child[c] = "none"
    /\ \A c \in Clients : child[c] \notin {"none", "exited"} => parent = "wait" /\ c \in current

\* What a client has sent when it has closed its connection in good order.
SentInv ==
    \A c \in Clients :
      /\ rcvd[c] <= sent[c]
      /\ length[c] = size[c] => sent[c] <= size[c]
      /\ (client[c] = "ok" /\ length[c] = size[c]) => sent[c] = size[c]

\* The file is the beginning of one upload: of the one being received, or of one
\* whose child has exited, after the last block the client sent unless it has
\* printed an error; and whole, but for its tail, unless it has.
FileInv ==
    /\ \E c \in Clients : \E n \in 0..MaxBlocks : file = Blocks(c, n)
    /\ \A c \in Clients : child[c] = "recv" =>
         file = Blocks(c, rcvd[c]) /\ (~reported => torn = {})
    /\ \A c \in Clients :
         /\ child[c] \in {"none", "fopen"} => rcvd[c] = 0
         /\ (\E k \in DOMAIN file : file[k][1] = c) =>
              /\ child[c] \in {"recv", "exited"}
              /\ child[c] = "exited" =>
                   /\ file = Blocks(c, rcvd[c])
                   /\ \/ reported
                      \/ rcvd[c] = sent[c] /\ client[c] \in {"ok", "failed"} /\ TailLost

IInv == Types /\ QueueInv /\ ParentInv /\ SentInv /\ FileInv

-----------------------------------------------------------------------------
LEMMA BlocksFacts ==
    ASSUME NEW c, NEW n \in Nat
    PROVE  /\ DOMAIN Blocks(c, n) = 1..n
           /\ Len(Blocks(c, n)) = n
           /\ \A k \in 1..n : Blocks(c, n)[k] = <<c, k>>
BY DEF Blocks

LEMMA QueueIndices ==
    ASSUME Types
    PROVE  /\ Len(queue) \in Nat /\ DOMAIN queue = 1..Len(queue)
           /\ \A k \in 1..Len(queue) : queue[k] \in Clients
BY ElementOfSeq, LenProperties DEF Types

LEMMA InitIInv == Init => IInv
<1> SUFFICES ASSUME Init PROVE IInv
  OBVIOUS
<1> USE TransferAssumption DEF Init
<1>1. Types
  <2>1. torn \subseteq 1..MaxBlocks /\ reported \in BOOLEAN
    BY Zenon
  <2>2. /\ sent \in [Clients -> 0..MaxBlocks] /\ rcvd \in [Clients -> 0..MaxBlocks]
        /\ size \in [Clients -> 0..MaxBlocks] /\ length \in [Clients -> 0..MaxBlocks]
    OBVIOUS
  <2>3. /\ client \in [Clients -> {"off", "sending", "ok", "failed"}]
        /\ queue \in Seq(Clients)
        /\ conn \in [Clients -> {"none", "queued", "open", "closed"}]
        /\ parent \in {"poll", "fork", "wait"} /\ current \subseteq Clients
        /\ child \in [Clients -> ChildStates]
    BY DEF ChildStates
  <2> QED
    BY <2>1, <2>2, <2>3 DEF Types
<1>2. QueueInv
  BY DEF QueueInv
<1>3. ParentInv
  BY DEF ParentInv
<1>4. SentInv
  BY DEF SentInv
<1>5. FileInv
  <2>1. \A c \in Clients : file = Blocks(c, 0)
    BY DEF Blocks
  <2>2. \A k \in DOMAIN file : FALSE
    OBVIOUS
  <2> QED
    BY <2>1, <2>2 DEF FileInv
<1> QED
  BY <1>1, <1>2, <1>3, <1>4, <1>5 DEF IInv

-----------------------------------------------------------------------------
(* The client's steps. *)

LEMMA ConnectStep == ASSUME IInv, NEW c \in Clients, Connect(c) PROVE IInv'
<1> USE DEF IInv, Connect, Become, clientVars, serverVars, fileVars
<1>1. Types'
  BY DEF Types
<1>2. QueueInv'
  <2> DEFINE n == Len(queue)
  <2>1. /\ n \in Nat /\ DOMAIN queue = 1..n /\ \A k \in 1..n : queue[k] \in Clients
        /\ DOMAIN queue' = 1..n + 1 /\ queue'[n + 1] = c
        /\ \A k \in 1..n : queue'[k] = queue[k]
    BY QueueIndices, AppendProperties DEF Types
  <2>2. conn[c] = "none" /\ child[c] = "none"
    BY DEF QueueInv
  <2>3. \A k \in 1..n : conn[queue[k]] = "queued" /\ queue[k] # c
    BY <2>1, <2>2 DEF QueueInv
  <2> HIDE DEF n
  <2>4. \A k \in DOMAIN queue' : conn'[queue'[k]] = "queued"
    <3> SUFFICES ASSUME NEW k \in 1..n + 1 PROVE conn'[queue'[k]] = "queued"
      BY <2>1
    <3>1. CASE k = n + 1
      BY <2>1, <3>1 DEF Types
    <3>2. CASE k \in 1..n
      BY <2>1, <2>3, <3>2 DEF Types
    <3> QED
      BY <2>1, <3>1, <3>2
  <2>5. \A k, l \in DOMAIN queue' : queue'[k] = queue'[l] => k = l
    <3>1. \A k, l \in 1..n : queue[k] = queue[l] => k = l
      BY <2>1 DEF QueueInv
    <3> QED
      BY <2>1, <2>3, <3>1
  <2>6. \A d \in Clients :
          /\ client'[d] = "off" => conn'[d] = "none"
          /\ conn'[d] \in {"none", "queued"} => child'[d] = "none"
    BY <2>2 DEF QueueInv, Types
  <2> QED
    BY <2>4, <2>5, <2>6 DEF QueueInv
<1>3. ParentInv'
  BY DEF ParentInv, QueueInv, Types
<1>4. SentInv'
  BY DEF SentInv, Types
<1>5. FileInv'
  BY SMTT(60) DEF FileInv, TailLost, QueueInv, Types
<1> QED
  BY <1>1, <1>2, <1>3, <1>4, <1>5

LEMMA FileChangesStep == ASSUME IInv, NEW c \in Clients, FileChanges(c) PROVE IInv'
<1> USE DEF IInv, FileChanges, clientVars, serverVars, fileVars
<1>1. Types'
  BY DEF Types
<1>2. QueueInv' /\ ParentInv' /\ FileInv'
  BY DEF QueueInv, ParentInv, FileInv, TailLost
<1>3. SentInv'
  BY DEF SentInv, Types
<1> QED
  BY <1>1, <1>2, <1>3

LEMMA SendBlockStep == ASSUME IInv, NEW c \in Clients, SendBlock(c) PROVE IInv'
<1> USE TransferAssumption DEF IInv, SendBlock, clientVars, serverVars, fileVars
<1>1. Types'
  BY SMTT(60) DEF Types
<1>2. QueueInv' /\ ParentInv'
  BY DEF QueueInv, ParentInv
<1>3. SentInv'
  BY SMTT(60) DEF SentInv, Types
<1>4. FileInv'
  BY DEF FileInv, TailLost, Types
<1> QED
  BY <1>1, <1>2, <1>3, <1>4

\* SendFails, Finish and GivesUp: the client stops, and a client that stops with
\* "ok" has sent the whole file unless the file changed.
LEMMA StopStep ==
    ASSUME IInv, NEW c \in Clients, SendFails(c) \/ Finish(c) \/ GivesUp(c)
    PROVE  IInv'
<1> USE DEF IInv, Become, clientVars, serverVars, fileVars
<1>1. PICK s \in {"ok", "failed"} :
        /\ client[c] = "sending" /\ client' = [client EXCEPT ![c] = s]
        /\ s = "ok" => sent[c] >= length[c] \/ sent[c] = size[c]
        /\ UNCHANGED <<size, length, sent, queue, conn, serverVars>>
  BY DEF SendFails, Finish, GivesUp
<1>2. Types'
  BY <1>1 DEF Types
<1>3. QueueInv' /\ ParentInv'
  BY <1>1 DEF QueueInv, ParentInv, Types
<1>4. SentInv'
  BY <1>1 DEF SentInv, Types
<1>5. FileInv'
  BY <1>1 DEF FileInv, TailLost, Types
<1> QED
  BY <1>2, <1>3, <1>4, <1>5

-----------------------------------------------------------------------------
(* The parent's steps. *)

LEMMA AcceptStep == ASSUME IInv, Accept PROVE IInv'
<1> USE DEF IInv, Accept, clientVars, serverVars, fileVars
<1> DEFINE h == Head(queue)
<1>1. /\ h \in Clients /\ h = queue[1] /\ Len(queue) \in Nat /\ Len(queue) > 0
      /\ DOMAIN queue = 1..Len(queue)
      /\ Tail(queue) \in Seq(Clients) /\ Len(Tail(queue)) = Len(queue) - 1
      /\ \A k \in 1..Len(queue) - 1 : Tail(queue)[k] = queue[k + 1]
      /\ DOMAIN Tail(queue) = 1..Len(queue) - 1
  BY HeadTailProperties, EmptySeq, LenProperties DEF Types
<1>2. conn[h] = "queued" /\ child[h] = "none" /\ client[h] # "off"
  BY <1>1 DEF QueueInv
<1>3. Types'
  BY <1>1 DEF Types
<1>4. QueueInv'
  <2>1. ASSUME NEW k \in 1..Len(queue) - 1
        PROVE  queue[k + 1] # h /\ queue[k + 1] \in Clients /\ conn[queue[k + 1]] = "queued"
    <3>1. 1 \in DOMAIN queue /\ k + 1 \in DOMAIN queue /\ k + 1 # 1
      BY <1>1
    <3> QED
      BY <1>1, <3>1, QueueIndices DEF QueueInv
  <2>2. \A k \in DOMAIN queue' : conn'[queue'[k]] = "queued"
    <3> SUFFICES ASSUME NEW k \in 1..Len(queue) - 1 PROVE conn'[Tail(queue)[k]] = "queued"
      BY <1>1
    <3>1. Tail(queue)[k] = queue[k + 1] /\ conn' = [conn EXCEPT ![h] = "open"]
      BY <1>1
    <3> QED
      BY <2>1, <3>1 DEF Types
  <2>3. \A k, l \in DOMAIN queue' : queue'[k] = queue'[l] => k = l
    BY <1>1 DEF QueueInv
  <2>4. \A c \in Clients :
          /\ client'[c] = "off" => conn'[c] = "none"
          /\ conn'[c] \in {"none", "queued"} => child'[c] = "none"
    BY <1>1, <1>2 DEF QueueInv, Types
  <2> QED
    BY <2>2, <2>3, <2>4 DEF QueueInv
<1>5. ParentInv'
  BY <1>1, <1>2, ZenonT(60) DEF ParentInv, Types
<1>6. SentInv' /\ FileInv'
  BY DEF SentInv, FileInv, TailLost
<1> QED
  BY <1>3, <1>4, <1>5, <1>6

LEMMA ForkStep == ASSUME IInv, Fork PROVE IInv'
<1> USE DEF IInv, Fork, clientVars, serverVars, fileVars
<1>1. PICK c \in Clients : current = {c}
  BY DEF ParentInv
<1>2. /\ conn[c] = "open" /\ child[c] = "none"
      /\ child' = [child EXCEPT ![c] = "fopen"]
  BY <1>1 DEF ParentInv, Types
<1>3. Types'
  BY <1>2 DEF Types, ChildStates
<1>4. QueueInv'
  BY <1>2 DEF QueueInv, Types
<1>5. ParentInv'
  BY <1>1, <1>2 DEF ParentInv, Types
<1>6. SentInv'
  BY DEF SentInv
<1>7. FileInv'
  BY <1>2, SMTT(60) DEF FileInv, TailLost, Types
<1> QED
  BY <1>3, <1>4, <1>5, <1>6, <1>7

LEMMA ForkFailsStep == ASSUME IInv, ForkFails PROVE IInv'
<1> USE DEF IInv, ForkFails, clientVars, serverVars, fileVars
<1>1. PICK c \in Clients : current = {c}
  BY DEF ParentInv
<1>2. /\ conn[c] = "open" /\ child[c] = "none"
      /\ conn' = [conn EXCEPT ![c] = "closed"]
  BY <1>1 DEF ParentInv, Types
<1>3. Types'
  BY <1>2 DEF Types
<1>4. QueueInv'
  <2>1. \A k \in DOMAIN queue : queue[k] # c /\ queue[k] \in Clients
    BY <1>2, QueueIndices DEF QueueInv
  <2> QED
    BY <1>2, <2>1, ZenonT(60) DEF QueueInv, Types
<1>5. ParentInv'
  BY DEF ParentInv, Types
<1>6. SentInv' /\ FileInv'
  BY DEF SentInv, FileInv, TailLost
<1> QED
  BY <1>3, <1>4, <1>5, <1>6

\* The guard on the child is what keeps the children apart.
LEMMA WaitStep == ASSUME IInv, Wait PROVE IInv'
<1> USE DEF IInv, Wait, clientVars, serverVars, fileVars
<1>1. Types'
  BY DEF Types
<1>2. QueueInv' /\ SentInv' /\ FileInv'
  BY DEF QueueInv, SentInv, FileInv, TailLost
<1>3. ParentInv'
  BY DEF ParentInv
<1> QED
  BY <1>1, <1>2, <1>3

-----------------------------------------------------------------------------
(* The child's steps. *)

\* The child that runs is the only one, and its connection is not in the queue.
LEMMA ChildAlone ==
    ASSUME IInv, NEW c \in Clients, child[c] \notin {"none", "exited"}
    PROVE  /\ parent = "wait" /\ current = {c}
           /\ conn[c] \in {"open", "closed"}
           /\ \A k \in DOMAIN queue : queue[k] # c
           /\ \A d \in Clients \ {c} : child[d] \in {"none", "exited"}
BY DEF IInv, Types, QueueInv, ParentInv

LEMMA FopenStep == ASSUME IInv, NEW c \in Clients, Fopen(c) PROVE IInv'
<1> USE DEF IInv, Fopen, clientVars, serverVars, fileVars
<1>1. \A d \in Clients \ {c} : child[d] \in {"none", "exited"}
  BY ChildAlone
<1>2. Types'
  BY DEF Types, ChildStates
<1>3. QueueInv' /\ ParentInv' /\ SentInv'
  BY DEF QueueInv, ParentInv, SentInv, Types
<1>4. FileInv'
  <2>1. file' = Blocks(c, 0) /\ rcvd[c] = 0 /\ \A k \in DOMAIN file' : FALSE
    BY DEF Blocks, FileInv
  <2> QED
    BY <1>1, <2>1, TransferAssumption, SMTT(60) DEF FileInv, Types
<1> QED
  BY <1>2, <1>3, <1>4

LEMMA FopenFailsStep == ASSUME IInv, NEW c \in Clients, FopenFails(c) PROVE IInv'
<1> USE DEF IInv, FopenFails, clientVars, serverVars, fileVars
<1>1. Types'
  BY DEF Types, ChildStates
<1>2. QueueInv' /\ ParentInv' /\ SentInv'
  BY DEF QueueInv, ParentInv, SentInv, Types
<1>3. FileInv'
  BY SMTT(60) DEF FileInv, TailLost, Types
<1> QED
  BY <1>1, <1>2, <1>3

\* What a failed fwrite(), fclose() or exit() loses is a tail of what there is.
LEMMA LosesTail ==
    ASSUME Types, NEW n \in 1..MaxBlocks, Loses(n)
    PROVE  /\ torn' \subseteq 1..MaxBlocks
           /\ torn = {} => \A k \in torn' : k..n \subseteq torn'
<1>1. PICK first \in 1..n : torn' = torn \union (first..n)
  BY DEF Loses
<1>2. n \in Nat /\ n <= MaxBlocks /\ first \in Nat /\ MaxBlocks \in Nat
  BY <1>1, TransferAssumption
<1>3. first..n \subseteq 1..MaxBlocks
  BY <1>1, <1>2
<1> QED
  BY <1>1, <1>2, <1>3 DEF Types

\* The child writes at its own offset, which is the end of the file, since
\* nobody else has written since it truncated it.
LEMMA RecvNextStep ==
    ASSUME IInv, NEW c \in Clients, RecvBlock(c) \/ WriteFails(c)
    PROVE  IInv'
<1> USE DEF IInv, RecvNext, clientVars
<1>1. /\ RecvNext(c) /\ \A d \in Clients \ {c} : child[d] \in {"none", "exited"}
      /\ child[c] = "recv"
  BY ChildAlone DEF RecvBlock, WriteFails
<1>2. rcvd[c] \in Nat /\ sent[c] \in 0..MaxBlocks /\ rcvd[c] + 1 \in 1..MaxBlocks
  BY <1>1, TransferAssumption DEF Types
<1>3. /\ torn' \subseteq 1..MaxBlocks /\ reported' \in BOOLEAN
      /\ ~reported' => ~reported /\ torn' = torn
  BY <1>2, LosesTail DEF RecvBlock, WriteFails, Types
<1>4. Types'
  <2>1. rcvd[c] + 1 \in 0..MaxBlocks
    BY <1>2
  <2> QED
    BY <1>1, <1>3, <2>1 DEF Types
<1>5. QueueInv' /\ ParentInv'
  BY <1>1 DEF QueueInv, ParentInv
<1>6. SentInv'
  BY <1>1 DEF SentInv, Types
<1>7. FileInv'
  <2>1. /\ rcvd[c] \in Nat /\ rcvd[c] + 1 \in 0..MaxBlocks
        /\ rcvd' = [rcvd EXCEPT ![c] = rcvd[c] + 1] /\ rcvd'[c] = rcvd[c] + 1
        /\ child' = child /\ client' = client /\ sent' = sent
    BY <1>1, <1>2 DEF Types
  <2>2. file = Blocks(c, rcvd[c]) /\ (~reported => torn = {})
    BY <1>1 DEF FileInv
  <2>3. Len(file) = rcvd[c] /\ \A k \in 1..rcvd[c] : file[k] = <<c, k>>
    BY <2>1, <2>2, BlocksFacts
  <2>4. file' = Blocks(c, rcvd[c] + 1)
    BY <1>1, <2>1, <2>3 DEF WriteAt, Blocks
  <2>5. \A k \in DOMAIN file' : file'[k][1] = c
    BY <2>1, <2>4 DEF Blocks
  <2>6. \A d \in Clients : (\E k \in DOMAIN file' : file'[k][1] = d) => d = c
    BY <2>5
  <2>7. ~reported' => torn' = {}
    BY <1>3, <2>2
  <2>8. \A d \in Clients : child'[d] \in {"none", "fopen"} => rcvd'[d] = 0
    BY <1>1, <2>1 DEF FileInv, Types
  <2> QED
    BY <1>1, <2>1, <2>4, <2>6, <2>7, <2>8 DEF FileInv
<1> QED
  BY <1>4, <1>5, <1>6, <1>7

\* The child exits: the client is through or, after an error, may be anywhere.
LEMMA RecvExitStep ==
    ASSUME IInv, NEW c \in Clients, RecvEnd(c) \/ RecvFails(c)
    PROVE  IInv'
<1> USE DEF IInv, HungUp, Exit, clientVars
<1>1. /\ child[c] = "recv" /\ UNCHANGED <<clientVars, queue, rcvd, parent, current, file>>
      /\ child' = [child EXCEPT ![c] = "exited"] /\ conn' = [conn EXCEPT ![c] = "closed"]
      /\ reported' \in BOOLEAN /\ (~reported' => ~reported /\ HungUp(c))
      /\ torn' = torn \/ Loses(rcvd[c])
  BY DEF RecvEnd, RecvFails, Types
<1>2. \A k \in DOMAIN queue : queue[k] # c
  BY <1>1, ChildAlone
<1>3. /\ file = Blocks(c, rcvd[c]) /\ (~reported => torn = {})
      /\ rcvd[c] \in 0..MaxBlocks /\ rcvd[c] \in Nat /\ Len(file) = rcvd[c]
  BY <1>1, TransferAssumption, BlocksFacts DEF FileInv, Types
<1>4. /\ torn' \subseteq 1..MaxBlocks
      /\ torn = {} => \A k \in torn' : k..rcvd[c] \subseteq torn'
  <2>1. CASE torn' = torn
    BY <2>1 DEF Types
  <2>2. CASE Loses(rcvd[c])
    <3>1. rcvd[c] \in 1..MaxBlocks
      BY <1>3, <2>2, TransferAssumption DEF Loses
    <3> QED
      BY <2>2, <3>1, LosesTail
  <2> QED
    BY <1>1, <2>1, <2>2
<1>5. Types'
  BY <1>1, <1>4 DEF Types, ChildStates
<1>6. QueueInv'
  BY <1>1, <1>2, ChildAlone DEF QueueInv, Types
<1>7. ParentInv' /\ SentInv'
  BY <1>1 DEF ParentInv, SentInv, Types
<1>8. FileInv'
  <2>1. /\ child'[c] = "exited" /\ file' = file /\ rcvd' = rcvd /\ sent' = sent
        /\ client' = client
        /\ \A d \in Clients \ {c} : child'[d] = child[d] /\ child[d] \in {"none", "exited"}
    BY <1>1, ChildAlone DEF Types
  <2>2. \A k \in DOMAIN file : file[k][1] = c
    BY <1>3 DEF Blocks
  <2>3. ~reported' => rcvd[c] = sent[c] /\ client[c] \in {"ok", "failed"} /\ TailLost'
    BY <1>1, <1>3, <1>4, <2>1 DEF TailLost
  <2>4. \A d \in Clients : child'[d] \in {"none", "fopen"} => rcvd'[d] = 0
    BY <2>1 DEF FileInv
  <2>5. \E d \in Clients : \E n \in 0..MaxBlocks : file' = Blocks(d, n)
    BY <1>3, <2>1
  <2>6. ASSUME NEW d \in Clients, \E k \in DOMAIN file' : file'[k][1] = d PROVE d = c
    BY <2>1, <2>2, <2>6
  <2> QED
    BY <1>3, <2>1, <2>3, <2>4, <2>5, <2>6 DEF FileInv
<1> QED
  BY <1>5, <1>6, <1>7, <1>8

LEMMA NoFileEndsStep == ASSUME IInv, NEW c \in Clients, NoFileEnds(c) PROVE IInv'
<1> USE DEF IInv, NoFileEnds, Exit, clientVars, fileVars
<1>1. \A k \in DOMAIN queue : queue[k] # c
  BY ChildAlone
<1>2. Types'
  BY DEF Types, ChildStates
<1>3. QueueInv'
  BY <1>1, ChildAlone DEF QueueInv, Types
<1>4. ParentInv' /\ SentInv'
  BY DEF ParentInv, SentInv, Types
<1>5. FileInv'
  BY DEF FileInv, Types, TailLost
<1> QED
  BY <1>2, <1>3, <1>4, <1>5

-----------------------------------------------------------------------------
LEMMA StepIInv == IInv /\ [Next]_vars => IInv'
<1> SUFFICES ASSUME IInv, [Next]_vars PROVE IInv'
  OBVIOUS
<1>1. CASE UNCHANGED vars
  BY <1>1, SMTT(60) DEF IInv, Types, QueueInv, ParentInv, SentInv, FileInv, TailLost, vars, clientVars,
     serverVars, fileVars, fileVars
<1>2. ASSUME NEW c \in Clients, Connect(c) PROVE IInv'
  BY <1>2, ConnectStep
<1>3. ASSUME NEW c \in Clients, Upload(c) \/ GivesUp(c) PROVE IInv'
  BY <1>3, SendBlockStep, StopStep DEF Upload
<1>4. ASSUME NEW c \in Clients, FileChanges(c) PROVE IInv'
  BY <1>4, FileChangesStep
<1>5. ASSUME NEW c \in Clients, Child(c) \/ RecvFails(c) \/ NoFileEnds(c) PROVE IInv'
  BY <1>5, FopenStep, FopenFailsStep, RecvNextStep, RecvExitStep, NoFileEndsStep
  DEF Child, NoFileCrash
<1>6. CASE Parent
  BY <1>6, AcceptStep, ForkStep, ForkFailsStep, WaitStep DEF Parent
<1> QED
  BY <1>1, <1>2, <1>3, <1>4, <1>5, <1>6 DEF Next, Over, Mishap

LEMMA IInvApart == IInv => OneUploadAtATime
<1> SUFFICES ASSUME IInv PROVE OneUploadAtATime
  OBVIOUS
<1>1. \A c \in Clients : child[c] = "recv" =>
        file = [k \in 1..rcvd[c] |-> <<c, k>>] /\ (~reported => torn = {})
  BY DEF IInv, FileInv, Blocks
<1>2. \E c \in Clients : \A k \in DOMAIN file : file[k] = <<c, k>>
  <2>1. PICK c \in Clients, n \in 0..MaxBlocks : file = Blocks(c, n)
    BY DEF IInv, FileInv
  <2>2. n \in Nat
    BY TransferAssumption
  <2> QED
    BY <2>1, <2>2, BlocksFacts
<1>3. ASSUME NEW c \in Clients, child[c] = "exited", <<c, 1>> \in Range(file)
      PROVE  \/ Len(file) = size[c] /\ TailLost
             \/ client[c] = "failed" \/ length[c] # size[c]
             \/ reported
  <2>1. PICK k \in DOMAIN file : file[k] = <<c, 1>>
    BY <1>3 DEF Range
  <2>2. /\ file = Blocks(c, rcvd[c]) /\ rcvd[c] \in Nat
        /\ reported \/ (rcvd[c] = sent[c] /\ client[c] \in {"ok", "failed"} /\ TailLost)
    BY <1>3, <2>1, TransferAssumption, SMTT(60) DEF IInv, FileInv, Types
  <2>3. Len(file) = rcvd[c]
    BY <2>2, BlocksFacts
  <2> QED
    BY <2>2, <2>3 DEF IInv, SentInv
<1> QED
  BY <1>1, <1>2, <1>3 DEF OneUploadAtATime

\* The children that write to the hard-coded path never mix their uploads; and a
\* file that is not the whole upload is the work of a client that gave up, of a
\* file that changed, of an error the server printed or, its tail, of fclose().
THEOREM UploadsApart == Spec => []OneUploadAtATime
BY InitIInv, StepIInv, IInvApart, PTL DEF Spec
===============================================================================
