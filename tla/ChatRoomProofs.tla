---------------------------- MODULE ChatRoomProofs ----------------------------
(***************************************************************************)
(* Everybody in the room hears one conversation, and misses nothing of it  *)
(* from its arrival on, for any number of clients and of messages.         *)
(***************************************************************************)
EXTENDS RoomHistory, SequenceTheorems, TLAPS

\* The message has been broadcast, or the notice given.
Uttered(m) ==
    \/ m[2] \in 1..said[m[1]]
    \/ m[2] = Joined /\ status[m[1]] # "out"
    \/ m[2] = Left /\ status[m[1]] = "left"

\* What keeps the properties: only what was uttered is heard, and a client that
\* is still out has neither said nor heard anything.
HeardInv ==
    /\ \A d \in Clients : \A p \in DOMAIN heard[d] : Uttered(heard[d][p])
    /\ \A c \in Clients : status[c] = "out" => said[c] = 0 /\ heard[c] = <<>>

IInv == TypeOK /\ HeardInv /\ TotalOrder /\ Framed

USE RoomAssumption DEF Joined, Left

-----------------------------------------------------------------------------
(* Every action is the utterance of some messages of one member: what they *)
(* have in common.                                                         *)

\* The messages are all of c, none has been uttered, and their numbers go up.
New(c, msgs) ==
    /\ \A k \in DOMAIN msgs :
         msgs[k] \in RoomMessages /\ msgs[k][1] = c /\ ~Uttered(msgs[k])
    /\ \A k, l \in DOMAIN msgs : k < l => msgs[k][2] < msgs[l][2]

\* Each action lets c utter some messages: they are new, and uttered after it.
Utters(c, msgs) ==
    /\ Broadcast(c, msgs)
    /\ New(c, msgs)
    /\ \A k \in DOMAIN msgs : Uttered(msgs[k])'
    /\ \A m \in RoomMessages : Uttered(m) => Uttered(m)'

\* The place p of d is one that the broadcast of msgs added.
IsNew(d, p) == p \in DOMAIN heard'[d] \ DOMAIN heard[d]

\* What a broadcast does to what d has heard: old places stay, and the new ones,
\* which come after them, hold the messages in their order.
LEMMA Appended ==
    ASSUME TypeOK, NEW c \in Clients, NEW msgs \in Seq(RoomMessages), Broadcast(c, msgs),
           NEW d \in Clients
    PROVE  /\ heard'[d] \in Seq(RoomMessages)
           /\ Len(heard[d]) \in Nat /\ DOMAIN heard[d] = 1..Len(heard[d])
           /\ DOMAIN heard[d] \subseteq DOMAIN heard'[d] /\ DOMAIN heard'[d] \subseteq Nat
           /\ \A p \in DOMAIN heard[d] : heard'[d][p] = heard[d][p]
           /\ \A p \in DOMAIN heard'[d] : IsNew(d, p) =>
                /\ p > Len(heard[d]) /\ p - Len(heard[d]) \in DOMAIN msgs
                /\ heard'[d][p] = msgs[p - Len(heard[d])]
                /\ d # c /\ status[d] = "in"
           /\ (status[d] = "in" /\ d # c) =>
                \A k \in DOMAIN msgs : IsNew(d, Len(heard[d]) + k)
<1> DEFINE n == Len(heard[d])  h == heard[d] \o msgs
<1>1. heard[d] \in Seq(RoomMessages)
  BY DEF TypeOK
<1>2. /\ n \in Nat /\ Len(msgs) \in Nat /\ DOMAIN heard[d] = 1..n
      /\ DOMAIN msgs = 1..Len(msgs)
  BY <1>1
<1>3. /\ h \in Seq(RoomMessages) /\ DOMAIN h = 1..(n + Len(msgs))
      /\ \A p \in 1..n : h[p] = heard[d][p]
      /\ \A p \in n + 1..n + Len(msgs) : h[p] = msgs[p - n]
  BY <1>1, <1>2, ConcatProperties
<1>4. heard'[d] = IF status[d] = "in" /\ d # c THEN h ELSE heard[d]
  BY DEF Broadcast
<1> HIDE DEF n, h
<1>5. CASE status[d] = "in" /\ d # c
  BY <1>2, <1>3, <1>4, <1>5 DEF IsNew, n
<1>6. CASE ~(status[d] = "in" /\ d # c)
  BY <1>1, <1>2, <1>4, <1>6 DEF IsNew, n
<1> QED
  BY <1>5, <1>6

\* What was heard is a message, and has been uttered.
LEMMA OldHeard ==
    ASSUME TypeOK, HeardInv, NEW d \in Clients, NEW p \in DOMAIN heard[d]
    PROVE  heard[d][p] \in RoomMessages /\ Uttered(heard[d][p])
<1>1. heard[d] \in Seq(RoomMessages)
  BY DEF TypeOK
<1> QED
  BY <1>1 DEF HeardInv

\* The new places after an utterance: of other members, holding new messages of
\* c, with numbers that go up.
LEMMA NewHeard ==
    ASSUME TypeOK, NEW c \in Clients, NEW msgs \in Seq(RoomMessages), Utters(c, msgs),
           NEW d \in Clients, NEW p \in DOMAIN heard'[d], IsNew(d, p)
    PROVE  /\ heard'[d][p] \in RoomMessages
           /\ heard'[d][p][1] = c /\ ~Uttered(heard'[d][p]) /\ Uttered(heard[d][p])'
           /\ d # c /\ status[d] = "in"
           /\ \A q \in DOMAIN heard[d] : q < p
           /\ \A q \in DOMAIN heard'[d] :
                (IsNew(d, q) /\ p < q) => heard'[d][p][2] < heard'[d][q][2]
<1> DEFINE n == Len(heard[d])
<1>1. Broadcast(c, msgs) /\ New(c, msgs) /\ \A k \in DOMAIN msgs : Uttered(msgs[k])'
  BY DEF Utters
<1>2. /\ n \in Nat /\ DOMAIN heard[d] = 1..n /\ p > n /\ DOMAIN heard'[d] \subseteq Nat
      /\ p - n \in DOMAIN msgs /\ heard'[d][p] = msgs[p - n] /\ d # c /\ status[d] = "in"
  BY <1>1, Appended
<1>3. ASSUME NEW q \in DOMAIN heard'[d], IsNew(d, q), p < q
      PROVE  heard'[d][p][2] < heard'[d][q][2]
  <2>1. q - n \in DOMAIN msgs /\ heard'[d][q] = msgs[q - n]
    BY <1>1, <1>3, Appended
  <2>2. p - n < q - n
    BY <1>2, <1>3
  <2> QED
    BY <1>1, <1>2, <2>1, <2>2 DEF New
<1>4. \A q \in DOMAIN heard[d] : q < p
  BY <1>2
<1> QED
  BY <1>1, <1>2, <1>3, <1>4 DEF New

-----------------------------------------------------------------------------
(* The order. *)

\* A new message was heard by nobody, so the two clients of TotalOrder can only
\* disagree about two old messages, or about two new ones, whose order is that of
\* their numbers.
LEMMA OrderStep ==
    ASSUME TypeOK, HeardInv, TotalOrder,
           NEW c \in Clients, NEW msgs \in Seq(RoomMessages), Utters(c, msgs)
    PROVE  TotalOrder'
<1>1. SUFFICES ASSUME NEW d \in Clients, NEW e \in Clients,
                      NEW p \in DOMAIN heard'[d], NEW q \in DOMAIN heard'[d], p < q,
                      NEW r \in DOMAIN heard'[e], NEW s \in DOMAIN heard'[e], r < s,
                      heard'[e][r] = heard'[d][q], heard'[e][s] = heard'[d][p]
               PROVE  FALSE
  BY DEF TotalOrder, Before
<1>2. \A f \in Clients : \A k \in DOMAIN heard[f] :
        heard'[f][k] = heard[f][k] /\ Uttered(heard[f][k])
  BY Appended, OldHeard DEF Utters
<1>3. \A f \in Clients : \A k \in DOMAIN heard'[f] : IsNew(f, k) => ~Uttered(heard'[f][k])
  BY NewHeard
<1>4. \A f \in Clients : DOMAIN heard[f] \subseteq Nat /\ DOMAIN heard'[f] \subseteq Nat
  BY Appended DEF Utters
<1>5. CASE IsNew(d, p)
  <2>1. IsNew(d, q) /\ IsNew(e, r) /\ IsNew(e, s)
    <3>1. IsNew(d, q)
      BY <1>1, <1>4, <1>5, NewHeard DEF IsNew
    <3> QED
      BY <1>1, <1>2, <1>3, <1>5, <3>1 DEF IsNew
  <2>2. heard'[d][p][2] < heard'[d][q][2] /\ heard'[e][r][2] < heard'[e][s][2]
    BY <1>1, <1>5, <2>1, NewHeard
  <2>3. heard'[d][p][2] \in Int /\ heard'[d][q][2] \in Int
    BY <1>5, <2>1, NewHeard DEF RoomMessages
  <2> QED
    BY <1>1, <2>2, <2>3
<1>6. CASE ~IsNew(d, p)
  <2>1. p \in DOMAIN heard[d] /\ ~IsNew(e, s) /\ s \in DOMAIN heard[e]
    BY <1>1, <1>2, <1>3, <1>6 DEF IsNew
  <2>2. ~IsNew(e, r) /\ r \in DOMAIN heard[e]
    BY <1>1, <1>4, <2>1, NewHeard DEF IsNew
  <2>3. ~IsNew(d, q) /\ q \in DOMAIN heard[d]
    BY <1>1, <1>2, <1>3, <2>2 DEF IsNew
  <2>4. /\ heard[e][r] = heard[d][q] /\ heard[e][s] = heard[d][p]
    BY <1>1, <1>2, <2>1, <2>2, <2>3
  <2> QED
    BY <1>1, <2>1, <2>2, <2>3, <2>4 DEF TotalOrder, Before
<1> QED
  BY <1>5, <1>6

\* What is heard has been uttered, also afterwards.
LEMMA HeardStep ==
    ASSUME TypeOK, HeardInv,
           NEW c \in Clients, NEW msgs \in Seq(RoomMessages), Utters(c, msgs)
    PROVE  \A d \in Clients : \A p \in DOMAIN heard'[d] : Uttered(heard[d][p])'
<1> SUFFICES ASSUME NEW d \in Clients, NEW p \in DOMAIN heard'[d]
             PROVE  Uttered(heard[d][p])'
  OBVIOUS
<1>1. CASE IsNew(d, p)
  BY <1>1, NewHeard
<1>2. CASE ~IsNew(d, p)
  <2>1. p \in DOMAIN heard[d] /\ heard'[d][p] = heard[d][p]
    BY <1>2, Appended DEF IsNew, Utters
  <2> QED
    BY <2>1, OldHeard DEF Utters
<1> QED
  BY <1>1, <1>2

\* The frame: c is in the room while it says something, and only then.
LEMMA FramedStep ==
    ASSUME TypeOK, HeardInv, Framed,
           NEW c \in Clients, NEW msgs \in Seq(RoomMessages), Utters(c, msgs),
           \/ status[c] = "out" /\ \A k \in DOMAIN msgs : msgs[k][2] = Joined
           \/ status[c] = "in" /\ \A k \in DOMAIN msgs : msgs[k][2] = Left
           \/ status[c] = "in" /\ \A k \in DOMAIN msgs : msgs[k][2] > 0
    PROVE  Framed'
<1>1. SUFFICES ASSUME NEW d \in Clients, NEW e \in Clients, NEW k \in 1..MaxMsgs,
                      NEW p \in DOMAIN heard'[d], NEW q \in DOMAIN heard'[d], p < q,
                      \/ heard'[d][p] = <<e, k>> /\ heard'[d][q] = <<e, Joined>>
                      \/ heard'[d][p] = <<e, Left>> /\ heard'[d][q] = <<e, k>>
               PROVE  FALSE
  BY DEF Framed, Before
<1>2. DOMAIN heard[d] \subseteq Nat /\ DOMAIN heard'[d] \subseteq Nat
  BY Appended DEF Utters
<1>3. \A x \in DOMAIN heard[d] : heard'[d][x] = heard[d][x]
  BY Appended DEF Utters
<1>4. CASE ~IsNew(d, q)
  <2>1. q \in DOMAIN heard[d] /\ ~IsNew(d, p) /\ p \in DOMAIN heard[d]
    BY <1>1, <1>2, <1>4, NewHeard DEF IsNew
  <2> QED
    BY <1>1, <1>3, <2>1, SMTT(60) DEF Framed, Before
<1>5. CASE IsNew(d, q) /\ ~IsNew(d, p)
  <2>1. p \in DOMAIN heard[d] /\ heard'[d][p] = heard[d][p] /\ Uttered(heard[d][p])
    BY <1>3, <1>5, OldHeard DEF IsNew
  <2>2. heard'[d][q][1] = c /\ e = c
    BY <1>1, <1>5, NewHeard
  <2>3. PICK x \in DOMAIN msgs : heard'[d][q] = msgs[x]
    BY <1>5, Appended DEF Utters
  <2>4. status[c] = "out" => said[c] = 0
    BY DEF HeardInv
  <2> QED
    BY <1>1, <2>1, <2>2, <2>3, <2>4 DEF Uttered
<1>6. CASE IsNew(d, q) /\ IsNew(d, p)
  <2>1. PICK x \in DOMAIN msgs, y \in DOMAIN msgs :
          heard'[d][p] = msgs[x] /\ heard'[d][q] = msgs[y]
    BY <1>6, Appended DEF Utters
  <2>2. heard'[d][p][1] = c /\ e = c /\ heard'[d][p][2] < heard'[d][q][2]
    BY <1>1, <1>6, NewHeard
  <2> QED
    BY <1>1, <2>1, <2>2
<1> QED
  BY <1>4, <1>5, <1>6

-----------------------------------------------------------------------------
(* The actions. *)

LEMMA BroadcastTypes ==
    ASSUME TypeOK, NEW c \in Clients, NEW msgs \in Seq(RoomMessages), Broadcast(c, msgs)
    PROVE  heard' \in [Clients -> Seq(RoomMessages)]
<1>1. \A d \in Clients : heard'[d] \in Seq(RoomMessages)
  BY Appended
<1> QED
  BY <1>1 DEF Broadcast

\* A notice, if there is one, is a sequence of one message.
Notice(c, notice) == IF Announces THEN <<<<c, notice>>>> ELSE <<>>

LEMMA NoticeTypes ==
    ASSUME NEW c \in Clients, NEW notice \in {Joined, Left}
    PROVE  /\ Notice(c, notice) \in Seq(RoomMessages)
           /\ \A k \in DOMAIN Notice(c, notice) : k = 1 /\ Notice(c, notice)[k] = <<c, notice>>
BY DEF Notice, RoomMessages

LEMMA JoinUtters ==
    ASSUME IInv, NEW c \in Clients, Join(c) PROVE Utters(c, Notice(c, Joined))
<1> DEFINE msgs == Notice(c, Joined)
<1> USE DEF IInv
<1>1. /\ msgs \in Seq(RoomMessages) /\ Broadcast(c, msgs)
      /\ \A k \in DOMAIN msgs : k = 1 /\ msgs[k] = <<c, Joined>>
  BY NoticeTypes DEF Join, Announce, Notice
<1> HIDE DEF msgs
<1>2. /\ status[c] = "out" /\ said[c] = 0 /\ heard[c] = <<>>
      /\ status' = [status EXCEPT ![c] = "in"] /\ status'[c] = "in" /\ said' = said
  BY DEF Join, HeardInv, TypeOK
<1>3. New(c, msgs)
  BY <1>1, <1>2 DEF New, Uttered, RoomMessages
<1>4. \A k \in DOMAIN msgs : Uttered(msgs[k])'
  BY <1>1, <1>2 DEF Uttered
<1>5. \A m \in RoomMessages : Uttered(m) => Uttered(m)'
  BY <1>2 DEF Uttered, RoomMessages, TypeOK
<1> QED
  BY <1>1, <1>3, <1>4, <1>5 DEF Utters, msgs

LEMMA JoinStep == ASSUME IInv, NEW c \in Clients, Join(c) PROVE IInv'
<1> DEFINE msgs == Notice(c, Joined)
<1> USE DEF IInv
<1>1. /\ msgs \in Seq(RoomMessages) /\ Broadcast(c, msgs)
      /\ \A k \in DOMAIN msgs : k = 1 /\ msgs[k] = <<c, Joined>>
  BY NoticeTypes DEF Join, Announce, Notice
<1> HIDE DEF msgs
<1>2. /\ status[c] = "out" /\ said[c] = 0 /\ heard[c] = <<>>
      /\ status' = [status EXCEPT ![c] = "in"] /\ status'[c] = "in" /\ said' = said
  BY DEF Join, HeardInv, TypeOK
<1>3. Utters(c, msgs)
  BY JoinUtters DEF msgs
<1>4. TypeOK'
  BY <1>1, <1>2, BroadcastTypes DEF TypeOK
<1>5. HeardInv'
  <2>1. \A d \in Clients : status'[d] = "out" => said'[d] = 0 /\ heard'[d] = <<>>
    BY <1>1, <1>2 DEF HeardInv, TypeOK, Broadcast
  <2> QED
    BY <1>1, <1>3, <2>1, HeardStep DEF HeardInv
<1>6. TotalOrder' /\ Framed'
  BY <1>1, <1>2, <1>3, OrderStep, FramedStep
<1> QED
  BY <1>4, <1>5, <1>6

LEMMA LeaveUtters ==
    ASSUME IInv, NEW c \in Clients, Leave(c) PROVE Utters(c, Notice(c, Left))
<1> DEFINE msgs == Notice(c, Left)
<1> USE DEF IInv
<1>1. /\ msgs \in Seq(RoomMessages) /\ Broadcast(c, msgs)
      /\ \A k \in DOMAIN msgs : k = 1 /\ msgs[k] = <<c, Left>>
  BY NoticeTypes DEF Leave, Announce, Notice
<1> HIDE DEF msgs
<1>2. /\ status[c] = "in" /\ said' = said
      /\ status' = [status EXCEPT ![c] = "left"] /\ status'[c] = "left"
  BY DEF Leave, TypeOK
<1>3. New(c, msgs)
  BY <1>1, <1>2 DEF New, Uttered, RoomMessages
<1>4. \A k \in DOMAIN msgs : Uttered(msgs[k])'
  BY <1>1, <1>2 DEF Uttered
<1>5. \A m \in RoomMessages : Uttered(m) => Uttered(m)'
  BY <1>2 DEF Uttered, RoomMessages, TypeOK
<1> QED
  BY <1>1, <1>3, <1>4, <1>5 DEF Utters, msgs

LEMMA LeaveStep == ASSUME IInv, NEW c \in Clients, Leave(c) PROVE IInv'
<1> DEFINE msgs == Notice(c, Left)
<1> USE DEF IInv
<1>1. /\ msgs \in Seq(RoomMessages) /\ Broadcast(c, msgs)
      /\ \A k \in DOMAIN msgs : k = 1 /\ msgs[k] = <<c, Left>>
  BY NoticeTypes DEF Leave, Announce, Notice
<1> HIDE DEF msgs
<1>2. /\ status[c] = "in" /\ said' = said
      /\ status' = [status EXCEPT ![c] = "left"] /\ status'[c] = "left"
  BY DEF Leave, TypeOK
<1>3. Utters(c, msgs)
  BY LeaveUtters DEF msgs
<1>4. TypeOK'
  BY <1>1, <1>2, BroadcastTypes DEF TypeOK
<1>5. HeardInv'
  <2>1. \A d \in Clients : status'[d] = "out" => said'[d] = 0 /\ heard'[d] = <<>>
    BY <1>1, <1>2 DEF HeardInv, TypeOK, Broadcast
  <2> QED
    BY <1>1, <1>3, <2>1, HeardStep DEF HeardInv
<1>6. TotalOrder' /\ Framed'
  BY <1>1, <1>2, <1>3, OrderStep, FramedStep
<1> QED
  BY <1>4, <1>5, <1>6

LEMMA SayUtters ==
    ASSUME IInv, NEW c \in Clients, Say(c)
    PROVE  \E hi \in said[c] + 1..MaxMsgs, msgs \in Seq(RoomMessages) :
             /\ said' = [said EXCEPT ![c] = hi] /\ Utters(c, msgs)
             /\ DOMAIN msgs = 1..(hi - said[c])
             /\ \A k \in DOMAIN msgs : msgs[k] = <<c, said[c] + k>>
<1> USE DEF IInv
<1>1. PICK hi \in said[c] + 1..MaxMsgs :
        /\ said' = [said EXCEPT ![c] = hi]
        /\ Broadcast(c, [k \in 1..(hi - said[c]) |-> <<c, said[c] + k>>])
  BY DEF Say
<1>2. /\ status[c] = "in" /\ status' = status /\ said[c] \in 0..MaxMsgs /\ said'[c] = hi
      /\ hi \in Nat /\ hi - said[c] \in Nat
  BY <1>1 DEF Say, TypeOK
<1>3. PICK msgs : msgs = [k \in 1..(hi - said[c]) |-> <<c, said[c] + k>>]
  OBVIOUS
<1>4. /\ msgs \in Seq(RoomMessages) /\ DOMAIN msgs = 1..(hi - said[c])
      /\ \A k \in DOMAIN msgs : /\ msgs[k] = <<c, said[c] + k>> /\ said[c] + k > said[c]
                                /\ said[c] + k \in 1..hi /\ said[c] + k \in 1..MaxMsgs
  <2>1. \A k \in 1..(hi - said[c]) : said[c] + k \in 1..hi /\ said[c] + k \in 1..MaxMsgs
                                     /\ said[c] + k > said[c]
    BY <1>1, <1>2
  <2>2. \A k \in 1..(hi - said[c]) : <<c, said[c] + k>> \in RoomMessages
    BY <2>1 DEF RoomMessages
  <2>3. [k \in 1..(hi - said[c]) |-> <<c, said[c] + k>>] \in [1..(hi - said[c]) -> RoomMessages]
    BY <2>2
  <2>4. msgs \in [1..(hi - said[c]) -> RoomMessages]
    BY <1>3, <2>3
  <2>5. msgs \in Seq(RoomMessages)
    BY <1>2, <2>4, SeqDef, SMTT(60)
  <2> QED
    BY <1>3, <2>1, <2>5
<1>5. Utters(c, msgs)
  <2>1. New(c, msgs)
    <3>1. \A k \in DOMAIN msgs : msgs[k] \in RoomMessages /\ msgs[k][1] = c /\ ~Uttered(msgs[k])
      BY <1>2, <1>4, SMTT(60) DEF Uttered, RoomMessages
    <3>2. \A k, l \in DOMAIN msgs : k < l => said[c] + k < said[c] + l
      BY <1>2, <1>4
    <3> QED
      BY <1>4, <3>1, <3>2 DEF New
  <2>2. \A k \in DOMAIN msgs : Uttered(msgs[k])'
    BY <1>2, <1>4 DEF Uttered
  <2>3. \A m \in RoomMessages : Uttered(m) => Uttered(m)'
    <3>1. \A d \in Clients : said[d] \in Nat /\ said'[d] \in Nat /\ said[d] <= said'[d]
      BY <1>1, <1>2 DEF TypeOK
    <3>2. \A d \in Clients : \A k \in 1..said[d] : k \in 1..said'[d]
      BY <3>1
    <3> QED
      BY <1>2, <3>2 DEF Uttered, RoomMessages
  <2> QED
    BY <1>1, <1>3, <2>1, <2>2, <2>3 DEF Utters
<1> QED
  BY <1>1, <1>4, <1>5

LEMMA SayStep == ASSUME IInv, NEW c \in Clients, Say(c) PROVE IInv'
<1> USE DEF IInv
<1>1. PICK hi \in said[c] + 1..MaxMsgs, msgs \in Seq(RoomMessages) :
        /\ said' = [said EXCEPT ![c] = hi] /\ Utters(c, msgs)
        /\ DOMAIN msgs = 1..(hi - said[c])
        /\ \A k \in DOMAIN msgs : msgs[k] = <<c, said[c] + k>>
  BY SayUtters
<1>2. /\ status[c] = "in" /\ status' = status /\ said[c] \in 0..MaxMsgs /\ said'[c] = hi
      /\ hi \in Nat /\ hi \in 0..MaxMsgs
  BY <1>1 DEF Say, TypeOK
<1>3. TypeOK'
  BY <1>1, <1>2, BroadcastTypes DEF TypeOK, Utters
<1>4. HeardInv'
  <2>1. \A d \in Clients : status'[d] = "out" => said'[d] = 0 /\ heard'[d] = <<>>
    BY <1>1, <1>2 DEF HeardInv, TypeOK, Broadcast, Utters
  <2> QED
    BY <1>1, <2>1, HeardStep DEF HeardInv
<1>5. TotalOrder' /\ Framed'
  <2>1. \A k \in DOMAIN msgs : msgs[k][2] > 0
    BY <1>1, <1>2
  <2> QED
    BY <1>1, <1>2, <2>1, OrderStep, FramedStep
<1> QED
  BY <1>3, <1>4, <1>5

-----------------------------------------------------------------------------
LEMMA InitIInv == Init => IInv
<1> SUFFICES ASSUME Init PROVE IInv
  OBVIOUS
<1>1. \A d \in Clients : heard[d] = <<>> /\ DOMAIN heard[d] = {}
  BY DEF Init
<1>2. TypeOK
  BY DEF Init, TypeOK
<1>3. HeardInv /\ TotalOrder /\ Framed
  BY <1>1 DEF Init, HeardInv, TotalOrder, Framed, Before
<1> QED
  BY <1>2, <1>3 DEF IInv

LEMMA StepIInv == IInv /\ [Next]_vars => IInv'
<1>1. ASSUME IInv, UNCHANGED vars PROVE IInv'
  <2>1. UNCHANGED <<status, said, heard>>
    BY <1>1 DEF vars
  <2>2. TypeOK' /\ HeardInv'
    BY <1>1, <2>1 DEF IInv, TypeOK, HeardInv, Uttered
  <2>3. TotalOrder'
    BY <1>1, <2>1 DEF IInv, TotalOrder, Before
  <2>4. Framed'
    BY <1>1, <2>1 DEF IInv, Framed, Before
  <2> QED
    BY <2>2, <2>3, <2>4 DEF IInv
<1> QED
  BY <1>1, JoinStep, SayStep, LeaveStep DEF Next

\* The room keeps its types: nobody hears anything but notices and the messages
\* that clients write.
THEOREM TypeCorrect == Spec => []TypeOK
<1>1. IInv => TypeOK
  BY DEF IInv
<1> QED
  BY <1>1, InitIInv, StepIInv, PTL DEF Spec

\* Two clients hear what both of them hear in the same order.
THEOREM OneOrder == Spec => []TotalOrder
<1>1. IInv => TotalOrder
  BY DEF IInv
<1> QED
  BY <1>1, InitIInv, StepIInv, PTL DEF Spec

\* What a client says is heard between the two notices about it.
THEOREM WithinNotices == Spec => []Framed
<1>1. IInv => Framed
  BY DEF IInv
<1> QED
  BY <1>1, InitIInv, StepIInv, PTL DEF Spec
-----------------------------------------------------------------------------
(* What a member hears from its arrival on. *)

\* Where a new place is.
LEMMA NewPlace ==
    ASSUME TypeOK, NEW c \in Clients, NEW msgs \in Seq(RoomMessages), Utters(c, msgs),
           NEW d \in Clients, NEW p \in DOMAIN heard'[d], IsNew(d, p)
    PROVE  p - Len(heard[d]) \in DOMAIN msgs /\ heard'[d][p] = msgs[p - Len(heard[d])]
BY Appended DEF Utters

\* Adding NothingMissed to the invariant keeps it inductive.
MemoryInv == since \in [Clients -> [Clients -> Nat]] /\ NothingMissed

\* What changes of what d heard of e when c utters something: nothing if c is
\* another one, or only gives a notice.
LEMMA SameHeard ==
    ASSUME TypeOK, NEW c \in Clients, NEW msgs \in Seq(RoomMessages), Utters(c, msgs),
           NEW d \in Clients, NEW e \in Clients,
           e # c \/ \A k \in DOMAIN msgs : msgs[k][2] < 0
    PROVE  /\ HeardOf(d, e)' = HeardOf(d, e)
           /\ \A p \in HeardOf(d, e) : heard'[d][p] = heard[d][p]
           /\ NumbersHeard(d, e)' = NumbersHeard(d, e)
<1>1. /\ DOMAIN heard[d] \subseteq DOMAIN heard'[d]
      /\ \A p \in DOMAIN heard[d] : heard'[d][p] = heard[d][p]
  BY Appended DEF Utters
<1>2. \A p \in DOMAIN heard'[d] : IsNew(d, p) =>
         heard'[d][p] \in RoomMessages /\ heard'[d][p][1] = c
  BY NewHeard
<1>3. ASSUME NEW p \in DOMAIN heard'[d], IsNew(d, p)
      PROVE  ~(heard'[d][p][1] = e /\ heard'[d][p][2] > 0)
  <2>1. p - Len(heard[d]) \in DOMAIN msgs /\ heard'[d][p] = msgs[p - Len(heard[d])]
    BY <1>3, Appended DEF Utters
  <2>2. heard'[d][p][2] \in Int
    BY <1>2, <1>3 DEF RoomMessages
  <2> QED
    BY <1>2, <1>3, <2>1, <2>2
<1>4. HeardOf(d, e)' = HeardOf(d, e)
  BY <1>1, <1>3 DEF HeardOf, IsNew
<1>5. \A p \in HeardOf(d, e) : heard'[d][p] = heard[d][p]
  BY <1>1 DEF HeardOf
<1> QED
  BY <1>4, <1>5 DEF NumbersHeard

\* Whoever was in the room, or out of it, before and after keeps its memory.
LEMMA SinceStays ==
    ASSUME MemoryInv, since' = Arrivals,
           NEW d \in Clients, ~(status[d] # "in" /\ status'[d] = "in")
    PROVE  since'[d] = since[d]
BY DEF Arrivals

LEMMA SinceTypes ==
    ASSUME TypeOK, MemoryInv, since' = Arrivals
    PROVE  since' \in [Clients -> [Clients -> Nat]]
<1>1. said \in [Clients -> Nat]
  BY DEF TypeOK
<1> QED
  BY <1>1 DEF Arrivals, MemoryInv

LEMMA JoinMisses ==
    ASSUME IInv, MemoryInv, since' = Arrivals, NEW c \in Clients, Join(c)
    PROVE  NothingMissed'
<1> DEFINE msgs == Notice(c, Joined)
<1>1. /\ msgs \in Seq(RoomMessages) /\ Broadcast(c, msgs)
      /\ \A k \in DOMAIN msgs : k = 1 /\ msgs[k] = <<c, Joined>>
  BY NoticeTypes DEF Join, Announce, Notice
<1>2. Utters(c, msgs) /\ \A k \in DOMAIN msgs : msgs[k][2] < 0
  BY <1>1, JoinUtters
<1> HIDE DEF msgs
<1>3. /\ status[c] = "out" /\ heard[c] = <<>> /\ TypeOK
      /\ status' = [status EXCEPT ![c] = "in"] /\ said' = said
  BY DEF IInv, Join, HeardInv, TypeOK
<1> SUFFICES ASSUME NEW d \in Clients, NEW e \in Clients
             PROVE  HeardAll(d, e)'
  BY DEF NothingMissed
<1>0. HeardAll(d, e)
  BY DEF MemoryInv, NothingMissed
<1>4. /\ HeardOf(d, e)' = HeardOf(d, e) /\ NumbersHeard(d, e)' = NumbersHeard(d, e)
      /\ \A p \in HeardOf(d, e) : heard'[d][p] = heard[d][p]
  BY <1>1, <1>2, <1>3, SameHeard
<1>5. CASE d = c
  <2>1. HeardOf(d, e) = {} /\ NumbersHeard(d, e) = {}
    BY <1>3, <1>5 DEF HeardOf, NumbersHeard
  <2>2. since'[d] = said /\ said[e] \in Nat
    BY <1>3, <1>5 DEF Arrivals, TypeOK
  <2>3. said[e] \in said[e]..said[e] /\ (said[e] + 1)..said[e] = {}
    BY <2>2
  <2> QED
    BY <1>3, <1>4, <2>1, <2>2, <2>3 DEF HeardAll
<1>6. CASE d # c
  <2>1. status'[d] = status[d]
    BY <1>3, <1>6 DEF TypeOK
  <2>2. since'[d] = since[d]
    BY <2>1, SinceStays
  <2> QED
    BY <1>0, <1>3, <1>4, <2>1, <2>2 DEF HeardAll
<1> QED
  BY <1>5, <1>6

LEMMA LeaveMisses ==
    ASSUME IInv, MemoryInv, since' = Arrivals, NEW c \in Clients, Leave(c)
    PROVE  NothingMissed'
<1> DEFINE msgs == Notice(c, Left)
<1>1. /\ msgs \in Seq(RoomMessages) /\ Broadcast(c, msgs)
      /\ \A k \in DOMAIN msgs : k = 1 /\ msgs[k] = <<c, Left>>
  BY NoticeTypes DEF Leave, Announce, Notice
<1>2. Utters(c, msgs) /\ \A k \in DOMAIN msgs : msgs[k][2] < 0
  BY <1>1, LeaveUtters
<1> HIDE DEF msgs
<1>3. /\ TypeOK /\ said' = said
      /\ \A d \in Clients : status'[d] = "in" => status[d] = "in"
  BY DEF IInv, Leave, TypeOK
<1> SUFFICES ASSUME NEW d \in Clients, NEW e \in Clients
             PROVE  HeardAll(d, e)'
  BY DEF NothingMissed
<1>0. HeardAll(d, e)
  BY DEF MemoryInv, NothingMissed
<1>4. /\ HeardOf(d, e)' = HeardOf(d, e) /\ NumbersHeard(d, e)' = NumbersHeard(d, e)
      /\ \A p \in HeardOf(d, e) : heard'[d][p] = heard[d][p]
  BY <1>1, <1>2, <1>3, SameHeard
<1>5. since'[d] = since[d]
  BY <1>3, SinceStays
<1> QED
  BY <1>0, <1>3, <1>4, <1>5 DEF HeardAll

\* What a member hears when c says its messages said[c] + 1 .. hi.
LEMMA SayMisses ==
    ASSUME IInv, MemoryInv, since' = Arrivals, NEW c \in Clients, Say(c)
    PROVE  NothingMissed'
<1>1. PICK hi \in said[c] + 1..MaxMsgs, msgs \in Seq(RoomMessages) :
        /\ said' = [said EXCEPT ![c] = hi] /\ Utters(c, msgs)
        /\ DOMAIN msgs = 1..(hi - said[c])
        /\ \A k \in DOMAIN msgs : msgs[k] = <<c, said[c] + k>>
  BY SayUtters
<1>2. /\ TypeOK /\ said[c] \in Nat /\ hi \in Nat /\ said[c] < hi /\ said'[c] = hi
      /\ status' = status
  BY <1>1 DEF IInv, TypeOK, Say
<1> SUFFICES ASSUME NEW d \in Clients, NEW e \in Clients
             PROVE  HeardAll(d, e)'
  BY DEF NothingMissed
<1>0. HeardAll(d, e)
  BY DEF MemoryInv, NothingMissed
<1>3. since'[d] = since[d] /\ since[d][e] \in Nat
  BY <1>2, SinceStays DEF MemoryInv
<1>4. CASE e # c
  <2>1. /\ HeardOf(d, e)' = HeardOf(d, e) /\ NumbersHeard(d, e)' = NumbersHeard(d, e)
        /\ \A p \in HeardOf(d, e) : heard'[d][p] = heard[d][p]
    BY <1>1, <1>2, <1>4, SameHeard
  <2>2. said'[e] = said[e]
    BY <1>1, <1>4 DEF IInv, TypeOK
  <2> QED
    BY <1>0, <1>2, <1>3, <2>1, <2>2 DEF HeardAll
<1>5. CASE e = c /\ ~(status[d] = "in" /\ d # c)
  <2>1. heard'[d] = heard[d]
    BY <1>1, <1>5 DEF Utters, Broadcast
  <2>2. HeardOf(d, e)' = HeardOf(d, e) /\ NumbersHeard(d, e)' = NumbersHeard(d, e)
    BY <2>1 DEF HeardOf, NumbersHeard
  <2>3. \A last \in since[d][e]..said[e] : last \in since[d][e]..said'[e]
    BY <1>2, <1>3, <1>5
  <2>4. d # c => status'[d] # "in"
    BY <1>2, <1>5
  <2> QED
    BY <1>0, <1>3, <1>5, <2>1, <2>2, <2>3, <2>4 DEF HeardAll
<1>6. CASE e = c /\ status[d] = "in" /\ d # c
  <2>1. /\ DOMAIN heard[d] \subseteq DOMAIN heard'[d] /\ DOMAIN heard'[d] \subseteq Nat
        /\ \A p \in DOMAIN heard[d] : heard'[d][p] = heard[d][p]
    BY <1>1, <1>2, Appended DEF Utters
  <2>2. /\ NumbersHeard(d, c) = (since[d][c] + 1)..said[c] /\ since[d][c] <= said[c]
        /\ \A p, q \in HeardOf(d, c) : p < q => heard[d][p][2] < heard[d][q][2]
    BY <1>0, <1>3, <1>6 DEF HeardAll
  <2>3. \A p \in HeardOf(d, c) : heard[d][p][2] \in (since[d][c] + 1)..said[c]
    BY <2>2 DEF NumbersHeard
  <2>4. ASSUME NEW p \in DOMAIN heard'[d], IsNew(d, p)
        PROVE  /\ heard'[d][p][1] = c /\ heard'[d][p][2] \in said[c] + 1..hi
               /\ \A q \in DOMAIN heard[d] : q < p
               /\ \A q \in DOMAIN heard'[d] :
                    (IsNew(d, q) /\ p < q) => heard'[d][p][2] < heard'[d][q][2]
    <3>1. PICK k \in 1..(hi - said[c]) : heard'[d][p] = <<c, said[c] + k>>
      <4>1. p - Len(heard[d]) \in DOMAIN msgs /\ heard'[d][p] = msgs[p - Len(heard[d])]
        BY <1>1, <1>2, <2>4, Appended, SMTT(60) DEF Utters
      <4> QED
        BY <1>1, <4>1
    <3>2. said[c] + k \in said[c] + 1..hi
      BY <1>2
    <3>3. heard'[d][p][1] = c /\ heard'[d][p][2] = said[c] + k
      BY <3>1
    <3>4. /\ \A q \in DOMAIN heard[d] : q < p
          /\ \A q \in DOMAIN heard'[d] :
               (IsNew(d, q) /\ p < q) => heard'[d][p][2] < heard'[d][q][2]
      BY <1>1, <1>2, <2>4, NewHeard
    <3> QED
      BY <3>2, <3>3, <3>4
  <2>5. ASSUME NEW n \in said[c] + 1..hi
        PROVE  \E p \in HeardOf(d, c)' : heard'[d][p][2] = n
    <3>1. n - said[c] \in DOMAIN msgs
      BY <1>1, <1>2
    <3>2. PICK p : p = Len(heard[d]) + (n - said[c])
      OBVIOUS
    <3>3. IsNew(d, p)
      <4>1. \A k \in DOMAIN msgs : IsNew(d, Len(heard[d]) + k)
        BY <1>1, <1>2, <1>6, Appended DEF Utters
      <4> QED
        BY <3>1, <3>2, <4>1
    <3>4. p \in DOMAIN heard'[d] /\ Len(heard[d]) \in Nat /\ n \in Int
      BY <1>1, <1>2, <3>3, Appended DEF IsNew, Utters
    <3>5. p - Len(heard[d]) = n - said[c]
      BY <1>2, <3>2, <3>4
    <3>6. heard'[d][p] = msgs[n - said[c]]
      <4>1. heard'[d][p] = msgs[p - Len(heard[d])]
        BY <1>1, <1>2, <3>3, <3>4, NewPlace
      <4> QED
        BY <3>5, <4>1
    <3>7. heard'[d][p] = <<c, said[c] + (n - said[c])>> /\ said[c] + (n - said[c]) = n /\ n > 0
      BY <1>1, <1>2, <3>1, <3>4, <3>6
    <3> QED
      BY <3>4, <3>7 DEF HeardOf
  <2>6. \A p \in HeardOf(d, c)' : \/ p \in HeardOf(d, c) /\ heard'[d][p] = heard[d][p]
                                  \/ p \in DOMAIN heard'[d] /\ IsNew(d, p)
    BY <2>1 DEF HeardOf, IsNew
  <2>7. \A p \in HeardOf(d, c) : p \in HeardOf(d, c)' /\ heard'[d][p] = heard[d][p]
                                 /\ p \in DOMAIN heard[d]
    BY <2>1 DEF HeardOf
  <2>8. NumbersHeard(d, c)' = (since[d][c] + 1)..hi
    <3>1. ASSUME NEW n \in NumbersHeard(d, c)'
          PROVE  n \in (since[d][c] + 1)..hi
      <4>1. PICK p \in HeardOf(d, c)' : n = heard'[d][p][2]
        BY <3>1 DEF NumbersHeard
      <4>2. n \in (since[d][c] + 1)..said[c] \/ n \in said[c] + 1..hi
        BY <2>3, <2>4, <2>6, <4>1
      <4> QED
        BY <1>2, <1>3, <1>6, <2>2, <4>2
    <3>2. ASSUME NEW n \in (since[d][c] + 1)..hi
          PROVE  n \in NumbersHeard(d, c)'
      <4>1. CASE n <= said[c]
        <5>1. n \in (since[d][c] + 1)..said[c]
          BY <1>2, <1>3, <1>6, <3>2, <4>1
        <5>2. PICK p \in HeardOf(d, c) : heard[d][p][2] = n
          BY <2>2, <5>1 DEF NumbersHeard
        <5> QED
          BY <2>7, <5>2 DEF NumbersHeard
      <4>2. CASE ~(n <= said[c])
        <5>1. n \in said[c] + 1..hi
          BY <1>2, <1>3, <1>6, <3>2, <4>2
        <5> QED
          BY <2>5, <5>1 DEF NumbersHeard
      <4> QED
        BY <4>1, <4>2
    <3> QED
      BY <3>1, <3>2
  <2>9. ASSUME NEW p \in HeardOf(d, c)', NEW q \in HeardOf(d, c)', p < q
        PROVE  heard'[d][p][2] < heard'[d][q][2]
    <3>1. p \in Nat /\ q \in Nat
      BY <2>1, <2>9 DEF HeardOf
    <3>2. CASE p \in HeardOf(d, c) /\ q \in HeardOf(d, c)
      BY <2>2, <2>7, <2>9, <3>2
    <3>3. CASE p \in HeardOf(d, c) /\ q \in DOMAIN heard'[d] /\ IsNew(d, q)
      <4>1. heard'[d][p][2] \in (since[d][c] + 1)..said[c] /\ heard'[d][q][2] \in said[c] + 1..hi
        BY <2>3, <2>4, <2>7, <3>3
      <4> QED
        BY <1>2, <1>3, <1>6, <4>1
    <3>4. CASE p \in DOMAIN heard'[d] /\ IsNew(d, p)
      <4>1. q \in DOMAIN heard'[d] /\ IsNew(d, q)
        BY <2>4, <2>6, <2>7, <2>9, <3>1, <3>4
      <4> QED
        BY <2>4, <2>9, <3>4, <4>1
    <3> QED
      BY <2>6, <2>9, <3>2, <3>3, <3>4
  <2>10. hi \in since[d][c]..hi
    BY <1>2, <1>3, <1>6, <2>2
  <2> QED
    BY <1>2, <1>3, <1>6, <2>8, <2>9, <2>10 DEF HeardAll
<1> QED
  BY <1>4, <1>5, <1>6

LEMMA SameMemory ==
    ASSUME MemoryInv, UNCHANGED <<status, said, heard, since>> PROVE MemoryInv'
<1>1. ASSUME NEW d \in Clients, NEW e \in Clients PROVE HeardAll(d, e)'
  <2>1. HeardOf(d, e)' = HeardOf(d, e) /\ NumbersHeard(d, e)' = NumbersHeard(d, e)
    BY DEF HeardOf, NumbersHeard
  <2>2. HeardAll(d, e)
    BY DEF MemoryInv, NothingMissed
  <2> QED
    BY <2>1, <2>2 DEF HeardAll
<1> QED
  BY <1>1 DEF MemoryInv, NothingMissed

LEMMA MemoryStep ==
    ASSUME IInv, MemoryInv, [Next]_vars, [since' = Arrivals]_<<vars, since>>
    PROVE  MemoryInv'
<1>1. CASE UNCHANGED <<vars, since>>
  BY <1>1, SameMemory DEF vars
<1>2. CASE since' = Arrivals /\ UNCHANGED vars
  <2>1. since' = [d \in Clients |-> since[d]]
    BY <1>2 DEF vars, Arrivals
  <2>2. since' = since
    BY <2>1 DEF MemoryInv
  <2> QED
    BY <1>2, <2>2, SameMemory DEF vars
<1>3. CASE since' = Arrivals /\ Next
  <2>1. NothingMissed'
    BY <1>3, JoinMisses, SayMisses, LeaveMisses DEF Next
  <2> QED
    BY <1>3, <2>1, SinceTypes DEF MemoryInv, IInv
<1> QED
  BY <1>1, <1>2, <1>3

LEMMA MemoryInit == Init /\ NobodyCame => MemoryInv
<1> SUFFICES ASSUME Init, NobodyCame PROVE MemoryInv
  OBVIOUS
<1>1. \A d, c \in Clients : HeardOf(d, c) = {} /\ NumbersHeard(d, c) = {}
  BY DEF Init, HeardOf, NumbersHeard
<1>2. \A d, c \in Clients : since[d][c] = 0 /\ said[c] = 0 /\ status[d] = "out"
  BY DEF Init, NobodyCame
<1>3. 0 \in 0..0 /\ (0 + 1)..0 = {}
  OBVIOUS
<1> QED
  BY <1>1, <1>2, <1>3 DEF MemoryInv, NothingMissed, HeardAll, NobodyCame

\* Whatever remembers the arrivals beside a room finds that nothing is missed: the
\* form in which a specification that implements the room uses the theorem below.
THEOREM NothingMissedBeside == Spec /\ Remembers => []NothingMissed
<1>1. MemoryInv => NothingMissed
  BY DEF MemoryInv
<1> QED
  BY <1>1, InitIInv, StepIInv, MemoryInit, MemoryStep, PTL DEF Spec, Remembers

\* A member hears every message of every other one from its arrival on, each once
\* and in order, and never its own.
THEOREM NobodyMissesAnything == HistorySpec => []NothingMissed
<1>1. HistoryInit => Init /\ NobodyCame
  BY DEF HistoryInit
<1>2. [HistoryNext]_<<vars, since>> => [Next]_vars /\ [since' = Arrivals]_<<vars, since>>
  BY DEF HistoryNext
<1> QED
  BY <1>1, <1>2, NothingMissedBeside, PTL DEF HistorySpec, Spec, Remembers
===============================================================================
