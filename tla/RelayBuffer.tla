------------------------------ MODULE RelayBuffer ------------------------------
(***************************************************************************)
(* The buffers of UnixStreamTelnetServerWithSelect.c: a text is received   *)
(* without a terminator, copied with strcpy(), put behind "User N: " with  *)
(* sprintf(), and sent with a length of its own.  The buffer is zeroed     *)
(* once per call of select(), not once per text.  A byte is Nul, Label or  *)
(* the number of the text it comes from within the pass; a text may have   *)
(* zero bytes of its own, such as telnet sends behind a carriage return.   *)
(***************************************************************************)
EXTENDS Integers, Sequences, FiniteSetsExt

CONSTANTS
    BufferSize,   \* BUFFER_SIZE, 1024 in the code
    PrependSize,  \* sizeof prepend_string, 10 in the code
    Speakers,     \* digits of the descriptors in the pass, a sequence
    NulAt         \* bound: places in a text where a zero byte may be

Nul == 0
Label == -1

\* "User %d:" without its terminator: six characters and the digits, which is
\* four less than prepend_string has and the digits.
LabelLength(digits) == PrependSize - 4 + digits

VARIABLES
    buffer,
    speaker,     \* how many speakers the scan has been through in this pass
    lengths,     \* what recv() returned for each of them, 0 if it was not ready,
                 \* and -1, which is a huge size_t, if it has failed
    nuls,        \* the places of the zero bytes in the text of each of them
    relayed,     \* the bytes sent to everybody, for each of them
    overrun      \* a copy has left its array; nothing is said of what follows

relayVars == <<buffer, speaker, lengths, nuls, relayed, overrun>>

TypeOK ==
    /\ buffer \in [1..BufferSize -> Label..Len(Speakers)]
    /\ speaker \in 0..Len(Speakers)
    /\ Len(lengths) = speaker /\ Len(nuls) = speaker /\ Len(relayed) = speaker
    /\ overrun \in BOOLEAN

Zeroes == [k \in 1..BufferSize |-> Nul]

Init ==
    /\ buffer = Zeroes /\ speaker = 0
    /\ lengths = <<>> /\ nuls = <<>> /\ relayed = <<>> /\ overrun = FALSE

\* memset() before select().
Pass ==
    /\ speaker = Len(Speakers) /\ ~overrun
    /\ buffer' = Zeroes /\ speaker' = 0
    /\ lengths' = <<>> /\ nuls' = <<>> /\ relayed' = <<>>
    /\ UNCHANGED overrun

\* A speaker that select() did not report.
Silent ==
    /\ speaker < Len(Speakers) /\ ~overrun
    /\ speaker' = speaker + 1
    /\ lengths' = Append(lengths, 0) /\ nuls' = Append(nuls, {})
    /\ relayed' = Append(relayed, <<>>)
    /\ UNCHANGED <<buffer, overrun>>

\* The string in an array of bytes, as strlen() sees it; all of it without a Nul.
StringIn(bytes) ==
    SubSeq(bytes, 1, Min({k \in 1..Len(bytes) : bytes[k] = Nul} \union {Len(bytes) + 1}) - 1)

\* recv() puts n bytes at the start of the buffer, with zero bytes at these places,
\* and no terminator behind them.
Received(n, zeroes) ==
    [k \in 1..BufferSize |->
       IF k > n THEN buffer[k] ELSE IF k \in zeroes THEN Nul ELSE speaker + 1]

\* strcpy(message, buffer), sprintf(buffer, "%s %s", prepend_string, message)
Prefix(digits) == [k \in 1..(LabelLength(digits) + 1) |-> Label]
Message(n, zeroes, digits) == Prefix(digits) \o StringIn(Received(n, zeroes))

\* Mutant: the two spare bytes of the shortest label are forgotten.
SendLengthOff(n) == n + PrependSize - 2

\* bytes_received + sizeof prepend_string
SendLength(n) == n + PrependSize

Overruns(n, zeroes, digits) ==
    \/ LabelLength(digits) >= PrependSize
    \/ Len(StringIn(Received(n, zeroes))) = BufferSize
    \/ Len(Message(n, zeroes, digits)) >= BufferSize
    \/ SendLength(n) > BufferSize

Relay(n, zeroes) ==
    /\ speaker < Len(Speakers) /\ ~overrun
    /\ LET digits == Speakers[speaker + 1]
           text == Message(n, zeroes, digits)
           after == [k \in 1..BufferSize |->
                       IF k <= Len(text) THEN text[k]
                       ELSE IF k = Len(text) + 1 THEN Nul ELSE Received(n, zeroes)[k]]
       IN /\ overrun' = Overruns(n, zeroes, digits)
          /\ buffer' = IF overrun' THEN buffer ELSE after
          /\ relayed' = Append(relayed,
                               IF overrun' THEN <<>> ELSE SubSeq(after, 1, SendLength(n)))
    /\ speaker' = speaker + 1
    /\ lengths' = Append(lengths, n) /\ nuls' = Append(nuls, zeroes)

Next ==
    \/ Pass \/ Silent
    \/ \E n \in {-1} \union 1..BufferSize :
         \E zeroes \in SUBSET (NulAt \cap 1..n) : Relay(n, zeroes)

Spec == Init /\ [][Next]_relayVars

-----------------------------------------------------------------------------
(* Properties. *)

\* The bytes of the prefixes of a pass in which recv() has returned these lengths.
Prefixes(received) ==
    LET upTo[n \in 0..Len(received)] ==
            IF n = 0 THEN 0
            ELSE upTo[n - 1] + (IF received[n] = 0 THEN 0 ELSE LabelLength(Speakers[n]) + 1)
    IN upTo[Len(received)]

Longest == Max({0} \union {lengths[s] : s \in 1..speaker})

\* The speakers whose texts came before that of s in this pass.
Earlier(s) == {e \in 1..(s - 1) : lengths[e] # 0}

\* What strlen() makes of a text of n bytes: it ends before its first zero byte.
Strlen(n, zeroes) == Min(zeroes \union {n + 1}) - 1

\* Everybody gets the prefix and the text of n bytes up to its first zero byte,
\* nothing but the prefix if recv() has failed on a clean buffer.  With a descriptor
\* of one or two digits, or a zero byte in the text, more follows: behind the first
\* text of a pass zeroes, and bytes of the text itself if it was cut; behind a later
\* one also what an earlier text of the pass has left, never one of an earlier pass.
Whole(s, earlier, n, zeroes, bytes) ==
    LET begin == LabelLength(Speakers[s]) + 1
        said == Strlen(n, zeroes)
        tail == {bytes[k] : k \in (begin + Max({said, 0}) + 1)..Len(bytes)}
    IN /\ \A k \in 1..Min({begin, Len(bytes)}) : bytes[k] = Label
       /\ \A k \in 1..said : bytes[begin + k] = s
       /\ said < n => bytes[begin + said + 1] = Nul
       /\ Len(bytes) = begin + n + 3 - Speakers[s]
       /\ tail \subseteq {Nul} \union earlier
                         \union (IF earlier = {} THEN {} ELSE {Label})
                         \union (IF said < n THEN {s} ELSE {})

\* Every text that is relayed is whole up to its first zero byte.  No array is left
\* as long as the descriptor has three digits at most and the longest text, with all
\* the prefixes of the pass, fits: the prefixes pile up, since nothing cuts the
\* string in the buffer but such a byte.
RelayedText ==
    /\ \A s \in 1..speaker :
         relayed[s] # <<>> => Whole(s, Earlier(s), lengths[s], nuls[s], relayed[s])
    /\ overrun =>
         \/ Speakers[speaker] > 3
         \/ Prefixes(lengths) + Longest >= BufferSize
         \/ lengths[speaker] + PrependSize > BufferSize
==============================================================================
