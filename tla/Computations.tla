------------------------------ MODULE Computations ------------------------------
(***************************************************************************)
(* The programs that compute and keep no state, as functions on words of a *)
(* few bits: the reversal of a byte, bit masks, floats packed in a word,   *)
(* the header checksum, the pages that are locked, and the pointers of the *)
(* array of persons.                                                       *)
(***************************************************************************)
EXTENDS Integers, Sequences, FiniteSetsExt, SequencesExt

CONSTANTS
    IntBits,     \* bits of the integer part of a packed float, 15 in the code
    FractionBits,\* of its fraction, 16
    GuardBits,   \* bound: further bits of the fraction of a float
    WordBits     \* of the words that are summed, 16

Pow(n) == 2^n
Bit(word, n) == (word \div Pow(n)) % 2
Sum(numbers) == FoldLeft(LAMBDA x, y : x + y, 0, numbers)
\* The word whose bits are bits[1], bits[2], ..., the lowest first.
FromBits(bits) == Sum([k \in DOMAIN bits |-> bits[k] * Pow(k - 1)])

-----------------------------------------------------------------------------
(* EndiannessConversion.c and Bitmasks.c, on bytes. *)

\* bigEndian |= ((littleEndian >> i) & 1) << (7 - i), for all i: bit i of the
\* result is bit 7 - i of the argument.
Reversed(byte) == FromBits([k \in 1..8 |-> Bit(byte, 8 - k)])

SetBit(byte, n) == byte + (1 - Bit(byte, n)) * Pow(n)
ClearBit(byte, n) == byte - Bit(byte, n) * Pow(n)

\* The bytes bitmasks() goes through from 32 on; (0 << 5) is 0 and clears them all.
Masked(byte) ==
    LET two == SetBit(byte, 2)
        both == SetBit(two, 0)
        first == ClearBit(both, 0)
    IN <<byte, two, both, first, ClearBit(first, 2), 0>>

\* Reversing twice changes nothing, and the samples of both programs come out as
\* their comments say: two bits set, and cleared again, give back the initial value,
\* of which the last mask clears the only bit left.
BytesRight(byte) ==
    /\ Reversed(Reversed(byte)) = byte
    /\ Reversed(213) = 171
    /\ Masked(32) = <<32, 36, 37, 36, 32, 0>>

-----------------------------------------------------------------------------
(* QuickAndDirtyPortableFloatingPoint.c.  A float is its sign and its        *)
(* magnitude, in units of 2^-(FractionBits + GuardBits).                     *)

Unit == Pow(FractionBits + GuardBits)

\* The sign, the integer part and the fraction, both cut to their fields.
htonf(sign, magnitude) ==
    [sign |-> IF magnitude = 0 THEN 0 ELSE sign,
     int |-> (magnitude \div Unit) % Pow(IntBits),
     fraction |-> (magnitude % Unit) \div Pow(GuardBits)]

ntohf(point) == point.int * Unit + point.fraction * Pow(GuardBits)

\* A float in the range of the packed integer part comes back with its sign,
\* rounded towards zero by less than the last bit; the next conversion changes
\* nothing.  Beyond the range the integer part is lost silently, in multiples
\* of 2^IntBits.
FloatRight(sign, magnitude) ==
    LET point == htonf(sign, magnitude)
        back == ntohf(point)
        lost == magnitude - back
    IN /\ magnitude < Pow(IntBits) * Unit => lost \in 0..(Pow(GuardBits) - 1)
       /\ (lost - (lost % Pow(GuardBits))) % (Pow(IntBits) * Unit) = 0
       /\ htonf(sign, back) = [point EXCEPT !.sign = IF back = 0 THEN 0 ELSE @]

-----------------------------------------------------------------------------
(* checksum() of UnixRawNetworkLayerSocketServer.c, on words of WordBits      *)
(* bits with a sum of twice as many.                                          *)

Word == Pow(WordBits)

Folded(sum) ==
    LET once == (sum \div Word) + (sum % Word)
    IN once + (once \div Word)

\* Mutant: the carries are added once.
checksumFoldedOnce(words) ==
    LET sum == Sum(words) % (Word * Word)
    IN Word - 1 - (((sum \div Word) + (sum % Word)) % Word)

\* An odd last byte is a word with an empty high half.
checksum(words) ==
    LET sum == Sum(words) % (Word * Word)
    IN Word - 1 - (Folded(sum) % Word)

\* Up to Word + 1 words the sum does not wrap, and two rounds of carries are
\* enough: the result is the complement of the sum in one's complement
\* arithmetic, the order of the words does not matter, and the words with their
\* checksum add up to a checksum of 0, which is how a header is verified.
ChecksumRight(words) ==
    LET total == Sum(words)
    IN Len(words) <= Word =>
         /\ checksum(words) = Word - 1 - (IF total = 0 THEN 0 ELSE ((total - 1) % (Word - 1)) + 1)
         /\ checksum(Reverse(words)) = checksum(words)
         /\ checksum(Append(words, checksum(words))) = 0

-----------------------------------------------------------------------------
(* MemoryResidence.c, in pages. *)

\* The calls of mlock(): first page and length.  lockLen is converted from
\* argv[1], the number of pages, and not from argv[3].
Locks(pages, step, len) ==
    LET lockLen == pages
        Starts == {j \in 0..pages : j % step = 0 /\ j + lockLen <= pages}
    IN {<<j, lockLen>> : j \in Starts}

Locked(pages, step, len) ==
    UNION {lock[1]..(lock[1] + lock[2] - 1) : lock \in Locks(pages, step, len)}

\* The specific pages that "lock-page-step lock-page-len" asks for: every step
\* pages as many as len, as long as they fit.
Asked(pages, step, len) ==
    {page \in 0..(pages - 1) :
       \E j \in 0..page : j % step = 0 /\ j + len <= pages /\ page < j + len}

\* The usage line: the pages that are locked are those that are asked for.  It is a
\* theorem (LengthIgnored) that they are not as soon as gaps are asked for.
LockedAsAsked(pages, step, len) == Locked(pages, step, len) = Asked(pages, step, len)

-----------------------------------------------------------------------------
(* The family of MemoryManagement.c, an array of FAMILY_SIZE persons. *)

Uninitialised == -2
Null == -1
Persons(size) == 0..(size - 1)

Person(person, i) ==
    IF i >= 3
    THEN [p \in DOMAIN person |->
            CASE p = i -> [child |-> 2, parent |-> Null]
              [] p < 3 -> [person[p] EXCEPT !.parent = i]
              [] OTHER -> person[p]]
    ELSE [person EXCEPT ![i].child = Null]

\* The loop of line 117.
Family(size) ==
    FoldLeft(Person,
             [p \in Persons(size) |-> [child |-> Uninitialised, parent |-> Uninitialised]],
             [k \in 1..size |-> k - 1])

\* The traversal reads no pointer that was not set, and finds the youngest three
\* to be children of the last person, if the family has four members or more.
\* A smaller FAMILY_SIZE, which the preprocessor allows, leaves every parent
\* uninitialised, and the first test reads it.
FamilyRight(size) ==
    LET family == Family(size)
    IN /\ size >= 4 => \A p \in Persons(size) :
            family[p].parent = (IF p < 3 THEN size - 1 ELSE Null)
       /\ size < 4 => \A p \in Persons(size) : family[p].parent = Uninitialised
       /\ \A p \in Persons(size) : family[p].child = (IF p < 3 THEN Null ELSE 2)

-----------------------------------------------------------------------------
\* One question to all of them that keep what they say: a byte, a float, words
\* and a family.
Right(question) ==
    CASE question.about = "byte" -> BytesRight(question.args[1])
      [] question.about = "float" -> FloatRight(question.args[1], question.args[2])
      [] question.about = "words" -> ChecksumRight(question.args)
      [] question.about = "family" -> FamilyRight(question.args[1])
=================================================================================
