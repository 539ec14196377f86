------------------------------- MODULE Words -------------------------------
(***************************************************************************)
(* Machine words.  The program's words have 32 bytes of 8 bits; here a     *)
(* word has WordBytes bytes of ByteBits bits, and nothing else in the      *)
(* runtime modules depends on the width.  A byte string is a sequence of   *)
(* byte values, most significant byte first.                               *)
(***************************************************************************)
EXTENDS Integers, Sequences, FiniteSets, FiniteSetsExt

CONSTANTS
    WordBytes, ByteBits,
    AddressBits     \* 160, of Solidity's addresses

ASSUME WordsAssumption ==
    WordBytes \in Nat \ {0} /\ ByteBits \in Nat \ {0} /\ AddressBits \in Nat

WordBits == WordBytes * ByteBits
ByteBase == 2^ByteBits

\* utils.TWO_POW256 and utils.MAX_INTEGER.
TWO_POW256 == 2^WordBits
MAX_INTEGER == TWO_POW256 - 1

Word == 0 .. MAX_INTEGER
Byte == 0 .. ByteBase - 1

\* Bit i of x (testn), and the number with the given bits.
Bit == 0 .. WordBits - 1
testn(x, i) == (x \div 2^i) % 2 = 1
FromBits(bits) == SumFunctionOnSet([i \in bits |-> 2^i], bits)

\* Two's complement.
fromTwos(x) == IF testn(x, WordBits - 1) THEN x - TWO_POW256 ELSE x
toTwos(x) == x % TWO_POW256

Abs(x) == IF x < 0 THEN -x ELSE x

\* BN.div truncates towards zero, \div rounds down.
Quotient(a, b) ==
    LET q == Abs(a) \div Abs(b)
    IN  IF (a < 0) # (b < 0) THEN -q ELSE q

divCeil(a, b) == (a + b - 1) \div b

\* Words needed for n bytes.
WordsFor(n) == divCeil(n, WordBytes)

ToBytes(x) ==
    [i \in 1 .. WordBytes |-> (x \div 2^(ByteBits * (WordBytes - i))) % ByteBase]
FromBytes(bytes) ==
    SumFunction([i \in DOMAIN bytes |-> bytes[i] * 2^(ByteBits * (Len(bytes) - i))])

\* Bytes a number needs (0 for 0), and a power modulo the word's size.
ByteLength(x) == Cardinality({i \in 0 .. WordBytes - 1 : x >= 2^(ByteBits * i)})
PowMod(base, exponent) ==
    LET pow[i \in 0 .. exponent] ==
            IF i = 0 THEN 1 ELSE (base * pow[i - 1]) % TWO_POW256
    IN  pow[exponent]

\* n bytes from position pos (counted from 0), zeroes where there are none.
Zeroes(n) == [i \in 1 .. n |-> 0]
Slice(bytes, pos, n) == SubSeq(bytes \o Zeroes(pos + n), pos + 1, pos + n)

\* The string with value written from position pos on, zeroes in a gap.
Overwrite(bytes, pos, value) ==
    IF value = << >> THEN bytes
    ELSE Slice(bytes, 0, pos) \o value \o SubSeq(bytes, pos + Len(value) + 1, Len(bytes))

\* The string filled up with zeroes to whole words, and to at least n words; and
\* the words it consists of.
PadToWords(bytes, n) ==
    Slice(bytes, 0, WordBytes * Max({n, WordsFor(Len(bytes))}))
AsWords(bytes) ==
    [i \in 1 .. Len(bytes) \div WordBytes |-> Slice(bytes, WordBytes * (i - 1), WordBytes)]

=============================================================================
