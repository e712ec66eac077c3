------------------------------- MODULE Base64 --------------------------------
(***************************************************************************)
(* Base64Decode, character by character, and the encoding of RFC 4648 as   *)
(* its reference. A character is its value in the alphabet, Pad, or Other. *)
(***************************************************************************)
EXTENDS Naturals, Sequences, SequencesExt

Pad == 64
Other == 65

Invalid == <<"invalid">>

Padding(n) == [i \in 1..((4 - (n % 4)) % 4) |-> Pad]

\* binary_from_base64 takes '=' for 0, wherever it is.
Sextet(ch) == IF ch = Pad THEN 0 ELSE ch

\* transform_width: each group of four characters holds three bytes.
Group(s, g) ==
  LET S(k) == Sextet(s[4 * g + k])
  IN  64 * (64 * (64 * S(1) + S(2)) + S(3)) + S(4)

Octets(s) ==
  [i \in 1..(3 * (Len(s) \div 4)) |->
     (Group(s, (i - 1) \div 3) \div 256 ^ (2 - ((i - 1) % 3))) % 256]

PadCount(s) == Len(s) - SelectLastInSeq(s, LAMBDA ch : ch # Pad)

\* Mutant: nothing is removed for the padding that was added.
DecodeKeepsPadding(s) ==
  LET padded == s \o Padding(Len(s))
  IN  IF Other \in ToSet(s) \/ PadCount(padded) > 2
        THEN Invalid
        ELSE SubSeq(Octets(padded), 1, Len(Octets(padded)) - PadCount(s))

\* A string of a length that is not a multiple of four is padded, once.
Decode(s) ==
  LET padded == s \o Padding(Len(s))
  IN  IF Other \in ToSet(s) \/ PadCount(padded) > 2
        THEN Invalid
        ELSE SubSeq(Octets(padded), 1, Len(Octets(padded)) - PadCount(padded))

-----------------------------------------------------------------------------
\* RFC 4648: the bits of the bytes, six by six, zeros at the end, then padding.
Bit(bytes, i) ==
  IF i < 8 * Len(bytes) THEN (bytes[i \div 8 + 1] \div 2 ^ (7 - (i % 8))) % 2 ELSE 0

SixBits(bytes, c) ==
  LET B(k) == Bit(bytes, 6 * (c - 1) + k)
  IN  32 * B(0) + 16 * B(1) + 8 * B(2) + 4 * B(3) + 2 * B(4) + B(5)

Unpadded(bytes) == [c \in 1..((8 * Len(bytes) + 5) \div 6) |-> SixBits(bytes, c)]

Encode(bytes) == Unpadded(bytes) \o Padding(Len(Unpadded(bytes)))
==============================================================================
