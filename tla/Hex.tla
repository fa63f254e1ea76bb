-------------------------------- MODULE Hex --------------------------------
(***************************************************************************)
(* Bytes and the text that stands for them: the ids of nodes are written   *)
(* in hexadecimal in the program that configures the library, and a record *)
(* of the database ends with a digest in hexadecimal.  A text is a         *)
(* sequence of character codes.  The program has HashSize = 64 for node    *)
(* ids (h512) and 32 for digests (h256).                                   *)
(***************************************************************************)
EXTENDS Integers, Sequences

\* The codes of the characters named in the source.
Digit0 == 48
Digit9 == 57
UpperA == 65
UpperF == 70
LowerA == 97
LowerF == 102
LowerX == 120

\* What fromHex throws on a character that is no digit.
BadHexCharacter == <<-1>>

\* Mutant of FromHexChar: the capital letters count from 0.
FromHexCharLower(c) ==
  IF c \in Digit0 .. Digit9 THEN c - Digit0
  ELSE IF c \in LowerA .. LowerF THEN c - LowerA + 10
  ELSE IF c \in UpperA .. UpperF THEN c - UpperA
  ELSE -1

FromHexChar(c) ==
  IF c \in Digit0 .. Digit9 THEN c - Digit0
  ELSE IF c \in LowerA .. LowerF THEN c - LowerA + 10
  ELSE IF c \in UpperA .. UpperF THEN c - UpperA + 10
  ELSE -1

\* fromHex(text, Throw): after the prefix "0x" two digits are a byte; a text
\* of odd length has a byte of one digit first.
FromHex(text) ==
  LET s     == IF Len(text) >= 2 /\ text[1] = Digit0 /\ text[2] = LowerX THEN 2 ELSE 0
      digit == [x \in 1 .. Len(text) - s |-> FromHexChar(text[s + x])]
      padded == IF Len(text) % 2 = 1 THEN <<0>> \o digit ELSE digit
  IN  IF -1 \in { digit[x] : x \in DOMAIN digit } THEN BadHexCharacter
      ELSE [x \in 1 .. Len(padded) \div 2 |-> padded[2*x - 1] * 16 + padded[2*x]]

\* The hash made of a byte string: of any other length than its own it is zero
\* (FailIfDifferent, which the constructor from a text passes on).
FixedHash(bytes, size) ==
  IF Len(bytes) = size THEN bytes ELSE [x \in 1 .. size |-> 0]

\* h512(text): the exception, or the id.
HashOfText(text, size) ==
  LET bytes == FromHex(text)
  IN  IF bytes = BadHexCharacter THEN BadHexCharacter ELSE FixedHash(bytes, size)

\* hexdigits[d]
HexDigit(d) == IF d < 10 THEN Digit0 + d ELSE LowerA + d - 10

\* toHex, as FixedHash::hex uses it: two digits for each byte, the high one first.
ToHex(bytes) ==
  [x \in 1 .. 2 * Len(bytes) |->
     LET byte == bytes[(x + 1) \div 2]
     IN  HexDigit(IF x % 2 = 1 THEN byte \div 16 ELSE byte % 16)]
=============================================================================
