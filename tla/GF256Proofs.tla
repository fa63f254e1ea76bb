---------------------------- MODULE GF256Proofs ----------------------------
(***************************************************************************)
(* The bytes are a field under Add and Mul, div and exp are its division   *)
(* and powers, and the half-byte tables multiply like Mul.                 *)
(*                                                                         *)
(* Addition is treated bit by bit.  About the two committed tables four    *)
(* facts are looked up, entry by entry: each is the inverse of the other,  *)
(* the product with 2 is the shift with reduction, and the product with 3  *)
(* of an odd byte is that of the even byte before it, plus 3.  The rest    *)
(* follows: products add logarithms modulo 255, so they commute and        *)
(* associate; the product with 3 is additive because the shift is; and     *)
(* every byte but 0 is a power of 3, so every product is additive.         *)
(***************************************************************************)
EXTENDS GF256, FiniteSetTheorems, SequenceTheorems, TLAPS

\* Of the numbers of a set one is the least: this takes the place of induction, for
\* which no theorem of the library can be used.
LEMMA LeastNumber ==
  ASSUME NEW S \in SUBSET Nat, S # {}
  PROVE  \E x \in S : \A y \in S : x <= y
<1> DEFINE R == { q \in Nat \X Nat : q[1] < q[2] }
<1>1. IsWellFoundedOn(R, Nat)
  BY NatLessThanWellFounded DEF OpToRel
<1>2. \A x, y \in Nat : <<y, x>> \notin R => x <= y
  OBVIOUS
<1> HIDE DEF R
<1>3. \E x \in S : \A y \in S : <<y, x>> \notin R
  BY <1>1, WFMin
<1>4. QED
  BY <1>2, <1>3

\* Induction, about a set of numbers.
LEMMA NatSetInduction ==
  ASSUME NEW S, 0 \in S, \A n \in Nat : n \in S => n + 1 \in S
  PROVE  Nat \subseteq S
<1> DEFINE T == Nat \ S
<1> SUFFICES ASSUME T # {} PROVE FALSE
  OBVIOUS
<1> HIDE DEF T
<1>1. PICK x \in T : \A y \in T : x <= y
  BY LeastNumber DEF T
<1>2. x \in Nat /\ x # 0 /\ x - 1 \in Nat
  BY <1>1 DEF T
<1>3. x - 1 \in S
  BY <1>1, <1>2 DEF T
<1>4. QED
  BY <1>1, <1>2, <1>3 DEF T

-----------------------------------------------------------------------------
(* Bits and addition.                                                      *)

Bit(x, e) == (x \div e) % 2
Powers == {1, 2, 4, 8, 16, 32, 64, 128}

LEMMA BitValue ==
  ASSUME NEW x \in Byte, NEW e \in Powers
  PROVE  Bit(x, e) \in {0, 1}
BY DEF Bit, Powers, Byte

LEMMA FromBits ==
  ASSUME NEW x \in Byte
  PROVE  x = Bit(x, 1) + 2 * Bit(x, 2) + 4 * Bit(x, 4) + 8 * Bit(x, 8) + 16 * Bit(x, 16)
               + 32 * Bit(x, 32) + 64 * Bit(x, 64) + 128 * Bit(x, 128)
BY DEF Bit, Byte

LEMMA BitsOfSum ==
  ASSUME NEW a \in {0,1}, NEW b \in {0,1}, NEW c \in {0,1}, NEW d \in {0,1},
         NEW e \in {0,1}, NEW f \in {0,1}, NEW g \in {0,1}, NEW h \in {0,1},
         NEW x, x = a + 2 * b + 4 * c + 8 * d + 16 * e + 32 * f + 64 * g + 128 * h
  PROVE  /\ x \in Byte
         /\ Bit(x, 1) = a /\ Bit(x, 2) = b /\ Bit(x, 4) = c /\ Bit(x, 8) = d
         /\ Bit(x, 16) = e /\ Bit(x, 32) = f /\ Bit(x, 64) = g /\ Bit(x, 128) = h
BY DEF Bit, Byte

\* The exclusive or has the bits in which its operands differ.
LEMMA XorBits ==
  ASSUME NEW x \in Byte, NEW y \in Byte
  PROVE  /\ Xor(x, y) \in Byte
         /\ \A e \in Powers : Bit(Xor(x, y), e) = IF Bit(x, e) = Bit(y, e) THEN 0 ELSE 1
<1> DEFINE b(e) == IF Bit(x, e) = Bit(y, e) THEN 0 ELSE 1
<1>1. Xor(x, y) = b(1) + 2 * b(2) + 4 * b(4) + 8 * b(8) + 16 * b(16) + 32 * b(32)
                     + 64 * b(64) + 128 * b(128)
  BY DEF Xor, Bit
<1>2. \A e \in Powers : b(e) \in {0, 1}
  OBVIOUS
<1> HIDE DEF b
<1>3. /\ Xor(x, y) \in Byte
      /\ Bit(Xor(x, y), 1) = b(1) /\ Bit(Xor(x, y), 2) = b(2) /\ Bit(Xor(x, y), 4) = b(4)
      /\ Bit(Xor(x, y), 8) = b(8) /\ Bit(Xor(x, y), 16) = b(16)
      /\ Bit(Xor(x, y), 32) = b(32) /\ Bit(Xor(x, y), 64) = b(64)
      /\ Bit(Xor(x, y), 128) = b(128)
  BY <1>1, <1>2, BitsOfSum DEF Powers
<1>4. QED
  BY <1>3 DEF b, Powers

LEMMA SameBits ==
  ASSUME NEW x \in Byte, NEW y \in Byte, \A e \in Powers : Bit(x, e) = Bit(y, e)
  PROVE  x = y
BY FromBits DEF Powers

LEMMA BitsOfZero == 0 \in Byte /\ \A e \in Powers : Bit(0, e) = 0
BY DEF Bit, Byte, Powers

LEMMA AddClosed ==
  ASSUME NEW x \in Byte, NEW y \in Byte
  PROVE  Add(x, y) \in Byte
BY XorBits DEF Add

LEMMA AddCommutes ==
  ASSUME NEW x \in Byte, NEW y \in Byte
  PROVE  Add(x, y) = Add(y, x)
BY XorBits, SameBits DEF Add

LEMMA AddZero ==
  ASSUME NEW x \in Byte
  PROVE  Add(x, 0) = x /\ Add(0, x) = x
<1>1. Add(x, 0) = x
  BY XorBits, SameBits, BitValue, BitsOfZero DEF Add
<1>2. QED
  BY <1>1, AddCommutes, BitsOfZero

LEMMA AddSelf ==
  ASSUME NEW x \in Byte
  PROVE  Add(x, x) = 0
BY XorBits, SameBits, BitValue, BitsOfZero DEF Add

LEMMA AddAssociates ==
  ASSUME NEW x \in Byte, NEW y \in Byte, NEW z \in Byte
  PROVE  Add(Add(x, y), z) = Add(x, Add(y, z))
BY XorBits, SameBits, BitValue DEF Add

\* Bytes are equal when their sum is 0.
LEMMA AddCancels ==
  ASSUME NEW x \in Byte, NEW y \in Byte
  PROVE  /\ Add(Add(x, y), y) = x /\ Add(y, Add(y, x)) = x
         /\ Add(x, y) = 0 <=> x = y
<1>1. Add(Add(x, y), y) = x
  BY AddAssociates, AddSelf, AddZero
<1>2. Add(y, Add(y, x)) = x
  BY AddAssociates, AddSelf, AddZero
<1>3. QED
  BY <1>1, <1>2, AddSelf, AddZero

\* Sums of sums may be rearranged.
LEMMA AddExchanges ==
  ASSUME NEW w \in Byte, NEW x \in Byte, NEW y \in Byte, NEW z \in Byte
  PROVE  Add(Add(w, x), Add(y, z)) = Add(Add(w, y), Add(x, z))
<1>1. Add(x, Add(y, z)) = Add(y, Add(x, z))
  BY AddAssociates, AddCommutes
<1>2. Add(Add(w, x), Add(y, z)) = Add(w, Add(x, Add(y, z)))
  BY AddAssociates, AddClosed
<1>3. Add(Add(w, y), Add(x, z)) = Add(w, Add(y, Add(x, z)))
  BY AddAssociates, AddClosed
<1>4. QED
  BY <1>1, <1>2, <1>3

\* Bytes of which none has a bit of the other add like numbers.
LEMMA AddOfHalves ==
  ASSUME NEW l \in 0 .. 15, NEW h \in 0 .. 15
  PROVE  Add(l, 16 * h) = l + 16 * h
<1> DEFINE b(x, e) == (x \div e) % 2
<1>1. \A x \in 0 .. 15 : /\ x = b(x, 1) + 2 * b(x, 2) + 4 * b(x, 4) + 8 * b(x, 8)
                         /\ \A e \in {1, 2, 4, 8} : b(x, e) \in {0, 1}
  OBVIOUS
<1> HIDE DEF b
<1>2. l = b(l, 1) + 2 * b(l, 2) + 4 * b(l, 4) + 8 * b(l, 8)
            + 16 * 0 + 32 * 0 + 64 * 0 + 128 * 0
  BY <1>1
<1>3. 16 * h = 0 + 2 * 0 + 4 * 0 + 8 * 0
                 + 16 * b(h, 1) + 32 * b(h, 2) + 64 * b(h, 4) + 128 * b(h, 8)
  BY <1>1
<1>4. l + 16 * h = b(l, 1) + 2 * b(l, 2) + 4 * b(l, 4) + 8 * b(l, 8)
                     + 16 * b(h, 1) + 32 * b(h, 2) + 64 * b(h, 4) + 128 * b(h, 8)
  BY <1>1
<1>5. /\ l \in Byte /\ \A e \in {1, 2, 4, 8} : Bit(l, e) = b(l, e)
      /\ \A e \in {16, 32, 64, 128} : Bit(l, e) = 0
  BY <1>1, <1>2, BitsOfSum
<1>6. /\ 16 * h \in Byte /\ \A e \in {1, 2, 4, 8} : Bit(16 * h, e) = 0
      /\ Bit(16 * h, 16) = b(h, 1) /\ Bit(16 * h, 32) = b(h, 2)
      /\ Bit(16 * h, 64) = b(h, 4) /\ Bit(16 * h, 128) = b(h, 8)
  BY <1>1, <1>3, BitsOfSum
<1>7. /\ l + 16 * h \in Byte /\ \A e \in {1, 2, 4, 8} : Bit(l + 16 * h, e) = b(l, e)
      /\ Bit(l + 16 * h, 16) = b(h, 1) /\ Bit(l + 16 * h, 32) = b(h, 2)
      /\ Bit(l + 16 * h, 64) = b(h, 4) /\ Bit(l + 16 * h, 128) = b(h, 8)
  BY <1>1, <1>4, BitsOfSum
<1> DEFINE hh == 16 * h
           s  == l + 16 * h
<1>8. \A e \in {1, 2, 4, 8} : Bit(s, e) = IF Bit(l, e) = Bit(hh, e) THEN 0 ELSE 1
  BY <1>1, <1>5, <1>6, <1>7
<1>9. \A e \in {16, 32, 64, 128} : Bit(s, e) = IF Bit(l, e) = Bit(hh, e) THEN 0 ELSE 1
  <2>1. /\ b(h, 1) \in {0, 1} /\ b(h, 2) \in {0, 1}
        /\ b(h, 4) \in {0, 1} /\ b(h, 8) \in {0, 1}
    BY <1>1
  <2>2. /\ Bit(l, 16) = 0 /\ Bit(l, 32) = 0 /\ Bit(l, 64) = 0 /\ Bit(l, 128) = 0
    BY <1>5
  <2>3. /\ Bit(s, 16) = b(h, 1) /\ Bit(s, 32) = b(h, 2)
        /\ Bit(s, 64) = b(h, 4) /\ Bit(s, 128) = b(h, 8)
    BY <1>7
  <2>4. /\ Bit(hh, 16) = b(h, 1) /\ Bit(hh, 32) = b(h, 2)
        /\ Bit(hh, 64) = b(h, 4) /\ Bit(hh, 128) = b(h, 8)
    BY <1>6
  <2> HIDE DEF hh, s
  <2>5. QED
    BY <2>1, <2>2, <2>3, <2>4
<1>10. l \in Byte /\ hh \in Byte /\ s \in Byte
  BY <1>5, <1>6, <1>7
<1> HIDE DEF hh, s
<1>11. \A e \in Powers : Bit(s, e) = IF Bit(l, e) = Bit(hh, e) THEN 0 ELSE 1
  BY <1>8, <1>9 DEF Powers
<1>12. Add(l, hh) = s
  <2>1. Xor(l, hh) \in Byte /\ \A e \in Powers : Bit(Xor(l, hh), e) = Bit(s, e)
    BY <1>10, <1>11, XorBits
  <2>2. QED
    BY <1>10, <2>1, SameBits DEF Add
<1>13. QED
  BY <1>12 DEF hh, s

-----------------------------------------------------------------------------
(* The shift with reduction.                                               *)

LEMMA ShiftBits ==
  ASSUME NEW x \in Byte
  PROVE  /\ ShiftLeft(x) \in Byte
         /\ Bit(ShiftLeft(x), 1) = Bit(x, 128)
         /\ Bit(ShiftLeft(x), 2) = IF Bit(x, 1) = Bit(x, 128) THEN 0 ELSE 1
         /\ Bit(ShiftLeft(x), 4) = Bit(x, 2)
         /\ Bit(ShiftLeft(x), 8) = IF Bit(x, 4) = Bit(x, 128) THEN 0 ELSE 1
         /\ Bit(ShiftLeft(x), 16) = IF Bit(x, 8) = Bit(x, 128) THEN 0 ELSE 1
         /\ Bit(ShiftLeft(x), 32) = Bit(x, 16)
         /\ Bit(ShiftLeft(x), 64) = Bit(x, 32)
         /\ Bit(ShiftLeft(x), 128) = Bit(x, 64)
<1>1. \A e \in Powers : Bit(x, e) \in {0, 1}
  BY BitValue
<1> DEFINE t == 0 + 2 * Bit(x, 1) + 4 * Bit(x, 2) + 8 * Bit(x, 4) + 16 * Bit(x, 8)
                  + 32 * Bit(x, 16) + 64 * Bit(x, 32) + 128 * Bit(x, 64)
<1>2. CASE x < 128
  <2>1. ShiftLeft(x) = 2 * x /\ Bit(x, 128) = 0
    BY <1>2 DEF ShiftLeft, Byte, Bit
  <2>2. 2 * x = t
    BY <1>1, <2>1, FromBits DEF Powers
  <2>3. QED
    BY <1>1, <2>1, <2>2, BitsOfSum DEF Powers
<1>3. CASE x >= 128
  <2>1. ShiftLeft(x) = Xor((2 * x) % 256, 27) /\ Bit(x, 128) = 1
    BY <1>3 DEF ShiftLeft, Byte, Bit, Add
  <2> DEFINE y == 2 * x - 256
  <2>2. y = t
    BY <1>1, <2>1, FromBits DEF Powers
  <2>3. (2 * x) % 256 = y
    BY <1>3 DEF Byte
  <2>4. /\ y \in Byte /\ Bit(y, 1) = 0 /\ Bit(y, 2) = Bit(x, 1) /\ Bit(y, 4) = Bit(x, 2)
        /\ Bit(y, 8) = Bit(x, 4) /\ Bit(y, 16) = Bit(x, 8) /\ Bit(y, 32) = Bit(x, 16)
        /\ Bit(y, 64) = Bit(x, 32) /\ Bit(y, 128) = Bit(x, 64)
    BY <1>1, <2>2, BitsOfSum DEF Powers
  <2>5. /\ 27 \in Byte /\ Bit(27, 1) = 1 /\ Bit(27, 2) = 1 /\ Bit(27, 4) = 0
        /\ Bit(27, 8) = 1 /\ Bit(27, 16) = 1 /\ Bit(27, 32) = 0 /\ Bit(27, 64) = 0
        /\ Bit(27, 128) = 0
    BY DEF Bit, Byte
  <2> HIDE DEF y
  <2>6. QED
    BY <1>1, <2>1, <2>3, <2>4, <2>5, XorBits DEF Powers
<1>4. QED
  BY <1>2, <1>3 DEF Byte

LEMMA ShiftAdds ==
  ASSUME NEW x \in Byte, NEW y \in Byte
  PROVE  ShiftLeft(Add(x, y)) = Add(ShiftLeft(x), ShiftLeft(y))
BY ShiftBits, SameBits, XorBits, BitValue DEF Powers, Add

\* The reduction changes the bits 1, 2, 8 and 16 of a byte whose last bit is 0.
LEMMA ShiftReduces ==
  ASSUME NEW y \in 128 .. 255
  PROVE  ShiftLeft(y) = 2 * y - 256 + 27 - 4 * (y % 2) - 16 * ((y \div 4) % 2)
                          - 32 * ((y \div 8) % 2)
<1>1. y \in Byte /\ Bit(y, 128) = 1
  BY DEF Byte, Bit
<1>2. \A e \in Powers : Bit(y, e) \in {0, 1}
  BY <1>1, BitValue
<1>3. y % 2 = Bit(y, 1) /\ (y \div 4) % 2 = Bit(y, 4) /\ (y \div 8) % 2 = Bit(y, 8)
  BY DEF Bit
<1>4. y = Bit(y, 1) + 2 * Bit(y, 2) + 4 * Bit(y, 4) + 8 * Bit(y, 8) + 16 * Bit(y, 16)
            + 32 * Bit(y, 32) + 64 * Bit(y, 64) + 128 * Bit(y, 128)
  BY <1>1, FromBits
<1> DEFINE s == ShiftLeft(y)
           o(b) == IF b = 1 THEN 0 ELSE 1
<1>5. \A b \in {0, 1} : o(b) = 1 - b
  OBVIOUS
<1>6. s = Bit(s, 1) + 2 * Bit(s, 2) + 4 * Bit(s, 4) + 8 * Bit(s, 8) + 16 * Bit(s, 16)
            + 32 * Bit(s, 32) + 64 * Bit(s, 64) + 128 * Bit(s, 128)
  BY <1>1, ShiftBits, FromBits
<1>7. /\ Bit(s, 1) = 1 /\ Bit(s, 2) = o(Bit(y, 1)) /\ Bit(s, 4) = Bit(y, 2)
      /\ Bit(s, 8) = o(Bit(y, 4)) /\ Bit(s, 16) = o(Bit(y, 8)) /\ Bit(s, 32) = Bit(y, 16)
      /\ Bit(s, 64) = Bit(y, 32) /\ Bit(s, 128) = Bit(y, 64)
  BY <1>1, ShiftBits
<1> HIDE DEF s, o
<1>8. s = 1 + 2 * (1 - Bit(y, 1)) + 4 * Bit(y, 2) + 8 * (1 - Bit(y, 4))
            + 16 * (1 - Bit(y, 8)) + 32 * Bit(y, 16) + 64 * Bit(y, 32) + 128 * Bit(y, 64)
  BY <1>2, <1>5, <1>6, <1>7 DEF Powers
<1>9. s = 2 * y - 256 + 27 - 4 * Bit(y, 1) - 16 * Bit(y, 4) - 32 * Bit(y, 8)
  BY <1>1, <1>2, <1>4, <1>8 DEF Powers
<1>10. QED
  BY <1>3, <1>9 DEF s

\* Adding 3 changes the bits 1 and 2.
LEMMA AddThree ==
  ASSUME NEW y \in Byte
  PROVE  Add(y, 3) = y + 3 - 2 * (y % 4)
<1>1. \A e \in Powers : Bit(y, e) \in {0, 1}
  BY BitValue
<1>2. y % 4 = Bit(y, 1) + 2 * Bit(y, 2)
  BY DEF Byte, Bit
<1>3. /\ 3 \in Byte /\ Bit(3, 1) = 1 /\ Bit(3, 2) = 1 /\ Bit(3, 4) = 0 /\ Bit(3, 8) = 0
      /\ Bit(3, 16) = 0 /\ Bit(3, 32) = 0 /\ Bit(3, 64) = 0 /\ Bit(3, 128) = 0
  BY DEF Bit, Byte
<1> DEFINE s == Xor(y, 3)
<1>4. s \in Byte /\ \A e \in Powers : Bit(s, e) = IF Bit(y, e) = Bit(3, e) THEN 0 ELSE 1
  BY <1>3, XorBits
<1>5. s = Bit(s, 1) + 2 * Bit(s, 2) + 4 * Bit(s, 4) + 8 * Bit(s, 8) + 16 * Bit(s, 16)
            + 32 * Bit(s, 32) + 64 * Bit(s, 64) + 128 * Bit(s, 128)
  BY <1>4, FromBits
<1> HIDE DEF s
<1>6. /\ Bit(s, 1) = 1 - Bit(y, 1) /\ Bit(s, 2) = 1 - Bit(y, 2)
      /\ Bit(s, 4) = Bit(y, 4) /\ Bit(s, 8) = Bit(y, 8) /\ Bit(s, 16) = Bit(y, 16)
      /\ Bit(s, 32) = Bit(y, 32) /\ Bit(s, 64) = Bit(y, 64) /\ Bit(s, 128) = Bit(y, 128)
  BY <1>1, <1>3, <1>4 DEF Powers
<1>7. s = y + 3 - 2 * (Bit(y, 1) + 2 * Bit(y, 2))
  BY <1>1, <1>5, <1>6, FromBits DEF Powers
<1>8. QED
  BY <1>2, <1>7 DEF s, Add

-----------------------------------------------------------------------------
(* What is looked up in the tables.                                        *)

Nonzero == 1 .. 255
Logs    == 0 .. 254

LEMMA TableRanges ==
  /\ \A x \in Nonzero : At(log_table, x) \in Logs
  /\ \A j \in Logs : At(exp_table, j) \in Nonzero
  /\ At(log_table, 0) = 0 /\ At(exp_table, 255) = 0
  /\ At(log_table, 1) = 0 /\ At(log_table, 2) = 25 /\ At(log_table, 3) = 1
<1>1. \A x \in 1 .. 127 : At(log_table, x) \in 0 .. 254
  BY DEF At, log_table
<1>2. \A x \in 128 .. 255 : At(log_table, x) \in 0 .. 254
  BY DEF At, log_table
<1>3. \A j \in 0 .. 127 : At(exp_table, j) \in 1 .. 255
  BY DEF At, exp_table
<1>4. \A j \in 128 .. 254 : At(exp_table, j) \in 1 .. 255
  BY DEF At, exp_table
<1>5. At(log_table, 0) = 0 /\ At(exp_table, 255) = 0
  BY DEF At, log_table, exp_table
<1>6. At(log_table, 1) = 0 /\ At(log_table, 2) = 25 /\ At(log_table, 3) = 1
  BY DEF At, log_table
<1>7. \A x \in 1 .. 255 : At(log_table, x) \in 0 .. 254
  <2> SUFFICES ASSUME NEW x \in 1 .. 255 PROVE At(log_table, x) \in 0 .. 254
    OBVIOUS
  <2> DEFINE ok == At(log_table, x) \in 0 .. 254
  <2>1. x \in 1 .. 127 => ok
    BY <1>1, Zenon
  <2>2. x \in 128 .. 255 => ok
    BY <1>2, Zenon
  <2> HIDE DEF ok
  <2>3. ok
    BY <2>1, <2>2
  <2>4. QED
    BY <2>3 DEF ok
<1>8. \A j \in 0 .. 254 : At(exp_table, j) \in 1 .. 255
  <2> SUFFICES ASSUME NEW j \in 0 .. 254 PROVE At(exp_table, j) \in 1 .. 255
    OBVIOUS
  <2> DEFINE ok == At(exp_table, j) \in 1 .. 255
  <2>1. j \in 0 .. 127 => ok
    BY <1>3, Zenon
  <2>2. j \in 128 .. 254 => ok
    BY <1>4, Zenon
  <2> HIDE DEF ok
  <2>3. ok
    BY <2>1, <2>2
  <2>4. QED
    BY <2>3 DEF ok
<1>9. QED
  BY <1>5, <1>6, <1>7, <1>8 DEF Nonzero, Logs

\* FilledLog, as far as it concerns the table of logarithms.
LEMMA LogOfExp == \A j \in Logs : At(log_table, At(exp_table, j)) = j
<1>1. \A j \in 0 .. 63 : At(log_table, At(exp_table, j)) = j
  BY DEF At, exp_table, log_table
<1>2. \A j \in 64 .. 127 : At(log_table, At(exp_table, j)) = j
  BY DEF At, exp_table, log_table
<1>3. \A j \in 128 .. 191 : At(log_table, At(exp_table, j)) = j
  BY DEF At, exp_table, log_table
<1>4. \A j \in 192 .. 254 : At(log_table, At(exp_table, j)) = j
  BY DEF At, exp_table, log_table
<1>5. QED
  BY <1>1, <1>2, <1>3, <1>4 DEF Logs

LEMMA ExpOfLog == \A x \in Nonzero : At(exp_table, At(log_table, x)) = x
<1>1. \A x \in 1 .. 63 : At(exp_table, At(log_table, x)) = x
  BY DEF At, exp_table, log_table
<1>2. \A x \in 64 .. 127 : At(exp_table, At(log_table, x)) = x
  BY DEF At, exp_table, log_table
<1>3. \A x \in 128 .. 191 : At(exp_table, At(log_table, x)) = x
  BY DEF At, exp_table, log_table
<1>4. \A x \in 192 .. 255 : At(exp_table, At(log_table, x)) = x
  BY DEF At, exp_table, log_table
<1>5. QED
  BY <1>1, <1>2, <1>3, <1>4 DEF Nonzero

\* The product with 2, by the tables.
LEMMA TwiceLow ==
  \A y \in 1 .. 127 : At(exp_table, (At(log_table, y) + 25) % 255) = 2 * y
<1>1. \A y \in 1 .. 63 : At(exp_table, (At(log_table, y) + 25) % 255) = 2 * y
  BY DEF At, exp_table, log_table
<1>2. \A y \in 64 .. 127 : At(exp_table, (At(log_table, y) + 25) % 255) = 2 * y
  BY DEF At, exp_table, log_table
<1>3. QED
  BY <1>1, <1>2

Reduced(y) == 2 * y - 256 + 27 - 4 * (y % 2) - 16 * ((y \div 4) % 2) - 32 * ((y \div 8) % 2)

LEMMA TwiceHigh ==
  \A y \in 128 .. 255 : At(exp_table, (At(log_table, y) + 25) % 255) = Reduced(y)
<1>1. \A y \in 128 .. 159 : At(exp_table, (At(log_table, y) + 25) % 255) = Reduced(y)
  BY DEF At, exp_table, log_table, Reduced
<1>2. \A y \in 160 .. 191 : At(exp_table, (At(log_table, y) + 25) % 255) = Reduced(y)
  BY DEF At, exp_table, log_table, Reduced
<1>3. \A y \in 192 .. 223 : At(exp_table, (At(log_table, y) + 25) % 255) = Reduced(y)
  BY DEF At, exp_table, log_table, Reduced
<1>4. \A y \in 224 .. 255 : At(exp_table, (At(log_table, y) + 25) % 255) = Reduced(y)
  BY DEF At, exp_table, log_table, Reduced
<1>5. QED
  BY <1>1, <1>2, <1>3, <1>4

\* The product with 3 of an odd byte and of the even byte before it.
ByThree(y) == At(exp_table, (At(log_table, y) + 1) % 255)

LEMMA ThreeTimesOdd ==
  \A h \in 1 .. 127 : ByThree(2 * h + 1) = ByThree(2 * h) + 3 - 2 * (ByThree(2 * h) % 4)
<1>1. \A h \in 1 .. 31 : ByThree(2 * h + 1) = ByThree(2 * h) + 3 - 2 * (ByThree(2 * h) % 4)
  BY DEF At, exp_table, log_table, ByThree
<1>2. \A h \in 32 .. 63 : ByThree(2 * h + 1) = ByThree(2 * h) + 3 - 2 * (ByThree(2 * h) % 4)
  BY DEF At, exp_table, log_table, ByThree
<1>3. \A h \in 64 .. 95 : ByThree(2 * h + 1) = ByThree(2 * h) + 3 - 2 * (ByThree(2 * h) % 4)
  BY DEF At, exp_table, log_table, ByThree
<1>4. \A h \in 96 .. 127 : ByThree(2 * h + 1) = ByThree(2 * h) + 3 - 2 * (ByThree(2 * h) % 4)
  BY DEF At, exp_table, log_table, ByThree
<1>5. QED
  BY <1>1, <1>2, <1>3, <1>4

-----------------------------------------------------------------------------
(* The field.                                                              *)

\* Logarithms are added modulo 255.
Plus(a, b) == (a + b) % 255

LEMMA PlusLaws ==
  ASSUME NEW a \in Logs, NEW b \in Logs, NEW c \in Logs
  PROVE  /\ Plus(a, b) \in Logs /\ Plus(a, b) = Plus(b, a) /\ Plus(a, 0) = a
         /\ Plus(Plus(a, b), c) = Plus(a, Plus(b, c))
BY DEF Plus, Logs

Log(x) == At(log_table, x)

LEMMA SmallLogs ==
  /\ 1 \in Nonzero /\ 2 \in Nonzero /\ 3 \in Nonzero /\ 1 \in Byte /\ 2 \in Byte /\ 3 \in Byte
  /\ 1 \in Logs /\ 25 \in Logs /\ Log(1) = 0 /\ Log(2) = 25 /\ Log(3) = 1
<1>1. Log(1) = 0 /\ Log(2) = 25 /\ Log(3) = 1
  BY TableRanges DEF Log
<1>2. 1 \in Nonzero /\ 2 \in Nonzero /\ 3 \in Nonzero /\ 1 \in Logs /\ 25 \in Logs
  BY DEF Nonzero, Logs
<1>3. 1 \in Byte /\ 2 \in Byte /\ 3 \in Byte
  BY DEF Byte
<1>4. QED
  BY <1>1, <1>2, <1>3

LEMMA MulOfLogs ==
  ASSUME NEW x \in Nonzero, NEW y \in Nonzero
  PROVE  /\ Mul(x, y) \in Nonzero
         /\ Mul(x, y) = At(exp_table, Plus(Log(x), Log(y)))
         /\ Log(Mul(x, y)) = Plus(Log(x), Log(y))
<1>1. Log(x) \in Logs /\ Log(y) \in Logs
  BY TableRanges DEF Log
<1>2. Plus(Log(x), Log(y)) \in Logs
  BY <1>1, PlusLaws
<1>3. Mul(x, y) = At(exp_table, Plus(Log(x), Log(y)))
  BY DEF Mul, Plus, Log, Nonzero
<1>4. QED
  BY <1>2, <1>3, TableRanges, LogOfExp DEF Log

LEMMA BytesAre == 0 \in Byte /\ \A x \in Byte : x = 0 \/ x \in Nonzero
BY DEF Byte, Nonzero

LEMMA NonzeroByte == \A x \in Nonzero : x \in Byte /\ x # 0
BY DEF Byte, Nonzero

LEMMA MulZero == \A x : Mul(x, 0) = 0 /\ Mul(0, x) = 0
BY DEF Mul

LEMMA MulClosed ==
  ASSUME NEW x \in Byte, NEW y \in Byte
  PROVE  Mul(x, y) \in Byte
BY MulOfLogs, MulZero, BytesAre, NonzeroByte

\* Bytes with the same logarithm are equal.
LEMMA SameLog ==
  ASSUME NEW x \in Nonzero, NEW y \in Nonzero, Log(x) = Log(y)
  PROVE  x = y
BY ExpOfLog DEF Log

LEMMA MulCommutes ==
  ASSUME NEW x \in Byte, NEW y \in Byte
  PROVE  Mul(x, y) = Mul(y, x)
<1>1. CASE x = 0 \/ y = 0
  BY <1>1, MulZero
<1>2. CASE x # 0 /\ y # 0
  <2>1. x \in Nonzero /\ y \in Nonzero
    BY <1>2, BytesAre
  <2>2. Log(x) \in Logs /\ Log(y) \in Logs
    BY <2>1, TableRanges DEF Log
  <2>3. Plus(Log(x), Log(y)) = Plus(Log(y), Log(x))
    BY <2>2, PlusLaws
  <2>4. QED
    BY <2>1, <2>3, MulOfLogs
<1>3. QED
  BY <1>1, <1>2

LEMMA MulAssociates ==
  ASSUME NEW x \in Byte, NEW y \in Byte, NEW z \in Byte
  PROVE  Mul(Mul(x, y), z) = Mul(x, Mul(y, z))
<1>1. CASE x = 0 \/ y = 0 \/ z = 0
  BY <1>1, MulZero
<1>2. CASE x # 0 /\ y # 0 /\ z # 0
  <2>1. x \in Nonzero /\ y \in Nonzero /\ z \in Nonzero
    BY <1>2, BytesAre
  <2>2. Log(x) \in Logs /\ Log(y) \in Logs /\ Log(z) \in Logs
    BY <2>1, TableRanges DEF Log
  <2>3. /\ Mul(x, y) \in Nonzero /\ Log(Mul(x, y)) = Plus(Log(x), Log(y))
        /\ Mul(y, z) \in Nonzero /\ Log(Mul(y, z)) = Plus(Log(y), Log(z))
    BY <2>1, MulOfLogs
  <2>4. /\ Mul(Mul(x, y), z) = At(exp_table, Plus(Plus(Log(x), Log(y)), Log(z)))
        /\ Mul(x, Mul(y, z)) = At(exp_table, Plus(Log(x), Plus(Log(y), Log(z))))
    BY <2>1, <2>3, MulOfLogs
  <2>5. QED
    BY <2>2, <2>4, PlusLaws
<1>3. QED
  BY <1>1, <1>2

LEMMA MulOne ==
  ASSUME NEW x \in Byte
  PROVE  Mul(x, 1) = x /\ Mul(1, x) = x
<1>1. CASE x = 0
  BY <1>1, MulZero
<1>2. CASE x \in Nonzero
  <2>1. 1 \in Nonzero /\ Log(1) = 0
    BY SmallLogs
  <2>2. Log(x) \in Logs
    BY <1>2, TableRanges DEF Log
  <2>3. Mul(x, 1) = x
    BY <1>2, <2>1, <2>2, MulOfLogs, PlusLaws, ExpOfLog DEF Log
  <2>4. QED
    BY <1>2, <2>1, <2>3, MulCommutes, NonzeroByte
<1>3. QED
  BY <1>1, <1>2, BytesAre

LEMMA MulOfNonzero ==
  ASSUME NEW x \in Byte, NEW y \in Byte
  PROVE  Mul(x, y) = 0 <=> x = 0 \/ y = 0
BY MulOfLogs, MulZero, BytesAre, NonzeroByte

\* mul by 2 is the shift with reduction.
LEMMA MulTwo ==
  ASSUME NEW y \in Byte
  PROVE  Mul(2, y) = ShiftLeft(y)
<1>1. CASE y = 0
  BY <1>1, MulZero DEF ShiftLeft
<1>2. CASE y \in Nonzero
  <2>1. 2 \in Nonzero /\ Log(2) = 25 /\ 25 \in Logs
    BY SmallLogs
  <2>2. Mul(2, y) = At(exp_table, Plus(Log(y), 25))
    <3>1. Log(y) \in Logs
      BY <1>2, TableRanges DEF Log
    <3>2. QED
      BY <1>2, <2>1, <3>1, MulOfLogs, PlusLaws
  <2>3. Mul(2, y) = At(exp_table, (At(log_table, y) + 25) % 255)
    BY <2>2 DEF Plus, Log
  <2>4. CASE y \in 1 .. 127
    <3>1. ShiftLeft(y) = 2 * y
      BY <2>4 DEF ShiftLeft
    <3>2. QED
      BY <2>3, <2>4, <3>1, TwiceLow
  <2>5. CASE y \in 128 .. 255
    BY <2>3, <2>5, TwiceHigh, ShiftReduces DEF Reduced
  <2>6. QED
    BY <1>2, <2>4, <2>5 DEF Nonzero
<1>3. QED
  BY <1>1, <1>2, BytesAre

LEMMA MulThreeOfLogs ==
  ASSUME NEW w \in Nonzero
  PROVE  Mul(3, w) = ByThree(w)
<1>1. 3 \in Nonzero /\ Log(3) = 1 /\ 1 \in Logs
  BY SmallLogs
<1>2. Log(w) \in Logs
  BY TableRanges DEF Log
<1>3. Mul(3, w) = At(exp_table, Plus(Log(w), 1))
  BY <1>1, <1>2, MulOfLogs, PlusLaws
<1>4. QED
  BY <1>3 DEF Plus, Log, ByThree

\* The product with 3 is the shift and the byte itself.
Triple(y) == Add(y, ShiftLeft(y))

LEMMA TripleAdds ==
  ASSUME NEW x \in Byte, NEW y \in Byte
  PROVE  Triple(x) \in Byte /\ Triple(Add(x, y)) = Add(Triple(x), Triple(y))
<1>1. ShiftLeft(x) \in Byte /\ ShiftLeft(y) \in Byte
  BY ShiftBits
<1>2. Triple(x) \in Byte
  BY <1>1, AddClosed DEF Triple
<1>3. Triple(Add(x, y)) = Add(Add(x, y), Add(ShiftLeft(x), ShiftLeft(y)))
  BY ShiftAdds DEF Triple
<1>4. Triple(Add(x, y)) = Add(Add(x, ShiftLeft(x)), Add(y, ShiftLeft(y)))
  BY <1>1, <1>3, AddExchanges
<1>5. QED
  BY <1>2, <1>4 DEF Triple

LEMMA MulThree ==
  ASSUME NEW y \in Byte
  PROVE  Mul(3, y) = Triple(y)
<1> DEFINE Wrong == { z \in Byte : Mul(3, z) # Triple(z) }
<1> SUFFICES ASSUME Wrong # {} PROVE FALSE
  OBVIOUS
<1>1. Wrong \subseteq Nat
  BY DEF Byte
<1>2. PICK z \in Wrong : \A w \in Wrong : z <= w
  <2> HIDE DEF Wrong
  <2>1. QED
    BY <1>1, LeastNumber
<1>3. z \in Byte /\ Mul(3, z) # Triple(z) /\ \A w \in Byte : w < z => Mul(3, w) = Triple(w)
  <2>1. z \in Byte /\ Mul(3, z) # Triple(z)
    OBVIOUS
  <2>2. \A w \in Byte : w < z => w \notin Wrong
    <3> HIDE DEF Wrong
    <3>1. QED
      BY <1>1, <1>2, <2>1 DEF Byte
  <2>3. QED
    BY <2>1, <2>2
<1> HIDE DEF Wrong
<1>4. 3 \in Byte /\ 2 \in Byte /\ 1 \in Byte
  BY DEF Byte
<1>5. z # 0
  <2>1. Triple(0) = 0
    BY BytesAre, AddZero DEF Triple, ShiftLeft
  <2>2. QED
    BY <1>3, <2>1, MulZero
<1>6. z # 1
  <2>1. ShiftLeft(1) = 2
    BY DEF ShiftLeft
  <2>2. Add(1, 2) = 3
    BY DEF Add, Xor
  <2>3. QED
    BY <1>3, <1>4, <2>1, <2>2, MulOne DEF Triple
<1> DEFINE h == z \div 2
<1>7. h \in 1 .. 127 /\ (z = 2 * h \/ z = 2 * h + 1)
  BY <1>3, <1>5, <1>6 DEF Byte
<1> HIDE DEF h
<1>8. h \in Byte /\ 2 * h \in Byte /\ h < z /\ 2 * h \in Nonzero /\ 2 * h + 1 \in Nonzero
  BY <1>7 DEF Byte, Nonzero
<1>9. ShiftLeft(h) = 2 * h /\ Mul(2, h) = 2 * h
  <2>1. ShiftLeft(h) = 2 * h
    BY <1>7 DEF ShiftLeft
  <2>2. QED
    BY <1>8, <2>1, MulTwo
<1>10. Mul(3, 2 * h) = Triple(2 * h)
  <2>1. Mul(3, 2 * h) = Mul(2, Mul(3, h))
    BY <1>4, <1>8, <1>9, MulAssociates, MulCommutes
  <2>2. Mul(3, h) = Triple(h) /\ Triple(h) \in Byte
    BY <1>3, <1>8, TripleAdds
  <2>3. Mul(3, 2 * h) = ShiftLeft(Add(h, ShiftLeft(h)))
    BY <2>1, <2>2, MulTwo DEF Triple
  <2>4. Mul(3, 2 * h) = Add(ShiftLeft(h), ShiftLeft(ShiftLeft(h)))
    BY <1>8, <1>9, <2>3, ShiftAdds
  <2>5. QED
    BY <1>9, <2>4 DEF Triple
<1>11. Mul(3, 2 * h + 1) = Triple(2 * h + 1)
  <2>1. Mul(3, 2 * h) = ByThree(2 * h) /\ Mul(3, 2 * h + 1) = ByThree(2 * h + 1)
    BY <1>8, MulThreeOfLogs
  <2>2. Mul(3, 2 * h) \in Byte
    BY <1>4, <1>8, MulClosed
  <2>3. Mul(3, 2 * h + 1) = Add(Mul(3, 2 * h), 3)
    BY <1>7, <2>1, <2>2, ThreeTimesOdd, AddThree
  <2>4. ShiftLeft(1) = 2 /\ Add(1, 2) = 3
    BY DEF ShiftLeft, Add, Xor
  <2>5. Mul(3, 2 * h + 1) = Add(Triple(2 * h), Triple(1))
    BY <1>10, <2>3, <2>4 DEF Triple
  <2>6. Mul(3, 2 * h + 1) = Triple(Add(2 * h, 1))
    BY <1>4, <1>8, <2>5, TripleAdds
  <2>7. Add(2 * h, 1) = 2 * h + 1
    BY <1>7 DEF Add, Xor
  <2>8. QED
    BY <2>6, <2>7
<1>12. QED
  BY <1>3, <1>7, <1>10, <1>11

\* A product is additive in its second operand, and so in its first: it is for the
\* powers of 3, one after the other, and these are all the bytes but 0.
Additive(x) == \A y, z \in Byte : Mul(x, Add(y, z)) = Add(Mul(x, y), Mul(x, z))

LEMMA ThreeIsAdditive == Additive(3)
BY MulThree, TripleAdds, AddClosed DEF Additive

LEMMA ProductIsAdditive ==
  ASSUME NEW x \in Byte, NEW y \in Byte, Additive(x), Additive(y)
  PROVE  Additive(Mul(x, y))
<1> SUFFICES ASSUME NEW v \in Byte, NEW w \in Byte
             PROVE  Mul(Mul(x, y), Add(v, w)) = Add(Mul(Mul(x, y), v), Mul(Mul(x, y), w))
  BY DEF Additive
<1>1. Mul(Mul(x, y), Add(v, w)) = Mul(x, Mul(y, Add(v, w)))
  BY MulAssociates, AddClosed
<1>2. Mul(y, Add(v, w)) = Add(Mul(y, v), Mul(y, w))
  BY DEF Additive
<1>3. Mul(x, Add(Mul(y, v), Mul(y, w))) = Add(Mul(x, Mul(y, v)), Mul(x, Mul(y, w)))
  BY MulClosed DEF Additive
<1>4. QED
  BY <1>1, <1>2, <1>3, MulAssociates

LEMMA PowersAreAdditive ==
  ASSUME NEW j \in Logs
  PROVE  Additive(At(exp_table, j))
<1> DEFINE S == { n \in Nat : n \in Logs => Additive(At(exp_table, n)) }
<1>1. 0 \in S
  <2>1. 1 \in Nonzero /\ Log(1) = 0 /\ 1 \in Byte
    BY SmallLogs
  <2>2. At(exp_table, 0) = 1
    BY <2>1, ExpOfLog DEF Log
  <2>3. Additive(1)
    BY MulOne, AddClosed DEF Additive
  <2>4. QED
    BY <2>2, <2>3
<1>2. ASSUME NEW n \in Nat, n \in S PROVE n + 1 \in S
  <2> SUFFICES ASSUME n + 1 \in Logs PROVE Additive(At(exp_table, n + 1))
    OBVIOUS
  <2>1. n \in Logs /\ Plus(1, n) = n + 1 /\ 1 \in Logs
    BY DEF Logs, Plus
  <2>2. Additive(At(exp_table, n))
    BY <1>2, <2>1
  <2>3. 3 \in Nonzero /\ Log(3) = 1 /\ 3 \in Byte
    BY SmallLogs
  <2>4. At(exp_table, n) \in Nonzero /\ Log(At(exp_table, n)) = n
    BY <2>1, TableRanges, LogOfExp DEF Log
  <2>5. Mul(3, At(exp_table, n)) = At(exp_table, n + 1)
    BY <2>1, <2>3, <2>4, MulOfLogs
  <2>6. Additive(Mul(3, At(exp_table, n)))
    BY <2>2, <2>3, <2>4, ThreeIsAdditive, ProductIsAdditive, NonzeroByte
  <2>7. QED
    BY <2>5, <2>6
<1> HIDE DEF S
<1>3. Nat \subseteq S
  BY <1>1, <1>2, NatSetInduction
<1>4. j \in Nat
  BY DEF Logs
<1>5. QED
  BY <1>3, <1>4 DEF S

LEMMA MulDistributes ==
  ASSUME NEW x \in Byte, NEW y \in Byte, NEW z \in Byte
  PROVE  /\ Mul(x, Add(y, z)) = Add(Mul(x, y), Mul(x, z))
         /\ Mul(Add(y, z), x) = Add(Mul(y, x), Mul(z, x))
<1>1. Additive(x)
  <2>1. CASE x = 0
    BY <2>1, MulZero, AddZero, BytesAre DEF Additive
  <2>2. CASE x \in Nonzero
    <3>1. Log(x) \in Logs /\ At(exp_table, Log(x)) = x
      BY <2>2, TableRanges, ExpOfLog DEF Log
    <3>2. QED
      BY <3>1, PowersAreAdditive
  <2>3. QED
    BY <2>1, <2>2, BytesAre
<1>2. Mul(x, Add(y, z)) = Add(Mul(x, y), Mul(x, z))
  BY <1>1 DEF Additive
<1>3. QED
  BY <1>2, MulCommutes, AddClosed

-----------------------------------------------------------------------------
(* Division and powers.                                                    *)

Minus(a, b) == IF a - b < 0 THEN a - b + 255 ELSE a - b

LEMMA MinusLaws ==
  ASSUME NEW a \in Logs, NEW b \in Logs
  PROVE  Minus(a, b) \in Logs /\ Plus(Minus(a, b), b) = a /\ Minus(Plus(a, b), b) = a
BY DEF Minus, Plus, Logs

\* div undoes mul, for every divisor but 0.
THEOREM DivUndoesMul ==
  ASSUME NEW x \in Byte, NEW y \in Byte \ {0}
  PROVE  Div(x, y) \in Byte /\ Mul(Div(x, y), y) = x /\ Div(Mul(x, y), y) = x
<1>1. y \in Nonzero /\ Log(y) \in Logs
  BY BytesAre, TableRanges DEF Log
<1>2. \A z \in Nonzero : /\ Div(z, y) \in Nonzero
                         /\ Div(z, y) = At(exp_table, Minus(Log(z), Log(y)))
                         /\ Log(Div(z, y)) = Minus(Log(z), Log(y))
  <2> SUFFICES ASSUME NEW z \in Nonzero
               PROVE  /\ Div(z, y) \in Nonzero
                      /\ Div(z, y) = At(exp_table, Minus(Log(z), Log(y)))
                      /\ Log(Div(z, y)) = Minus(Log(z), Log(y))
    OBVIOUS
  <2>1. Log(z) \in Logs
    BY TableRanges DEF Log
  <2>2. Minus(Log(z), Log(y)) \in Logs
    BY <1>1, <2>1, MinusLaws
  <2>3. Div(z, y) = At(exp_table, Minus(Log(z), Log(y)))
    BY NonzeroByte DEF Div, Minus, Log
  <2>4. QED
    BY <2>2, <2>3, TableRanges, LogOfExp DEF Log
<1>3. CASE x = 0
  BY <1>3, MulZero, BytesAre DEF Div
<1>4. CASE x \in Nonzero
  <2>1. Log(x) \in Logs
    BY <1>4, TableRanges DEF Log
  <2>2. Div(x, y) \in Nonzero /\ Log(Div(x, y)) = Minus(Log(x), Log(y))
    BY <1>2, <1>4
  <2>3. Mul(Div(x, y), y) \in Nonzero /\ Log(Mul(Div(x, y), y)) = Log(x)
    BY <1>1, <2>1, <2>2, MulOfLogs, MinusLaws
  <2>4. Mul(x, y) \in Nonzero /\ Log(Mul(x, y)) = Plus(Log(x), Log(y))
    BY <1>1, <1>4, MulOfLogs
  <2>5. Div(Mul(x, y), y) \in Nonzero /\ Log(Div(Mul(x, y), y)) = Log(x)
    BY <1>1, <1>2, <2>1, <2>4, MinusLaws
  <2>6. QED
    BY <1>4, <2>2, <2>3, <2>5, SameLog, NonzeroByte
<1>5. QED
  BY <1>3, <1>4, BytesAre

Times255(a, n) == (a * n) % 255

LEMMA Times255Laws ==
  ASSUME NEW a \in Logs, NEW n \in Nat
  PROVE  /\ Times255(a, n) \in Logs /\ Times255(a, 1) = a
         /\ Times255(a, n + 1) = Plus(Times255(a, n), a)
<1>1. a \in Nat /\ a < 255
  BY DEF Logs
<1> DEFINE m == a * n
<1>2. m \in Nat /\ a * (n + 1) = m + a
  BY <1>1
<1> HIDE DEF m
<1>3. m % 255 \in 0 .. 254 /\ (m + a) % 255 = ((m % 255) + a) % 255
  BY <1>1, <1>2
<1>4. Times255(a, n) = m % 255 /\ Times255(a, n + 1) = (m + a) % 255
  BY <1>2 DEF Times255, m
<1>5. Times255(a, 1) = a
  BY <1>1 DEF Times255
<1>6. QED
  BY <1>3, <1>4, <1>5 DEF Logs, Plus

\* exp multiplies again and again, for every exponent.
THEOREM ExpRepeatsMul ==
  ASSUME NEW x \in Byte, NEW n \in Nat
  PROVE  Exp(x, 0) = 1 /\ Exp(x, n) \in Byte /\ Exp(x, n + 1) = Mul(Exp(x, n), x)
<1>1. Exp(x, 0) = 1 /\ 1 \in Byte /\ n + 1 # 0
  BY DEF Exp, Byte
<1>2. CASE x = 0
  BY <1>1, <1>2, MulZero, BytesAre DEF Exp
<1>3. CASE x \in Nonzero
  <2>1. Log(x) \in Logs /\ At(exp_table, Log(x)) = x /\ x # 0
    BY <1>3, TableRanges, ExpOfLog, NonzeroByte DEF Log
  <2>2. \A m \in Nat : m # 0 => Exp(x, m) = At(exp_table, Times255(Log(x), m))
    BY <2>1 DEF Exp, Times255, Log
  <2>3. \A m \in Nat : Times255(Log(x), m) \in Logs
    BY <2>1, Times255Laws
  <2>4. CASE n = 0
    <3>1. Exp(x, 1) = x
      BY <2>1, <2>2, Times255Laws
    <3>2. QED
      BY <1>1, <2>4, <3>1, MulOne
  <2>5. CASE n # 0
    <3>1. Exp(x, n) = At(exp_table, Times255(Log(x), n))
      BY <2>2, <2>5
    <3>2. Exp(x, n) \in Nonzero /\ Log(Exp(x, n)) = Times255(Log(x), n)
      BY <2>3, <3>1, TableRanges, LogOfExp DEF Log
    <3>3. Mul(Exp(x, n), x) = At(exp_table, Plus(Times255(Log(x), n), Log(x)))
      BY <1>3, <3>2, MulOfLogs
    <3>4. Exp(x, n + 1) = At(exp_table, Times255(Log(x), n + 1))
      BY <1>1, <2>2
    <3>5. QED
      BY <1>1, <2>1, <3>2, <3>3, <3>4, Times255Laws, NonzeroByte
  <2>6. QED
    BY <2>4, <2>5
<1>4. QED
  BY <1>2, <1>3, BytesAre

-----------------------------------------------------------------------------
(* Functions defined by recursion on a number.                             *)

\* f starts with v and goes on with step.
Iterates(f, v, n, step) == f[0] = v /\ \A j \in 1 .. n : f[j] = step[<<j, f[j-1]>>]

LEMMA Iteration ==
  ASSUME NEW T, NEW v \in T, NEW n \in Nat, NEW step \in [(1 .. n) \X T -> T]
  PROVE  \E f \in [0 .. n -> T] : Iterates(f, v, n, step)
<1> DEFINE Reached(m) == \E f \in [0 .. m -> T] :
                           f[0] = v /\ \A j \in 1 .. m : f[j] = step[<<j, f[j-1]>>]
           S == { m \in Nat : m <= n => Reached(m) }
<1>1. 0 \in S
  <2> DEFINE f == [j \in 0 .. 0 |-> v]
  <2>1. f \in [0 .. 0 -> T] /\ f[0] = v /\ \A j \in 1 .. 0 : f[j] = step[<<j, f[j-1]>>]
    OBVIOUS
  <2>2. Reached(0)
    BY <2>1
  <2>3. QED
    BY <2>2
<1>2. ASSUME NEW m \in Nat, m \in S PROVE m + 1 \in S
  <2> SUFFICES ASSUME m + 1 <= n PROVE Reached(m + 1)
    OBVIOUS
  <2>1. m <= n
    OBVIOUS
  <2>2. PICK f \in [0 .. m -> T] :
               f[0] = v /\ \A j \in 1 .. m : f[j] = step[<<j, f[j-1]>>]
    BY <1>2, <2>1
  <2> DEFINE g == [j \in 0 .. m+1 |-> IF j = m + 1 THEN step[<<m + 1, f[m]>>] ELSE f[j]]
  <2>3. f[m] \in T /\ m + 1 \in 1 .. n
    BY <2>2
  <2>4. step[<<m + 1, f[m]>>] \in T
    BY <2>3
  <2>5. g \in [0 .. m+1 -> T]
    BY <2>2, <2>4
  <2>6. g[0] = v
    BY <2>2
  <2>7. ASSUME NEW j \in 1 .. m+1 PROVE g[j] = step[<<j, g[j-1]>>]
    <3>1. CASE j = m + 1
      <4>1. g[j] = step[<<m + 1, f[m]>>] /\ g[j-1] = f[m]
        BY <3>1
      <4>2. QED
        BY <3>1, <4>1
    <3>2. CASE j \in 1 .. m
      <4>1. g[j] = f[j] /\ g[j-1] = f[j-1]
        BY <3>2
      <4>2. QED
        BY <2>2, <3>2, <4>1
    <3>3. QED
      BY <3>1, <3>2
  <2> HIDE DEF g
  <2>8. QED
    BY <2>5, <2>6, <2>7
<1> HIDE DEF S
<1>3. Nat \subseteq S
  BY <1>1, <1>2, NatSetInduction
<1>4. QED
  BY <1>3 DEF S, Iterates

-----------------------------------------------------------------------------
(* Sums.                                                                   *)

\* The terms f[0] .. f[n-1] are bytes.
Bytes(f, n) == \A j \in 0 .. n-1 : f[j] \in Byte

Accumulates(s, f, n) == s[0] = 0 /\ \A j \in 1 .. n : s[j] = Add(s[j-1], f[j-1])

LEMMA SumUnique ==
  ASSUME NEW f, NEW s, NEW t, NEW n \in Nat, Accumulates(s, f, n), Accumulates(t, f, n)
  PROVE  s[n] = t[n]
<1> DEFINE S == { j \in Nat : j <= n => t[j] = s[j] }
<1>1. 0 \in S
  BY DEF Accumulates
<1>2. ASSUME NEW j \in Nat, j \in S PROVE j + 1 \in S
  <2> SUFFICES ASSUME j + 1 <= n PROVE t[j+1] = s[j+1]
    OBVIOUS
  <2>1. j + 1 \in 1 .. n /\ (j + 1) - 1 = j /\ t[j] = s[j]
    BY <1>2
  <2>2. t[j+1] = Add(t[j], f[j]) /\ s[j+1] = Add(s[j], f[j])
    BY <2>1 DEF Accumulates
  <2>3. QED
    BY <2>1, <2>2
<1> HIDE DEF S
<1>3. Nat \subseteq S
  BY <1>1, <1>2, NatSetInduction
<1>4. QED
  BY <1>3 DEF S

LEMMA SumExists ==
  ASSUME NEW f, NEW n \in Nat, Bytes(f, n)
  PROVE  \E s \in [0 .. n -> Byte] : Accumulates(s, f, n) /\ SumOf(f, n) = s[n]
<1> DEFINE step == [p \in (1 .. n) \X Byte |-> Add(p[2], f[p[1]-1])]
<1>1. step \in [(1 .. n) \X Byte -> Byte]
  <2> SUFFICES ASSUME NEW j \in 1 .. n, NEW b \in Byte PROVE Add(b, f[j-1]) \in Byte
    OBVIOUS
  <2>1. f[j-1] \in Byte
    BY DEF Bytes
  <2>2. QED
    BY <2>1, AddClosed
<1>2. \E s \in [0 .. n -> Byte] : Iterates(s, 0, n, step)
  <2> HIDE DEF step
  <2>1. 0 \in Byte
    BY BytesAre
  <2>2. QED
    BY <1>1, <2>1, Iteration
<1>3. PICK s \in [0 .. n -> Byte] : Accumulates(s, f, n)
  <2>1. PICK s \in [0 .. n -> Byte] : s[0] = 0 /\ \A j \in 1 .. n : s[j] = step[<<j, s[j-1]>>]
    BY <1>2 DEF Iterates
  <2>2. \A j \in 1 .. n : s[j-1] \in Byte
    OBVIOUS
  <2>3. \A j \in 1 .. n : s[j] = Add(s[j-1], f[j-1])
    BY <2>1, <2>2
  <2>4. QED
    BY <2>1, <2>3 DEF Accumulates
<1> HIDE DEF step
<1>4. s = [j \in 0 .. n |-> IF j = 0 THEN 0 ELSE Add(s[j-1], f[j-1])]
  BY <1>3 DEF Accumulates
<1> DEFINE t == CHOOSE u : u = [j \in 0 .. n |-> IF j = 0 THEN 0 ELSE Add(u[j-1], f[j-1])]
<1>5. t = [j \in 0 .. n |-> IF j = 0 THEN 0 ELSE Add(t[j-1], f[j-1])]
  BY <1>4
<1>6. SumOf(f, n) = t[n]
  BY DEF SumOf
<1> HIDE DEF t
<1>7. Accumulates(t, f, n)
  BY <1>5 DEF Accumulates
<1>8. QED
  BY <1>3, <1>6, <1>7, SumUnique

LEMMA SumByte ==
  ASSUME NEW f, NEW n \in Nat, Bytes(f, n)
  PROVE  SumOf(f, n) \in Byte
BY SumExists

LEMMA SumOfNone ==
  ASSUME NEW f
  PROVE  SumOf(f, 0) = 0
<1>1. Bytes(f, 0)
  BY DEF Bytes
<1>2. QED
  BY <1>1, SumExists DEF Accumulates

LEMMA SumStep ==
  ASSUME NEW f, NEW n \in Nat, Bytes(f, n + 1)
  PROVE  /\ SumOf(f, n + 1) = Add(SumOf(f, n), f[n])
         /\ Bytes(f, n) /\ f[n] \in Byte /\ SumOf(f, n) \in Byte
<1>1. Bytes(f, n) /\ f[n] \in Byte
  BY DEF Bytes
<1>2. PICK s \in [0 .. n -> Byte] : Accumulates(s, f, n) /\ SumOf(f, n) = s[n]
  BY <1>1, SumExists
<1>3. PICK t \in [0 .. n+1 -> Byte] : Accumulates(t, f, n + 1) /\ SumOf(f, n + 1) = t[n + 1]
  BY SumExists
<1>4. Accumulates(t, f, n) /\ t[n + 1] = Add(t[n], f[n])
  BY <1>3 DEF Accumulates
<1>5. s[n] = t[n]
  BY <1>2, <1>4, SumUnique
<1>6. QED
  BY <1>1, <1>2, <1>3, <1>4, <1>5

LEMMA FewerBytes ==
  ASSUME NEW f, NEW n \in Nat, Bytes(f, n), NEW m \in Nat, m <= n
  PROVE  Bytes(f, m)
BY DEF Bytes

\* The same terms have the same sum.
LEMMA SumSame ==
  ASSUME NEW f, NEW g, NEW n \in Nat, Bytes(f, n), \A j \in 0 .. n-1 : g[j] = f[j]
  PROVE  SumOf(g, n) = SumOf(f, n)
<1>1. Bytes(g, n)
  BY DEF Bytes
<1>2. PICK s \in [0 .. n -> Byte] : Accumulates(s, f, n) /\ SumOf(f, n) = s[n]
  BY SumExists
<1>3. PICK t \in [0 .. n -> Byte] : Accumulates(t, g, n) /\ SumOf(g, n) = t[n]
  BY <1>1, SumExists
<1>4. Accumulates(t, f, n)
  BY <1>3 DEF Accumulates
<1>5. QED
  BY <1>2, <1>3, <1>4, SumUnique

\* The sum of sums is the sum of the terms' sums.
LEMMA SumAdds ==
  ASSUME NEW f, NEW g, NEW h, NEW n \in Nat, Bytes(f, n), Bytes(g, n),
         \A j \in 0 .. n-1 : h[j] = Add(f[j], g[j])
  PROVE  SumOf(h, n) = Add(SumOf(f, n), SumOf(g, n))
<1>1. Bytes(h, n)
  BY AddClosed DEF Bytes
<1> DEFINE S == { m \in Nat : m <= n => SumOf(h, m) = Add(SumOf(f, m), SumOf(g, m)) }
<1>2. 0 \in S
  BY SumOfNone, AddZero, BytesAre
<1>3. ASSUME NEW m \in Nat, m \in S PROVE m + 1 \in S
  <2> SUFFICES ASSUME m + 1 <= n
               PROVE  SumOf(h, m + 1) = Add(SumOf(f, m + 1), SumOf(g, m + 1))
    OBVIOUS
  <2>1. SumOf(h, m) = Add(SumOf(f, m), SumOf(g, m))
    BY <1>3
  <2>2. Bytes(f, m + 1) /\ Bytes(g, m + 1) /\ Bytes(h, m + 1)
    BY <1>1, FewerBytes
  <2>3. h[m] = Add(f[m], g[m])
    OBVIOUS
  <2>4. /\ SumOf(h, m + 1) = Add(SumOf(h, m), h[m])
        /\ SumOf(f, m + 1) = Add(SumOf(f, m), f[m])
        /\ SumOf(g, m + 1) = Add(SumOf(g, m), g[m])
        /\ SumOf(f, m) \in Byte /\ f[m] \in Byte /\ SumOf(g, m) \in Byte /\ g[m] \in Byte
    BY <2>2, SumStep
  <2>5. QED
    BY <2>1, <2>3, <2>4, AddExchanges
<1> HIDE DEF S
<1>4. Nat \subseteq S
  BY <1>2, <1>3, NatSetInduction
<1>5. QED
  BY <1>4 DEF S

\* A factor of all the terms is a factor of the sum.
LEMMA SumScales ==
  ASSUME NEW f, NEW h, NEW x \in Byte, NEW n \in Nat, Bytes(f, n),
         \A j \in 0 .. n-1 : h[j] = Mul(x, f[j])
  PROVE  SumOf(h, n) = Mul(x, SumOf(f, n))
<1>1. Bytes(h, n)
  BY MulClosed DEF Bytes
<1> DEFINE S == { m \in Nat : m <= n => SumOf(h, m) = Mul(x, SumOf(f, m)) }
<1>2. 0 \in S
  BY SumOfNone, MulZero
<1>3. ASSUME NEW m \in Nat, m \in S PROVE m + 1 \in S
  <2> SUFFICES ASSUME m + 1 <= n PROVE SumOf(h, m + 1) = Mul(x, SumOf(f, m + 1))
    OBVIOUS
  <2>1. SumOf(h, m) = Mul(x, SumOf(f, m))
    BY <1>3
  <2>2. Bytes(f, m + 1) /\ Bytes(h, m + 1)
    BY <1>1, FewerBytes
  <2>3. h[m] = Mul(x, f[m])
    OBVIOUS
  <2>4. /\ SumOf(h, m + 1) = Add(SumOf(h, m), h[m])
        /\ SumOf(f, m + 1) = Add(SumOf(f, m), f[m])
        /\ SumOf(f, m) \in Byte /\ f[m] \in Byte
    BY <2>2, SumStep
  <2>5. QED
    BY <2>1, <2>3, <2>4, MulDistributes
<1> HIDE DEF S
<1>4. Nat \subseteq S
  BY <1>2, <1>3, NatSetInduction
<1>5. QED
  BY <1>4 DEF S

\* A sum of which at most one term is not 0 is that term.
LEMMA SumOfOne ==
  ASSUME NEW f, NEW n \in Nat, NEW i \in Nat, f[i] \in Byte,
         \A j \in 0 .. n-1 : j # i => f[j] = 0
  PROVE  SumOf(f, n) = IF i < n THEN f[i] ELSE 0
<1>1. Bytes(f, n)
  BY BytesAre DEF Bytes
<1> DEFINE S == { m \in Nat : m <= n => SumOf(f, m) = IF i < m THEN f[i] ELSE 0 }
<1>2. 0 \in S
  BY SumOfNone
<1>3. ASSUME NEW m \in Nat, m \in S PROVE m + 1 \in S
  <2> SUFFICES ASSUME m + 1 <= n PROVE SumOf(f, m + 1) = IF i < m + 1 THEN f[i] ELSE 0
    OBVIOUS
  <2>1. SumOf(f, m) = IF i < m THEN f[i] ELSE 0
    BY <1>3
  <2>2. SumOf(f, m + 1) = Add(SumOf(f, m), f[m])
    BY <1>1, FewerBytes, SumStep
  <2>3. CASE i = m
    BY <2>1, <2>2, <2>3, AddZero
  <2>4. CASE i # m
    <3>1. f[m] = 0
      BY <2>4
    <3>2. SumOf(f, m) \in Byte /\ Add(SumOf(f, m), 0) = SumOf(f, m)
      BY <2>1, BytesAre, AddZero
    <3>3. QED
      BY <2>1, <2>2, <2>4, <3>1, <3>2
  <2>5. QED
    BY <2>3, <2>4
<1> HIDE DEF S
<1>4. Nat \subseteq S
  BY <1>2, <1>3, NatSetInduction
<1>5. QED
  BY <1>4 DEF S

\* f has the sums of the rows of a table F of n rows and m columns, g those of its
\* columns, as the rows of G.
SumsOfTable(F, G, f, g, n, m) ==
  /\ \A a \in 0 .. n-1, b \in 0 .. m-1 : F[a][b] \in Byte /\ G[b][a] = F[a][b]
  /\ \A a \in 0 .. n-1 : f[a] = SumOf(F[a], m)
  /\ \A b \in 0 .. m-1 : g[b] = SumOf(G[b], n)

\* A sum of sums may be taken in the other order.
LEMMA SumExchanges ==
  ASSUME NEW F, NEW G, NEW f, NEW g, NEW n \in Nat, NEW m \in Nat, SumsOfTable(F, G, f, g, n, m)
  PROVE  SumOf(f, n) = SumOf(g, m)
<1> DEFINE row(a) == F[a]
           col(b) == G[b]
           part(l) == [b \in 0 .. m-1 |-> SumOf(col(b), l)]
           S == { l \in Nat : l <= n => SumOf(f, l) = SumOf(part(l), m) }
<1>1. \A a \in 0 .. n-1 : Bytes(row(a), m) /\ f[a] = SumOf(row(a), m)
  BY DEF Bytes, SumsOfTable
<1>2. \A b \in 0 .. m-1 : Bytes(col(b), n) /\ g[b] = SumOf(col(b), n)
  BY DEF Bytes, SumsOfTable
<1>3. Bytes(f, n)
  <2> HIDE DEF row
  <2>1. QED
    BY <1>1, SumByte DEF Bytes
<1>4. 0 \in S
  <2>1. \A b \in 0 .. m-1 : part(0)[b] = 0
    BY SumOfNone
  <2> HIDE DEF part
  <2>2. Bytes(part(0), m)
    BY <2>1, BytesAre DEF Bytes
  <2>3. CASE m = 0
    BY <2>3, SumOfNone
  <2>4. CASE m # 0
    <3>1. 0 \in Nat /\ 0 < m /\ part(0)[0] = 0
      BY <2>1, <2>4
    <3>2. SumOf(part(0), m) = 0
      BY <2>1, <3>1, SumOfOne, BytesAre
    <3>3. QED
      BY <3>2, SumOfNone
  <2>5. QED
    BY <2>3, <2>4
<1>5. ASSUME NEW l \in Nat, l \in S PROVE l + 1 \in S
  <2> SUFFICES ASSUME l + 1 <= n PROVE SumOf(f, l + 1) = SumOf(part(l + 1), m)
    OBVIOUS
  <2>1. SumOf(f, l) = SumOf(part(l), m) /\ l \in 0 .. n-1
    BY <1>5
  <2>2. \A b \in 0 .. m-1 : /\ SumOf(col(b), l) \in Byte /\ col(b)[l] \in Byte
                            /\ SumOf(col(b), l + 1) = Add(SumOf(col(b), l), col(b)[l])
    <3> HIDE DEF col
    <3>1. \A b \in 0 .. m-1 : Bytes(col(b), l + 1)
      BY <1>2, FewerBytes
    <3>2. QED
      BY <3>1, SumStep
  <2>3. \A b \in 0 .. m-1 : col(b)[l] = row(l)[b]
    BY <2>1 DEF SumsOfTable
  <2>4. \A b \in 0 .. m-1 : part(l)[b] = SumOf(col(b), l) /\ part(l + 1)[b] = SumOf(col(b), l + 1)
    OBVIOUS
  <2> HIDE DEF row, col, part
  <2>5. Bytes(part(l), m) /\ Bytes(row(l), m)
    BY <1>1, <2>1, <2>2, <2>4 DEF Bytes
  <2>6. \A b \in 0 .. m-1 : part(l + 1)[b] = Add(part(l)[b], row(l)[b])
    BY <2>2, <2>3, <2>4
  <2>7. SumOf(part(l + 1), m) = Add(SumOf(part(l), m), SumOf(row(l), m))
    BY <2>5, <2>6, SumAdds
  <2>8. SumOf(f, l + 1) = Add(SumOf(f, l), f[l])
    BY <1>3, FewerBytes, SumStep
  <2>9. QED
    BY <1>1, <2>1, <2>7, <2>8
<1>6. Nat \subseteq S
  <2> HIDE DEF S
  <2>1. QED
    BY <1>4, <1>5, NatSetInduction
<1>7. SumOf(f, n) = SumOf(part(n), m)
  BY <1>6
<1>8. \A b \in 0 .. m-1 : part(n)[b] = g[b]
  BY <1>2
<1>9. Bytes(g, m)
  <2> HIDE DEF col
  <2>1. QED
    BY <1>2, SumByte DEF Bytes
<1> HIDE DEF part
<1>10. QED
  BY <1>7, <1>8, <1>9, SumSame

\* A sum may be taken in two parts.
LEMMA SumSplits ==
  ASSUME NEW f, NEW g, NEW n \in Nat, NEW m \in Nat, Bytes(f, n + m),
         \A j \in 0 .. m-1 : g[j] = f[n + j]
  PROVE  SumOf(f, n + m) = Add(SumOf(f, n), SumOf(g, m))
<1>1. Bytes(g, m) /\ Bytes(f, n)
  BY DEF Bytes
<1> DEFINE S == { l \in Nat : l <= m => SumOf(f, n + l) = Add(SumOf(f, n), SumOf(g, l)) }
<1>2. 0 \in S
  BY <1>1, SumOfNone, SumByte, AddZero
<1>3. ASSUME NEW l \in Nat, l \in S PROVE l + 1 \in S
  <2> SUFFICES ASSUME l + 1 <= m
               PROVE  SumOf(f, n + (l + 1)) = Add(SumOf(f, n), SumOf(g, l + 1))
    OBVIOUS
  <2>1. SumOf(f, n + l) = Add(SumOf(f, n), SumOf(g, l))
    BY <1>3
  <2>2. Bytes(f, (n + l) + 1) /\ Bytes(g, l + 1) /\ n + l \in Nat
    <3>1. /\ (n + l) + 1 \in Nat /\ (n + l) + 1 <= n + m /\ n + m \in Nat
          /\ l + 1 \in Nat /\ n + l \in Nat
      OBVIOUS
    <3>2. QED
      BY <1>1, <3>1, FewerBytes
  <2>3. /\ SumOf(f, (n + l) + 1) = Add(SumOf(f, n + l), f[n + l])
        /\ f[n + l] \in Byte
    BY <2>2, SumStep
  <2>4. /\ SumOf(g, l + 1) = Add(SumOf(g, l), g[l]) /\ SumOf(g, l) \in Byte
    BY <2>2, SumStep
  <2>5. g[l] = f[n + l] /\ SumOf(f, n) \in Byte /\ n + (l + 1) = (n + l) + 1
    BY <1>1, SumByte
  <2>6. QED
    BY <2>1, <2>3, <2>4, <2>5, AddAssociates
<1> HIDE DEF S
<1>4. Nat \subseteq S
  BY <1>2, <1>3, NatSetInduction
<1>5. QED
  BY <1>4 DEF S

-----------------------------------------------------------------------------
(* Polynomials.                                                           *)

\* The terms of a polynomial of k coefficients v at x, and its value.
Terms(v, x, k) == [c \in 0 .. k-1 |-> Mul(Exp(x, c), v[c])]
Poly(v, x, k) == SumOf(Terms(v, x, k), k)

LEMMA TermsAreBytes ==
  ASSUME NEW v, NEW x \in Byte, NEW k \in Nat, Bytes(v, k)
  PROVE  Bytes(Terms(v, x, k), k) /\ Poly(v, x, k) \in Byte
<1>1. \A c \in 0 .. k-1 : Exp(x, c) \in Byte /\ v[c] \in Byte
  BY ExpRepeatsMul DEF Bytes
<1>2. Bytes(Terms(v, x, k), k)
  BY <1>1, MulClosed DEF Terms, Bytes
<1>3. QED
  BY <1>2, SumByte DEF Poly

\* Horner's rule.
LEMMA PolyStep ==
  ASSUME NEW v, NEW w, NEW x \in Byte, NEW k \in Nat, Bytes(v, k + 1),
         \A c \in 0 .. k-1 : w[c] = v[c + 1]
  PROVE  Poly(v, x, k + 1) = Add(v[0], Mul(x, Poly(w, x, k)))
<1> DEFINE f == Terms(v, x, k + 1)
           h == [c \in 0 .. k-1 |-> f[1 + c]]
           t == Terms(w, x, k)
<1>1. Bytes(w, k) /\ v[0] \in Byte
  BY DEF Bytes
<1>2. Bytes(f, 1 + k) /\ k + 1 = 1 + k
  BY TermsAreBytes
<1>3. Bytes(t, k)
  BY <1>1, TermsAreBytes
<1>4. f[0] = v[0]
  <2>1. f[0] = Mul(Exp(x, 0), v[0])
    BY DEF Terms
  <2>2. Exp(x, 0) = 1
    BY DEF Exp
  <2>3. QED
    BY <1>1, <2>1, <2>2, MulOne
<1>5. \A c \in 0 .. k-1 : h[c] = Mul(x, t[c])
  <2> TAKE c \in 0 .. k-1
  <2>1. h[c] = Mul(Exp(x, c + 1), v[c + 1]) /\ t[c] = Mul(Exp(x, c), v[c + 1])
    BY DEF Terms
  <2>2. Exp(x, c) \in Byte /\ Exp(x, c + 1) = Mul(Exp(x, c), x) /\ v[c + 1] \in Byte
    BY ExpRepeatsMul DEF Bytes
  <2>3. Mul(Mul(Exp(x, c), x), v[c + 1]) = Mul(x, Mul(Exp(x, c), v[c + 1]))
    <3>1. Mul(Exp(x, c), x) = Mul(x, Exp(x, c))
      BY <2>2, MulCommutes
    <3>2. QED
      BY <2>2, <3>1, MulAssociates
  <2>4. QED
    BY <2>1, <2>2, <2>3
<1>6. \A c \in 0 .. k-1 : h[c] = f[1 + c]
  OBVIOUS
<1>7. Poly(v, x, k + 1) = SumOf(f, 1 + k) /\ Poly(w, x, k) = SumOf(t, k)
  BY <1>2 DEF Poly
<1> HIDE DEF f, h, t
<1>8. SumOf(f, 1 + k) = Add(SumOf(f, 1), SumOf(h, k))
  BY <1>2, <1>6, SumSplits
<1>9. SumOf(h, k) = Mul(x, SumOf(t, k))
  BY <1>3, <1>5, SumScales
<1>10. SumOf(f, 1) = f[0]
  <2>1. Bytes(f, 0 + 1)
    BY <1>2 DEF Bytes
  <2>2. SumOf(f, 0 + 1) = Add(SumOf(f, 0), f[0]) /\ f[0] \in Byte
    BY <2>1, SumStep
  <2>3. QED
    BY <2>2, SumOfNone, AddZero
<1>11. QED
  BY <1>4, <1>7, <1>8, <1>9, <1>10

\* Dividing a polynomial by x - r: a quotient q and a rest e.
Divided(v, r, k, q, e) ==
  /\ Bytes(q, k) /\ e \in Byte
  /\ \A x \in Byte : Poly(v, x, k + 1) = Add(Mul(Add(x, r), Poly(q, x, k)), e)
  /\ (e = 0 /\ \A c \in 0 .. k-1 : q[c] = 0) => \A c \in 0 .. k : v[c] = 0

LEMMA Division ==
  ASSUME NEW r \in Byte
  PROVE  \A k \in Nat : \A v : Bytes(v, k + 1) => \E q, e : Divided(v, r, k, q, e)
<1> DEFINE Quotients(k) == \A v : Bytes(v, k + 1) => \E q, e : Divided(v, r, k, q, e)
           S == { k \in Nat : Quotients(k) }
<1>1. 0 \in S
  <2> SUFFICES ASSUME NEW v, Bytes(v, 0 + 1) PROVE \E q, e : Divided(v, r, 0, q, e)
    OBVIOUS
  <2> DEFINE q == [c \in 0 .. 0 |-> 0]
  <2>1. Bytes(q, 0) /\ v[0] \in Byte
    BY DEF Bytes
  <2>2. ASSUME NEW x \in Byte
        PROVE  Poly(v, x, 0 + 1) = Add(Mul(Add(x, r), Poly(q, x, 0)), v[0])
    <3>1. Poly(v, x, 0 + 1) = Add(v[0], Mul(x, Poly(q, x, 0)))
      BY PolyStep
    <3>2. Poly(q, x, 0) = 0
      BY SumOfNone DEF Poly
    <3>3. QED
      BY <2>1, <3>1, <3>2, MulZero, AddZero
  <2>3. Divided(v, r, 0, q, v[0])
    BY <2>1, <2>2 DEF Divided
  <2>4. QED
    BY <2>3
<1>2. ASSUME NEW k \in Nat, k \in S PROVE k + 1 \in S
  <2> SUFFICES ASSUME NEW v, Bytes(v, (k + 1) + 1)
               PROVE  \E q, e : Divided(v, r, k + 1, q, e)
    OBVIOUS
  <2> DEFINE w == [c \in 0 .. k |-> v[c + 1]]
  <2>1. Bytes(w, k + 1) /\ v[0] \in Byte
    BY DEF Bytes
  <2>2. \A c \in 0 .. (k + 1) - 1 : w[c] = v[c + 1]
    OBVIOUS
  <2>3. PICK p, a : Divided(w, r, k, p, a)
    BY <1>2, <2>1
  <2> HIDE DEF w
  <2> DEFINE q == [c \in 0 .. k |-> IF c = 0 THEN a ELSE p[c - 1]]
             e == Add(Mul(r, a), v[0])
  <2>4. /\ Bytes(p, k) /\ a \in Byte
        /\ \A x \in Byte : Poly(w, x, k + 1) = Add(Mul(Add(x, r), Poly(p, x, k)), a)
        /\ (a = 0 /\ \A c \in 0 .. k-1 : p[c] = 0) => \A c \in 0 .. k : w[c] = 0
    BY <2>3 DEF Divided
  <2>5. Bytes(q, k + 1) /\ q[0] = a /\ \A c \in 0 .. k-1 : p[c] = q[c + 1]
    BY <2>4 DEF Bytes
  <2>6. Mul(r, a) \in Byte /\ e \in Byte
    BY <2>1, <2>4, MulClosed, AddClosed
  <2>7. ASSUME NEW x \in Byte
        PROVE  Poly(v, x, (k + 1) + 1) = Add(Mul(Add(x, r), Poly(q, x, k + 1)), e)
    <3> DEFINE y == Add(x, r)
               z == Poly(p, x, k)
    <3>1. Poly(v, x, (k + 1) + 1) = Add(v[0], Mul(x, Poly(w, x, k + 1)))
      BY <2>2, PolyStep
    <3>2. Poly(w, x, k + 1) = Add(Mul(y, z), a)
      BY <2>4
    <3>3. Poly(q, x, k + 1) = Add(a, Mul(x, z))
      <4> HIDE DEF q
      <4>1. QED
        BY <2>5, PolyStep
    <3>4. y \in Byte /\ z \in Byte
      BY <2>4, AddClosed, TermsAreBytes
    <3>5. Add(y, r) = x
      BY AddCancels
    <3> HIDE DEF y, z, q, e
    <3>6. /\ Mul(y, z) \in Byte /\ Mul(x, z) \in Byte /\ Mul(x, Mul(y, z)) \in Byte
          /\ Mul(x, a) \in Byte /\ Mul(y, a) \in Byte
      BY <2>4, <3>4, MulClosed
    <3>7. Mul(x, Add(Mul(y, z), a)) = Add(Mul(x, Mul(y, z)), Mul(x, a))
      BY <2>4, <3>4, <3>6, MulDistributes
    <3>8. Mul(x, Mul(y, z)) = Mul(y, Mul(x, z))
      <4>1. Mul(x, y) = Mul(y, x)
        BY <3>4, MulCommutes
      <4>2. QED
        BY <3>4, <4>1, MulAssociates
    <3>9. Mul(x, a) = Add(Mul(y, a), Mul(r, a))
      <4>1. Mul(a, Add(y, r)) = Add(Mul(a, y), Mul(a, r))
        BY <2>4, <3>4, MulDistributes
      <4>2. QED
        BY <2>4, <3>4, <3>5, <4>1, MulCommutes
    <3>10. Mul(y, Add(a, Mul(x, z))) = Add(Mul(y, a), Mul(y, Mul(x, z)))
      BY <2>4, <3>4, <3>6, MulDistributes
    <3> DEFINE A == Mul(y, Mul(x, z))
               B == Mul(y, a)
               C == Mul(r, a)
    <3>11. A \in Byte /\ B \in Byte /\ C \in Byte
      BY <2>6, <3>6, <3>8
    <3>12. /\ Poly(v, x, (k + 1) + 1) = Add(v[0], Add(A, Add(B, C)))
           /\ Add(Mul(Add(x, r), Poly(q, x, k + 1)), e) = Add(Add(B, A), Add(C, v[0]))
      BY <3>1, <3>2, <3>3, <3>7, <3>8, <3>9, <3>10 DEF y, e
    <3> HIDE DEF A, B, C
    <3>13. Add(v[0], Add(A, Add(B, C))) = Add(Add(B, A), Add(C, v[0]))
      <4>1. Add(A, Add(B, C)) = Add(Add(A, B), C) /\ Add(A, B) = Add(B, A)
        BY <3>11, AddAssociates, AddCommutes
      <4>2. Add(A, B) \in Byte /\ Add(Add(A, B), C) \in Byte
        BY <3>11, AddClosed
      <4>3. Add(v[0], Add(Add(A, B), C)) = Add(Add(Add(A, B), C), v[0])
        BY <2>1, <4>2, AddCommutes
      <4>4. Add(Add(Add(A, B), C), v[0]) = Add(Add(A, B), Add(C, v[0]))
        BY <2>1, <3>11, <4>2, AddAssociates
      <4>5. QED
        BY <4>1, <4>3, <4>4
    <3>14. QED
      BY <3>12, <3>13
  <2>8. ASSUME e = 0, \A c \in 0 .. (k + 1) - 1 : q[c] = 0 PROVE \A c \in 0 .. k + 1 : v[c] = 0
    <3>1. a = 0 /\ \A c \in 0 .. k-1 : p[c] = 0
      <4> HIDE DEF q
      <4>1. 0 \in 0 .. (k + 1) - 1 /\ \A c \in 0 .. k-1 : c + 1 \in 0 .. (k + 1) - 1
        OBVIOUS
      <4>2. QED
        BY <2>5, <2>8, <4>1
    <3>2. \A c \in 0 .. k : v[c + 1] = 0
      BY <2>2, <2>4, <3>1
    <3>3. v[0] = 0
      BY <2>1, <2>8, <3>1, MulZero, AddZero
    <3>4. \A c \in 0 .. k + 1 : c = 0 \/ (c - 1 \in 0 .. k /\ c = (c - 1) + 1)
      OBVIOUS
    <3>5. QED
      BY <3>2, <3>3, <3>4
  <2> HIDE DEF q, e
  <2>9. Divided(v, r, k + 1, q, e)
    BY <2>5, <2>6, <2>7, <2>8 DEF Divided
  <2>10. QED
    BY <2>9
<1>3. Nat \subseteq S
  <2> HIDE DEF S
  <2>1. QED
    BY <1>1, <1>2, NatSetInduction
<1>4. QED
  BY <1>3

\* A polynomial of k coefficients that is 0 at k different bytes has no coefficient but 0.
Rooted(v, X, k) ==
  /\ Bytes(v, k) /\ Bytes(X, k)
  /\ \A i, j \in 0 .. k-1 : i # j => X[i] # X[j]
  /\ \A i \in 0 .. k-1 : Poly(v, X[i], k) = 0

LEMMA FewRoots ==
  \A k \in Nat : \A v, X : Rooted(v, X, k) => \A c \in 0 .. k-1 : v[c] = 0
<1> DEFINE OnlyZero(k) == \A v, X : Rooted(v, X, k) => \A c \in 0 .. k-1 : v[c] = 0
           S == { k \in Nat : OnlyZero(k) }
<1>1. 0 \in S
  OBVIOUS
<1>2. ASSUME NEW k \in Nat, k \in S PROVE k + 1 \in S
  <2> SUFFICES ASSUME NEW v, NEW X, Rooted(v, X, k + 1)
               PROVE  \A c \in 0 .. (k + 1) - 1 : v[c] = 0
    OBVIOUS
  <2>1. /\ Bytes(v, k + 1) /\ \A i \in 0 .. k : X[i] \in Byte
        /\ \A i, j \in 0 .. k : i # j => X[i] # X[j]
        /\ \A i \in 0 .. k : Poly(v, X[i], k + 1) = 0
    BY DEF Rooted, Bytes
  <2> DEFINE r == X[k]
  <2>2. r \in Byte
    BY <2>1
  <2>3. PICK q, e : Divided(v, r, k, q, e)
    BY <2>1, <2>2, Division
  <2>4. /\ Bytes(q, k) /\ e \in Byte
        /\ \A x \in Byte : Poly(v, x, k + 1) = Add(Mul(Add(x, r), Poly(q, x, k)), e)
        /\ (e = 0 /\ \A c \in 0 .. k-1 : q[c] = 0) => \A c \in 0 .. k : v[c] = 0
    BY <2>3 DEF Divided
  <2>5. e = 0
    <3>1. Poly(v, r, k + 1) = 0
      BY <2>1
    <3>2. Add(r, r) = 0
      BY <2>2, AddSelf
    <3>3. QED
      BY <2>2, <2>4, <3>1, <3>2, MulZero, AddZero
  <2>6. ASSUME NEW i \in 0 .. k-1 PROVE Poly(q, X[i], k) = 0
    <3>1. X[i] \in Byte /\ X[i] # r /\ Poly(v, X[i], k + 1) = 0
      BY <2>1
    <3>2. Poly(q, X[i], k) \in Byte /\ Add(X[i], r) \in Byte /\ Add(X[i], r) # 0
      BY <2>2, <2>4, <3>1, TermsAreBytes, AddClosed, AddCancels
    <3>3. Mul(Add(X[i], r), Poly(q, X[i], k)) = 0
      BY <2>4, <2>5, <3>1, <3>2, MulClosed, AddZero
    <3>4. QED
      BY <3>2, <3>3, MulOfNonzero
  <2>7. Rooted(q, X, k)
    BY <2>1, <2>4, <2>6 DEF Rooted, Bytes
  <2>8. \A c \in 0 .. k-1 : q[c] = 0
    BY <1>2, <2>7
  <2>9. QED
    BY <2>4, <2>5, <2>8
<1>3. Nat \subseteq S
  <2> HIDE DEF S
  <2>1. QED
    BY <1>1, <1>2, NatSetInduction
<1>4. QED
  BY <1>3

-----------------------------------------------------------------------------
(* The products by half-bytes.                                             *)

\* An entry of a table is where the program reads it.
LEMMA TabulatedAt ==
  ASSUME NEW f, NEW n \in Nat \ {0}, NEW e \in 0 .. n-1
  PROVE  /\ At(Tabulated(f, n), e) = f[e]
         /\ Len(Tabulated(f, n)) = n /\ DOMAIN Tabulated(f, n) = 1 .. n
<1> DEFINE S == { f[i] : i \in 0 .. n-1 }
           one == <<f[0]>>
           rest == [i \in 1 .. n-1 |-> f[i]]
<1>1. one \in Seq(S) /\ Len(one) = 1 /\ one[1] = f[0]
  OBVIOUS
<1>2. rest \in Seq(S) /\ Len(rest) = n - 1 /\ \A i \in 1 .. n-1 : rest[i] = f[i]
  <2>1. rest \in [1 .. n-1 -> S] /\ n - 1 \in Nat
    OBVIOUS
  <2>2. QED
    BY <2>1
<1>3. Tabulated(f, n) = one \o rest
  BY DEF Tabulated
<1> HIDE DEF S, one, rest
<1>4. /\ Len(one \o rest) = n /\ DOMAIN (one \o rest) = 1 .. n
      /\ \A i \in 1 .. n : (one \o rest)[i] = IF i <= 1 THEN one[i] ELSE rest[i - 1]
  <2>1. /\ one \o rest \in Seq(S) /\ Len(one \o rest) = Len(one) + Len(rest)
        /\ \A i \in 1 .. Len(one) + Len(rest) :
              (one \o rest)[i] = IF i <= Len(one) THEN one[i] ELSE rest[i - Len(one)]
    BY <1>1, <1>2, ConcatProperties
  <2>2. Len(one) + Len(rest) = n
    BY <1>1, <1>2
  <2>3. DOMAIN (one \o rest) = 1 .. n
    BY <2>1, <2>2, LenProperties
  <2>4. QED
    BY <1>1, <2>1, <2>2, <2>3
<1>5. (one \o rest)[e + 1] = IF e + 1 <= 1 THEN one[e + 1] ELSE rest[e]
  BY <1>4
<1>6. QED
  BY <1>1, <1>2, <1>3, <1>4, <1>5 DEF At

\* The half-byte tables of the encoder multiply like mul: what is encoded by tables is
\* decoded with matrices computed by mul.
THEOREM HalfBytesMultiply ==
  ASSUME NEW v \in Byte, NEW x \in Byte
  PROVE  AdvMul(v, x) = Mul(v, x)
<1> DEFINE l == x % 16
           h == x \div 16
<1>1. l \in 0 .. 15 /\ h \in 0 .. 15 /\ x = l + 16 * h
  BY DEF Byte
<1>2. At(lohi_table, v) = HalfProducts(v)
  <2> DEFINE f == [w \in Byte |-> HalfProducts(w)]
  <2>1. v \in 0 .. 256 - 1 /\ f[v] = HalfProducts(v)
    BY DEF Byte
  <2>2. lohi_table = Tabulated(f, 256)
    BY DEF lohi_table
  <2> HIDE DEF f
  <2>3. QED
    BY <2>1, <2>2, TabulatedAt
<1>3. At(HalfProducts(v).lo, l) = Mul(v, l) /\ At(HalfProducts(v).hi, h) = Mul(v, 16 * h)
  <2> DEFINE low  == [i \in 0 .. 15 |-> Mul(v, i)]
             high == [i \in 0 .. 15 |-> Mul(v, 16 * i)]
  <2>1. low[l] = Mul(v, l) /\ high[h] = Mul(v, 16 * h)
    BY <1>1
  <2>2. HalfProducts(v).lo = Tabulated(low, 16) /\ HalfProducts(v).hi = Tabulated(high, 16)
    BY DEF HalfProducts
  <2> HIDE DEF low, high, l, h
  <2>3. l \in 0 .. 16 - 1 /\ h \in 0 .. 16 - 1
    BY <1>1
  <2>4. QED
    BY <2>1, <2>2, <2>3, TabulatedAt
<1>4. AdvMul(v, x) = Add(Mul(v, l), Mul(v, 16 * h))
  BY <1>2, <1>3 DEF AdvMul
<1> HIDE DEF l, h
<1>5. l \in Byte /\ 16 * h \in Byte
  BY <1>1 DEF Byte
<1>6. AdvMul(v, x) = Mul(v, Add(l, 16 * h))
  BY <1>4, <1>5, MulDistributes
<1>7. QED
  BY <1>1, <1>6, AddOfHalves

-----------------------------------------------------------------------------
(* The generator of the tables.                                            *)

Loop == [aa : Byte, bb : Byte, r : Byte]

\* One round of the generator's mul.
Round(s) == [aa |-> s.aa \div 2, bb |-> ShiftLeft(s.bb),
             r  |-> IF s.aa % 2 = 1 THEN Add(s.r, s.bb) ELSE s.r]

\* A round leaves the product of what is left of one operand with the other, and what
\* was added up, together what it was.
LEMMA RoundKeeps ==
  ASSUME NEW s \in Loop
  PROVE  /\ Round(s) \in Loop /\ Round(s).aa = s.aa \div 2
         /\ Add(Round(s).r, Mul(Round(s).aa, Round(s).bb)) = Add(s.r, Mul(s.aa, s.bb))
<1> DEFINE a == s.aa
           b == s.bb
           h == a \div 2
           t == Round(s)
<1>1. a \in Byte /\ b \in Byte /\ s.r \in Byte
  BY DEF Loop
<1>2. ShiftLeft(b) \in Byte /\ Add(s.r, b) \in Byte
  BY <1>1, ShiftBits, AddClosed
<1>3. /\ t.aa = h /\ t.bb = ShiftLeft(b)
      /\ t.r = IF a % 2 = 1 THEN Add(s.r, b) ELSE s.r
  BY DEF Round
<1>4. h \in 0 .. 127 /\ (a % 2 = 0 => a = 2 * h) /\ (a % 2 = 1 => a = 2 * h + 1) /\ a % 2 \in {0, 1}
  BY <1>1 DEF Byte
<1>5. h \in Byte
  BY <1>4 DEF Byte
<1>6. t \in Loop
  BY <1>1, <1>2, <1>5 DEF Round, Loop
<1> HIDE DEF t, a, b, h
<1>7. 2 * h \in Byte /\ 2 \in Byte /\ 1 \in Byte /\ ShiftLeft(h) = 2 * h
  BY <1>4 DEF Byte, ShiftLeft
<1>8. Mul(h, ShiftLeft(b)) = Mul(2 * h, b)
  <2>1. ShiftLeft(b) = Mul(2, b) /\ 2 * h = Mul(2, h)
    BY <1>1, <1>5, <1>7, MulTwo
  <2>2. Mul(h, Mul(2, b)) = Mul(Mul(h, 2), b)
    BY <1>1, <1>5, <1>7, MulAssociates
  <2>3. QED
    BY <1>5, <1>7, <2>1, <2>2, MulCommutes
<1>9. Mul(2 * h, b) \in Byte
  BY <1>1, <1>7, MulClosed
<1>10. CASE a % 2 = 0
  BY <1>3, <1>4, <1>6, <1>8, <1>10 DEF t, a, b, h
<1>11. CASE a % 2 = 1
  <2>1. Add(2 * h, 1) = a
    <3>1. Add(2 * h, 1) = 2 * h + 1
      BY <1>4 DEF Add, Xor
    <3>2. QED
      BY <1>4, <1>11, <3>1
  <2>2. Mul(a, b) = Add(Mul(2 * h, b), b)
    BY <1>1, <1>7, <2>1, MulDistributes, MulOne
  <2>3. Add(s.r, Mul(a, b)) = Add(Add(s.r, b), Mul(2 * h, b))
    BY <1>1, <1>9, <2>2, AddAssociates, AddCommutes
  <2>4. Add(t.r, Mul(t.aa, t.bb)) = Add(s.r, Mul(a, b))
    BY <1>3, <1>8, <1>11, <2>3
  <2>5. QED
    BY <1>3, <1>6, <2>4 DEF t, a, b, h
<1>12. QED
  BY <1>4, <1>10, <1>11

\* The generator's mul is mul.
THEOREM PeasantMulIsMul ==
  ASSUME NEW a \in Byte, NEW b \in Byte
  PROVE  PeasantMul(a, b) = Mul(a, b)
<1> DEFINE first == [aa |-> a, bb |-> b, r |-> 0]
           step == [p \in (1 .. 8) \X Loop |-> Round(p[2])]
           rounds(f) == [j \in 0 .. 8 |-> IF j = 0 THEN first ELSE Round(f[j-1])]
<1>1. first \in Loop /\ first.aa = a /\ first.bb = b /\ first.r = 0
  BY BytesAre DEF Loop
<1>2. step \in [(1 .. 8) \X Loop -> Loop]
  BY RoundKeeps
<1> HIDE DEF first
<1>3. PICK f \in [0 .. 8 -> Loop] : f[0] = first /\ \A j \in 1 .. 8 : f[j] = Round(f[j-1])
  <2>1. \E f \in [0 .. 8 -> Loop] : Iterates(f, first, 8, step)
    <3> HIDE DEF step
    <3>1. QED
      BY <1>1, <1>2, Iteration
  <2>2. PICK f \in [0 .. 8 -> Loop] : f[0] = first /\ \A j \in 1 .. 8 : f[j] = step[<<j, f[j-1]>>]
    BY <2>1 DEF Iterates
  <2>3. \A j \in 1 .. 8 : f[j-1] \in Loop
    OBVIOUS
  <2>4. QED
    BY <2>2, <2>3
<1>4. f = rounds(f)
  BY <1>3
<1> DEFINE after == CHOOSE g : g = rounds(g)
<1>5. after = rounds(after)
  <2> HIDE DEF rounds
  <2>1. QED
    BY <1>4
<1>6. PeasantMul(a, b) = after[8].r
  BY DEF PeasantMul, Round, first
<1> HIDE DEF after
<1> DEFINE kept(s) == /\ s \in Loop
                      /\ Add(s.r, Mul(s.aa, s.bb)) = Mul(a, b)
<1>7. after[0] = first /\ \A j \in 0 .. 7 : after[j+1] = Round(after[j])
  BY <1>5
<1>8. kept(first)
  BY <1>1, AddZero, MulClosed
<1>9. \A s : kept(s) => kept(Round(s)) /\ Round(s).aa = s.aa \div 2
  BY RoundKeeps
<1> HIDE DEF kept, step, rounds
<1>10. kept(after[0]) /\ after[0].aa \in 0 .. 255
  BY <1>1, <1>7, <1>8 DEF Byte
<1>11. kept(after[1]) /\ after[1].aa \in 0 .. 127
  <2>1. after[1] = Round(after[0])
    BY <1>7
  <2>2. QED
    BY <1>9, <1>10, <2>1
<1>12. kept(after[2]) /\ after[2].aa \in 0 .. 63
  <2>1. after[2] = Round(after[1])
    BY <1>7
  <2>2. QED
    BY <1>9, <1>11, <2>1
<1>13. kept(after[3]) /\ after[3].aa \in 0 .. 31
  <2>1. after[3] = Round(after[2])
    BY <1>7
  <2>2. QED
    BY <1>9, <1>12, <2>1
<1>14. kept(after[4]) /\ after[4].aa \in 0 .. 15
  <2>1. after[4] = Round(after[3])
    BY <1>7
  <2>2. QED
    BY <1>9, <1>13, <2>1
<1>15. kept(after[5]) /\ after[5].aa \in 0 .. 7
  <2>1. after[5] = Round(after[4])
    BY <1>7
  <2>2. QED
    BY <1>9, <1>14, <2>1
<1>16. kept(after[6]) /\ after[6].aa \in 0 .. 3
  <2>1. after[6] = Round(after[5])
    BY <1>7
  <2>2. QED
    BY <1>9, <1>15, <2>1
<1>17. kept(after[7]) /\ after[7].aa \in 0 .. 1
  <2>1. after[7] = Round(after[6])
    BY <1>7
  <2>2. QED
    BY <1>9, <1>16, <2>1
<1>18. kept(after[8]) /\ after[8].aa = 0
  <2>1. after[8] = Round(after[7])
    BY <1>7
  <2>2. QED
    BY <1>9, <1>17, <2>1
<1>19. after[8].r = Mul(a, b)
  BY <1>18, MulZero, AddZero DEF kept, Loop
<1>20. QED
  BY <1>6, <1>19

\* The committed tables are what log-table-generator writes.
THEOREM TablesFilled == FilledExp(exp_table) /\ FilledLog(log_table, exp_table)
<1>1. At(exp_table, 0) = 1
  <2>1. 1 \in Nonzero /\ Log(1) = 0
    BY SmallLogs
  <2>2. QED
    BY <2>1, ExpOfLog DEF Log
<1>2. ASSUME NEW j \in 0 .. 253
      PROVE  At(exp_table, j + 1) = PeasantMul(At(exp_table, j), 3)
  <2>1. j \in Logs /\ 1 \in Logs /\ Plus(j, 1) = j + 1
    BY DEF Logs, Plus
  <2>2. At(exp_table, j) \in Nonzero /\ Log(At(exp_table, j)) = j
    BY <2>1, TableRanges, LogOfExp DEF Log
  <2>3. 3 \in Nonzero /\ Log(3) = 1
    BY SmallLogs
  <2>4. Mul(At(exp_table, j), 3) = At(exp_table, j + 1)
    BY <2>1, <2>2, <2>3, MulOfLogs
  <2>5. QED
    BY <2>2, <2>3, <2>4, PeasantMulIsMul, NonzeroByte
<1>3. QED
  BY <1>1, <1>2, TableRanges, LogOfExp DEF FilledExp, FilledLog, Logs

\* mul is the product of the field: what doubling an operand or adding one to it does
\* to the product determines it, and mul does that.
THEOREM MulByBits ==
  ASSUME NEW x \in Byte, NEW y \in 0 .. 127
  PROVE  Mul(x, 2 * y) = ShiftLeft(Mul(x, y)) /\ Mul(x, 2 * y + 1) = Add(Mul(x, 2 * y), x)
<1>1. /\ y \in Byte /\ 2 * y \in Byte /\ 1 \in Byte /\ 2 \in Byte
      /\ ShiftLeft(y) = 2 * y
  BY DEF Byte, ShiftLeft
<1>2. Add(2 * y, 1) = 2 * y + 1
  BY DEF Add, Xor
<1>3. Mul(x, 2 * y) = ShiftLeft(Mul(x, y))
  <2>1. Mul(x, Mul(2, y)) = Mul(2, Mul(x, y))
    BY <1>1, MulAssociates, MulCommutes
  <2>2. QED
    BY <1>1, <2>1, MulTwo, MulClosed
<1>4. Mul(x, Add(2 * y, 1)) = Add(Mul(x, 2 * y), x)
  BY <1>1, MulDistributes, MulOne
<1>5. QED
  BY <1>2, <1>3, <1>4
=============================================================================
