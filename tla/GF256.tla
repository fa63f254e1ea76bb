------------------------------- MODULE GF256 -------------------------------
(***************************************************************************)
(* The arithmetic of the erasure code: bytes as elements of GF(2^8), with  *)
(* the polynomial x^8 + x^4 + x^3 + x + 1 (0x11B) and the generator 3.     *)
(* Multiplication is done with tables that two build-time programs print.  *)
(* The tables of logarithms are those committed in log_tables.cpp; the     *)
(* table of half-byte products is defined the way its generator computes   *)
(* it.                                                                     *)
(***************************************************************************)
EXTENDS Integers, Sequences

Byte == 0 .. 255

\* The table of n entries 0 .. n-1 whose entry e is f[e], held as a sequence as the
\* program holds it in an array.  (TLC evaluates each entry of a concatenation once.)
Tabulated(f, n) == <<f[0]>> \o [i \in 1 .. n-1 |-> f[i]]
At(table, e) == table[e+1]

\* The exclusive or of two bytes: the bits at which they differ.
Xor(x, y) ==
  LET bit(e) == IF (x \div e) % 2 = (y \div e) % 2 THEN 0 ELSE e
  IN  bit(1) + bit(2) + bit(4) + bit(8) + bit(16) + bit(32) + bit(64) + bit(128)

\* Addition and subtraction are both exclusive or.
Add(x, y) == Xor(x, y)
Sub(x, y) == Xor(x, y)

-----------------------------------------------------------------------------
(* log-table-generator, and log_tables.cpp, its output.                    *)

\* Mutant of ShiftLeft: the reduction by another polynomial, 0x11D.
ShiftLeftBy11D(x) == IF x >= 128 THEN Add((2 * x) % 256, 29) ELSE 2 * x

\* bb <<= 1 and the reduction of the bit shifted out, the product with the
\* polynomial X.
ShiftLeft(x) == IF x >= 128 THEN Add((2 * x) % 256, 27) ELSE 2 * x

\* mul of the generator, by the bits of its first operand.
PeasantMul(a, b) ==
  LET after[j \in 0 .. 8] ==
        IF j = 0 THEN [aa |-> a, bb |-> b, r |-> 0]
        ELSE LET s == after[j-1]
             IN  [aa |-> s.aa \div 2, bb |-> ShiftLeft(s.bb),
                  r  |-> IF s.aa % 2 = 1 THEN Add(s.r, s.bb) ELSE s.r]
  IN  after[8].r

\* What fill_exp leaves in a table: the powers of 3, the last entry stays 0.
FilledExp(table) ==
  /\ At(table, 0) = 1 /\ At(table, 255) = 0
  /\ \A j \in 0 .. 253 : At(table, j + 1) = PeasantMul(At(table, j), 3)

\* What fill_log leaves: the exponent of each power (no power comes twice), entry 0
\* stays 0.
FilledLog(table, exps) ==
  At(table, 0) = 0 /\ \A j \in 0 .. 254 : At(table, At(exps, j)) = j

exp_table == <<
  1, 3, 5, 15, 17, 51, 85, 255, 26, 46, 114, 150, 161, 248, 19, 53, 95, 225, 56, 72, 216, 115,
  149, 164, 247, 2, 6, 10, 30, 34, 102, 170, 229, 52, 92, 228, 55, 89, 235, 38, 106, 190, 217, 112,
  144, 171, 230, 49, 83, 245, 4, 12, 20, 60, 68, 204, 79, 209, 104, 184, 211, 110, 178, 205, 76, 212,
  103, 169, 224, 59, 77, 215, 98, 166, 241, 8, 24, 40, 120, 136, 131, 158, 185, 208, 107, 189, 220, 127,
  129, 152, 179, 206, 73, 219, 118, 154, 181, 196, 87, 249, 16, 48, 80, 240, 11, 29, 39, 105, 187, 214,
  97, 163, 254, 25, 43, 125, 135, 146, 173, 236, 47, 113, 147, 174, 233, 32, 96, 160, 251, 22, 58, 78,
  210, 109, 183, 194, 93, 231, 50, 86, 250, 21, 63, 65, 195, 94, 226, 61, 71, 201, 64, 192, 91, 237,
  44, 116, 156, 191, 218, 117, 159, 186, 213, 100, 172, 239, 42, 126, 130, 157, 188, 223, 122, 142, 137, 128,
  155, 182, 193, 88, 232, 35, 101, 175, 234, 37, 111, 177, 200, 67, 197, 84, 252, 31, 33, 99, 165, 244,
  7, 9, 27, 45, 119, 153, 176, 203, 70, 202, 69, 207, 74, 222, 121, 139, 134, 145, 168, 227, 62, 66,
  198, 81, 243, 14, 18, 54, 90, 238, 41, 123, 141, 140, 143, 138, 133, 148, 167, 242, 13, 23, 57, 75,
  221, 124, 132, 151, 162, 253, 28, 36, 108, 180, 199, 82, 246, 0 >>

log_table == <<
  0, 0, 25, 1, 50, 2, 26, 198, 75, 199, 27, 104, 51, 238, 223, 3, 100, 4, 224, 14, 52, 141,
  129, 239, 76, 113, 8, 200, 248, 105, 28, 193, 125, 194, 29, 181, 249, 185, 39, 106, 77, 228, 166, 114,
  154, 201, 9, 120, 101, 47, 138, 5, 33, 15, 225, 36, 18, 240, 130, 69, 53, 147, 218, 142, 150, 143,
  219, 189, 54, 208, 206, 148, 19, 92, 210, 241, 64, 70, 131, 56, 102, 221, 253, 48, 191, 6, 139, 98,
  179, 37, 226, 152, 34, 136, 145, 16, 126, 110, 72, 195, 163, 182, 30, 66, 58, 107, 40, 84, 250, 133,
  61, 186, 43, 121, 10, 21, 155, 159, 94, 202, 78, 212, 172, 229, 243, 115, 167, 87, 175, 88, 168, 80,
  244, 234, 214, 116, 79, 174, 233, 213, 231, 230, 173, 232, 44, 215, 117, 122, 235, 22, 11, 245, 89, 203,
  95, 176, 156, 169, 81, 160, 127, 12, 246, 111, 23, 196, 73, 236, 216, 67, 31, 45, 164, 118, 123, 183,
  204, 187, 62, 90, 251, 96, 177, 134, 59, 82, 161, 108, 170, 85, 41, 157, 151, 178, 135, 144, 97, 190,
  220, 252, 188, 149, 207, 205, 55, 63, 91, 209, 83, 57, 132, 60, 65, 162, 109, 71, 20, 42, 158, 93,
  86, 242, 211, 171, 68, 17, 146, 217, 35, 32, 46, 137, 180, 124, 184, 38, 119, 153, 227, 165, 103, 74,
  237, 222, 197, 49, 254, 24, 13, 99, 140, 128, 192, 247, 112, 7 >>

-----------------------------------------------------------------------------
(* symbol.cpp.                                                             *)

\* Mutant of Mul: the sum of the logarithms is reduced by 256.
MulMod256(x, y) ==
  IF x = 0 \/ y = 0 THEN 0 ELSE At(exp_table, (At(log_table, x) + At(log_table, y)) % 256)

Mul(x, y) ==
  IF x = 0 \/ y = 0 THEN 0 ELSE At(exp_table, (At(log_table, x) + At(log_table, y)) % 255)

\* Mutant of Div: a negative difference is raised by 256.
DivBy256(x, y) ==
  LET result == At(log_table, x) - At(log_table, y)
  IN  IF x = 0 THEN 0 ELSE At(exp_table, IF result < 0 THEN result + 256 ELSE result)

\* div asserts y # 0.
Div(x, y) ==
  LET result == At(log_table, x) - At(log_table, y)
  IN  IF x = 0 THEN 0 ELSE At(exp_table, IF result < 0 THEN result + 255 ELSE result)

\* Mutant of Exp: the exponent is reduced by 256.
ExpMod256(x, n) ==
  IF n = 0 THEN 1 ELSE IF x = 0 THEN 0 ELSE At(exp_table, (At(log_table, x) * n) % 256)

Exp(x, n) ==
  IF n = 0 THEN 1 ELSE IF x = 0 THEN 0 ELSE At(exp_table, (At(log_table, x) * n) % 255)

\* What a loop that adds the terms f[0] .. f[count-1] to 0 computes.
SumOf(f, count) ==
  LET sum[j \in 0 .. count] == IF j = 0 THEN 0 ELSE Add(sum[j-1], f[j-1])
  IN  sum[count]

-----------------------------------------------------------------------------
(* The products by half-bytes that the encoder uses (encode_adv.cpp).      *)

\* lohi-generator: the products of v with every low and every high half-byte.
HalfProducts(v) == [lo |-> Tabulated([h \in 0 .. 15 |-> Mul(v, h)], 16),
                    hi |-> Tabulated([h \in 0 .. 15 |-> Mul(v, 16 * h)], 16)]
lohi_table == Tabulated([v \in Byte |-> HalfProducts(v)], 256)

\* Mutant of AdvMul: the two halves are looked up in each other's table.
AdvMulSwapped(v, x) ==
  LET entry == At(lohi_table, v) IN Add(At(entry.lo, x \div 16), At(entry.hi, x % 16))

\* mul_row and mul_add_row, for one byte: val times in_val.
AdvMul(v, x) ==
  LET entry == At(lohi_table, v) IN Add(At(entry.lo, x % 16), At(entry.hi, x \div 16))
=============================================================================
