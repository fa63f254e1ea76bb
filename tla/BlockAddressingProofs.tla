----------------------- MODULE BlockAddressingProofs -----------------------
(***************************************************************************)
(* Proofs about BlockNumbers, StorageKeys and BlockAddressing, for every   *)
(* size of a group, every width of an int and every base of the keys.      *)
(*                                                                         *)
(* The two integer types agree on every block number an int can hold, and  *)
(* division by ec_k gives every block a slot of its own.                   *)
(*                                                                         *)
(* Two chunks never have the same name.  The digits of a number are        *)
(* computed by a recursive function: that it exists, is the only one, and  *)
(* is injective is shown by the least number for which it would not be so. *)
(*                                                                         *)
(* The inductive invariant Inv says what is under every name: after g      *)
(* groups the names are those of the chunks of the epochs 0 .. g-1, and    *)
(* under the name of position p of epoch e is block ec_k * e + 1 + p, or   *)
(* parity.  The rest is arithmetic: the numbers of saved blocks lead to    *)
(* their own epoch and position (AddressingAgrees), all the other numbers  *)
(* to an epoch that was not saved or a position that no epoch has.         *)
(***************************************************************************)
EXTENDS BlockAddressing, FiniteSetTheorems, SequenceTheorems, TLAPS

\* Of the numbers of a set one is the least: this takes the place of induction, for
\* which no theorem of the library can be used.
LEMMA LeastNumber ==
  ASSUME NEW S \in SUBSET Nat, S # {}
  PROVE  \E x \in S : \A y \in S : x <= y
<1> DEFINE R == { q \in Nat \X Nat : q[1] < q[2] }
<1>1. IsWellFoundedOn(R, Nat)
  BY NatLessThanWellFounded DEF OpToRel
<1>2. \A x, y \in Nat : <<y, x>> \notin R => x <= y
  OBVIOUS
<1> HIDE DEF R
<1>3. \E x \in S : \A y \in S : <<y, x>> \notin R
  BY <1>1, WFMin
<1>4. QED
  BY <1>2, <1>3

-----------------------------------------------------------------------------
(* Division by the size of a group.                                        *)

\* Division by ec_k: what the two operators return on a non-negative number.
LEMMA DivideNat ==
  ASSUME NEW x \in Nat
  PROVE  /\ Quotient(x) \in 0 .. x
         /\ Remainder(x) \in 0 .. ec_k - 1
         /\ x = ec_k * Quotient(x) + Remainder(x)
<1> USE BlockNumbersAssumption
<1>1. Quotient(x) = x \div ec_k
  BY DEF Quotient
<1>2. /\ x \div ec_k \in Nat
      /\ x = ec_k * (x \div ec_k) + (x % ec_k)
      /\ x % ec_k \in 0 .. ec_k - 1
  OBVIOUS
<1>3. x \div ec_k <= x
  BY <1>2
<1>4. QED
  BY <1>1, <1>2, <1>3 DEF Remainder

\* getBlockByNumber computes with unsigned ints what saveChunk,
\* computeBlocksInWhichNode and computeChunkPosition compute with ints:
\* a block that was saved is looked for where it was put.
THEOREM AddressingAgrees ==
  ASSUME NEW b \in 1 .. IntMax
  PROVE  /\ EpochOfUnsigned(b) = EpochOfInt(b)
         /\ PosOfUnsigned(b) = PosOfInt(b)
         /\ ChunkPosition(b) = <<EpochOfInt(b), PosOfInt(b)>>
         /\ EpochOfInt(b) \in Nat
         /\ PosOfInt(b) \in 0 .. ec_k - 1
         /\ b - 1 = ec_k * EpochOfInt(b) + PosOfInt(b)
<1> USE BlockNumbersAssumption
<1>1. b - 1 \in Nat /\ b - 1 <= IntMax /\ IntMax < Word /\ IntMax \in Int
  BY DEF IntMax
<1>2. \A y \in Nat : y <= IntMax => ToUnsigned(y) = y /\ ToInt(y) = y
  BY <1>1 DEF ToUnsigned, ToInt
<1> DEFINE q == Quotient(b - 1)
           r == Remainder(b - 1)
<1>3. q \in 0 .. b - 1 /\ r \in 0 .. ec_k - 1 /\ b - 1 = ec_k * q + r
  BY <1>1, DivideNat
<1>4. r <= b - 1
  <2>1. ec_k * q \in Nat
    BY <1>3
  <2>2. QED
    BY <1>3, <2>1
<1>5. q \in Nat /\ r \in Nat /\ q <= IntMax /\ r <= IntMax
  BY <1>1, <1>3, <1>4
<1>6. EpochOfInt(b) = q /\ PosOfInt(b) = r
  BY <1>2, <1>5 DEF EpochOfInt, PosOfInt
<1>7. EpochOfUnsigned(b) = q /\ PosOfUnsigned(b) = r
  BY <1>1, <1>2, <1>5 DEF EpochOfUnsigned, PosOfUnsigned
<1>8. ChunkPosition(b) = <<q, r>>
  BY <1>2, <1>5, <1>6 DEF ChunkPosition
<1>9. QED
  BY <1>3, <1>5, <1>6, <1>7, <1>8

\* Two blocks never share a slot.
THEOREM SlotsAreDistinct ==
  ASSUME NEW b \in 1 .. IntMax, NEW c \in 1 .. IntMax,
         EpochOfInt(b) = EpochOfInt(c), PosOfInt(b) = PosOfInt(c)
  PROVE  b = c
<1>1. b - 1 = c - 1
  BY AddressingAgrees
<1>2. b \in Int /\ c \in Int
  BY BlockNumbersAssumption DEF IntMax
<1>3. QED
  BY <1>1, <1>2

\* Division by ec_k has one quotient and one remainder.
LEMMA DivideUnique ==
  ASSUME NEW q1 \in Nat, NEW q2 \in Nat,
         NEW r1 \in 0 .. ec_k - 1, NEW r2 \in 0 .. ec_k - 1,
         ec_k * q1 + r1 = ec_k * q2 + r2
  PROVE  q1 = q2 /\ r1 = r2
<1> USE BlockNumbersAssumption
<1>1. CASE q1 < q2
  <2>1. ec_k * q2 >= ec_k * q1 + ec_k
    BY <1>1
  <2>2. QED
    BY <2>1
<1>2. CASE q2 < q1
  <2>1. ec_k * q1 >= ec_k * q2 + ec_k
    BY <1>2
  <2>2. QED
    BY <2>1
<1>3. QED
  BY <1>1, <1>2

\* The blocks that saveChunk(blocks, last) is given, last being a multiple of
\* ec_k, are the blocks of one epoch, in the order of their positions.
THEOREM GroupIsEpoch ==
  ASSUME NEW e \in Nat, NEW p \in 0 .. ec_k - 1, ec_k * (e + 1) <= IntMax
  PROVE  /\ EpochOfInt(ec_k * (e + 1)) = e
         /\ EpochOfInt(ec_k * e + 1 + p) = e
         /\ PosOfInt(ec_k * e + 1 + p) = p
<1> USE BlockNumbersAssumption
<1>1. ec_k * e \in Nat /\ ec_k * (e + 1) = ec_k * e + ec_k /\ IntMax \in Int
  BY DEF IntMax
<1>2. ASSUME NEW d \in 0 .. ec_k - 1
      PROVE  EpochOfInt(ec_k * e + 1 + d) = e /\ PosOfInt(ec_k * e + 1 + d) = d
  <2> DEFINE b == ec_k * e + 1 + d
  <2>1. b \in 1 .. IntMax /\ b - 1 = ec_k * e + d
    <3>1. d \in Nat /\ d <= ec_k - 1 /\ ec_k * e + ec_k <= IntMax
      BY <1>1
    <3> HIDE DEF b
    <3>2. b = ec_k * e + 1 + d
      BY DEF b
    <3>3. QED
      BY <1>1, <3>1, <3>2
  <2>2. /\ EpochOfInt(b) \in Nat /\ PosOfInt(b) \in 0 .. ec_k - 1
        /\ b - 1 = ec_k * EpochOfInt(b) + PosOfInt(b)
    BY <2>1, AddressingAgrees
  <2>3. ec_k * e + d = ec_k * EpochOfInt(b) + PosOfInt(b)
    BY <2>1, <2>2
  <2>4. \A q \in Nat, r \in 0 .. ec_k - 1 :
           ec_k * e + d = ec_k * q + r => e = q /\ d = r
    BY DivideUnique
  <2>5. QED
    BY <2>2, <2>3, <2>4
<1>3. ec_k * (e + 1) = ec_k * e + 1 + (ec_k - 1)
  BY <1>1
<1>4. QED
  BY <1>2, <1>3

-----------------------------------------------------------------------------
(* The digits of a number.                                                 *)

\* f computes the digits of the numbers to n.
IsStr(f, n, base) ==
  f = [x \in 0 .. n |->
         IF x \div base > 0 THEN Append(f[x \div base], x % base) ELSE <<x % base>>]

LEMMA DivideByBase ==
  ASSUME NEW x \in Nat, NEW base \in Nat \ {0, 1}
  PROVE  /\ x \div base \in Nat /\ x % base \in 0 .. base-1
         /\ x = base * (x \div base) + (x % base)
         /\ x \div base > 0 => x \div base < x
<1> DEFINE q == x \div base
           r == x % base
<1>1. q \in Nat /\ r \in 0 .. base-1 /\ x = base * q + r
  OBVIOUS
<1> HIDE DEF q, r
<1>2. ASSUME q > 0 PROVE q < x
  <2>1. base * q >= 2 * q
    BY <1>1
  <2>2. base * q \in Nat
    BY <1>1
  <2>3. QED
    BY <1>1, <1>2, <2>1, <2>2
<1>3. QED
  BY <1>1, <1>2 DEF q, r

LEMMA StrExists ==
  ASSUME NEW n \in Nat, NEW base \in Nat \ {0, 1}
  PROVE  \E f : IsStr(f, n, base)
<1> DEFINE S == { m \in Nat : ~ \E f : IsStr(f, m, base) }
<1>1. SUFFICES ASSUME S # {} PROVE FALSE
  OBVIOUS
<1>2. PICK m \in S : \A y \in S : m <= y
  BY <1>1, LeastNumber
<1>3. CASE m = 0
  <2> DEFINE g == [x \in 0 .. 0 |-> <<x % base>>]
  <2>1. \A x \in 0 .. 0 : ~ (x \div base > 0)
    <3>1. TAKE x \in 0 .. 0
    <3>2. x = 0 /\ x \in Nat
      OBVIOUS
    <3>3. QED
      BY <3>2, DivideByBase
  <2>2. IsStr(g, 0, base)
    BY <2>1 DEF IsStr
  <2>3. QED
    BY <1>2, <1>3, <2>2
<1>4. CASE m > 0
  <2>1. m - 1 \in Nat /\ m \in Nat /\ m - 1 \notin S
    BY <1>2, <1>4
  <2>2. PICK f : IsStr(f, m - 1, base)
    BY <2>1
  <2> DEFINE Step(x) == IF x \div base > 0 THEN Append(f[x \div base], x % base) ELSE <<x % base>>
             g == [x \in 0 .. m |-> Step(x)]
  <2>3. \A x \in 0 .. m - 1 : f[x] = Step(x)
    BY <2>2 DEF IsStr
  <2>4. ASSUME NEW x \in 0 .. m, x \div base > 0
        PROVE  x \div base \in 0 .. m /\ x \div base \in 0 .. m - 1
    <3>1. x \in Nat /\ x <= m
      BY <2>1
    <3> DEFINE q == x \div base
    <3>2. q \in Nat /\ q < x
      BY <2>4, <3>1, DivideByBase
    <3> HIDE DEF q
    <3>3. q \in 0 .. m /\ q \in 0 .. m - 1
      BY <2>1, <3>1, <3>2
    <3>4. QED
      BY <3>3 DEF q
  <2> HIDE DEF Step
  <2>5. ASSUME NEW x \in 0 .. m, x \div base > 0
        PROVE  g[x \div base] = f[x \div base]
    BY <2>3, <2>4, <2>5
  <2>6. ASSUME NEW x \in 0 .. m
        PROVE  Step(x) = IF x \div base > 0 THEN Append(g[x \div base], x % base) ELSE <<x % base>>
    BY <2>5 DEF Step
  <2> HIDE DEF g
  <2>7. g = [x \in 0 .. m |-> IF x \div base > 0 THEN Append(g[x \div base], x % base)
                              ELSE <<x % base>>]
    BY <2>6 DEF g
  <2>8. IsStr(g, m, base)
    BY <2>7 DEF IsStr
  <2>9. QED
    BY <1>2, <2>8
<1>5. QED
  BY <1>2, <1>3, <1>4

LEMMA StrUnique ==
  ASSUME NEW n \in Nat, NEW m \in Nat, NEW base \in Nat \ {0, 1}, NEW f, NEW g,
         IsStr(f, n, base), IsStr(g, m, base),
         NEW z \in Nat, z <= n, z <= m
  PROVE  f[z] = g[z]
<1> DEFINE S == { y \in Nat : y <= n /\ y <= m /\ f[y] # g[y] }
<1>1. SUFFICES ASSUME S # {} PROVE FALSE
  OBVIOUS
<1>2. PICK x \in S : \A y \in S : x <= y
  BY <1>1, LeastNumber
<1>3. x \in 0 .. n /\ x \in 0 .. m /\ x \in Nat
  BY <1>2
<1>4. /\ f[x] = IF x \div base > 0 THEN Append(f[x \div base], x % base) ELSE <<x % base>>
      /\ g[x] = IF x \div base > 0 THEN Append(g[x \div base], x % base) ELSE <<x % base>>
  BY <1>3 DEF IsStr
<1>5. ASSUME x \div base > 0 PROVE f[x \div base] = g[x \div base]
  <2>1. x \div base \in Nat /\ x \div base < x
    BY <1>3, <1>5, DivideByBase
  <2>2. x \div base \notin S
    BY <1>2, <1>3, <2>1
  <2>3. QED
    BY <1>3, <2>1, <2>2
<1>6. QED
  BY <1>2, <1>4, <1>5

\* The digits of the quotient, and behind them the remainder.
LEMMA StrInBaseIs ==
  ASSUME NEW num \in Nat, NEW base \in Nat \ {0, 1}
  PROVE  StrInBase(num, base) = IF num \div base > 0
                                THEN Append(StrInBase(num \div base, base), num % base)
                                ELSE <<num % base>>
<1> DEFINE F(n) == CHOOSE f : IsStr(f, n, base)
           q == num \div base
<1>1. \A n \in Nat : IsStr(F(n), n, base)
  <2>1. TAKE n \in Nat
  <2>2. \E f : IsStr(f, n, base)
    BY StrExists
  <2>3. QED
    BY <2>2
<1>2. \A n \in Nat : StrInBase(n, base) = F(n)[n]
  BY DEF StrInBase, IsStr
<1> HIDE DEF F
<1>3. F(num)[num] = IF q > 0 THEN Append(F(num)[q], num % base) ELSE <<num % base>>
  <2>1. num \in 0 .. num
    OBVIOUS
  <2>2. QED
    BY <1>1, <2>1 DEF IsStr
<1>4. ASSUME q > 0 PROVE F(num)[q] = F(q)[q]
  <2>1. q \in Nat /\ q <= num /\ q <= q
    BY <1>4, DivideByBase
  <2> HIDE DEF q
  <2>2. QED
    BY <1>1, <2>1, StrUnique
<1>5. q \in Nat
  BY DivideByBase
<1>6. QED
  BY <1>2, <1>3, <1>4, <1>5

LEMMA StrIsDigits ==
  ASSUME NEW num \in Nat, NEW base \in Nat \ {0, 1}
  PROVE  StrInBase(num, base) \in Seq(Nat) /\ Len(StrInBase(num, base)) > 0
<1> DEFINE Good(n) == StrInBase(n, base) \in Seq(Nat) /\ Len(StrInBase(n, base)) > 0
           S == { n \in Nat : ~ Good(n) }
<1>1. SUFFICES ASSUME S # {} PROVE FALSE
  OBVIOUS
<1>2. PICK n \in S : \A y \in S : n <= y
  BY <1>1, LeastNumber
<1>3. n \in Nat /\ n % base \in Nat /\ n \div base \in Nat
  BY <1>2, DivideByBase
<1>4. CASE n \div base > 0
  <2>1. n \div base < n
    BY <1>3, <1>4, DivideByBase
  <2>2. Good(n \div base)
    BY <1>2, <1>3, <2>1
  <2>3. StrInBase(n, base) = Append(StrInBase(n \div base, base), n % base)
    BY <1>3, <1>4, StrInBaseIs
  <2>4. \A t \in Seq(Nat), d \in Nat : Append(t, d) \in Seq(Nat) /\ Len(Append(t, d)) > 0
    OBVIOUS
  <2>5. Good(n)
    BY <1>3, <2>2, <2>3, <2>4
  <2>6. QED
    BY <1>2, <2>5
<1>5. CASE ~ (n \div base > 0)
  <2>1. StrInBase(n, base) = <<n % base>>
    BY <1>3, <1>5, StrInBaseIs
  <2>2. \A d \in Nat : <<d>> \in Seq(Nat) /\ Len(<<d>>) > 0
    OBVIOUS
  <2>3. Good(n)
    BY <1>3, <2>1, <2>2
  <2>4. QED
    BY <1>2, <2>3
<1>6. QED
  BY <1>4, <1>5

\* Two numbers do not have the same digits.
LEMMA StrIsInjective ==
  ASSUME NEW base \in Nat \ {0, 1}, NEW m \in Nat, NEW n \in Nat,
         StrInBase(m, base) = StrInBase(n, base)
  PROVE  m = n
<1> DEFINE Str(x) == StrInBase(x, base)
           S == { x \in Nat : \E y \in Nat : Str(x) = Str(y) /\ x # y }
<1>1. SUFFICES ASSUME S # {} PROVE FALSE
  OBVIOUS
<1>2. PICK x \in S : \A y \in S : x <= y
  BY <1>1, LeastNumber
<1>3. PICK y \in Nat : Str(x) = Str(y) /\ x # y
  BY <1>2
<1> DEFINE q == x \div base
           p == y \div base
           r == x % base
           t == y % base
<1>4. x \in Nat /\ q \in Nat /\ p \in Nat /\ r \in Nat /\ t \in Nat
      /\ x = base * q + r /\ y = base * p + t
  <2>1. x \in Nat
    BY <1>2
  <2>2. q \in Nat /\ r \in 0 .. base-1 /\ x = base * q + r
    BY <2>1, DivideByBase
  <2>3. p \in Nat /\ t \in 0 .. base-1 /\ y = base * p + t
    BY <1>3, DivideByBase
  <2>4. r \in Nat /\ t \in Nat
    BY <2>2, <2>3
  <2>5. QED
    BY <2>1, <2>2, <2>3, <2>4
<1>5. /\ Str(x) = IF q > 0 THEN Append(Str(q), r) ELSE <<r>>
      /\ Str(y) = IF p > 0 THEN Append(Str(p), t) ELSE <<t>>
  BY <1>3, <1>4, StrInBaseIs
<1>6. Str(q) \in Seq(Nat) /\ Len(Str(q)) > 0 /\ Str(p) \in Seq(Nat) /\ Len(Str(p)) > 0
  BY <1>4, StrIsDigits
<1>7. q > 0 => q < x
  BY <1>4, DivideByBase
<1> HIDE DEF q, p, r, t, Str
<1>8. \A u \in Seq(Nat), d \in Nat : /\ Len(Append(u, d)) = Len(u) + 1
                                      /\ Append(u, d)[Len(u) + 1] = d
                                      /\ SubSeq(Append(u, d), 1, Len(u)) = u
  OBVIOUS
<1>9. \A d \in Nat : Len(<<d>>) = 1 /\ <<d>>[1] = d
  OBVIOUS
<1>10. CASE q > 0 /\ p > 0
  <2>1. Append(Str(q), r) = Append(Str(p), t)
    BY <1>3, <1>5, <1>10
  <2>2. Len(Str(q)) = Len(Str(p))
    BY <1>4, <1>6, <1>8, <2>1
  <2>3. r = t /\ Str(q) = Str(p)
    <3> DEFINE l == Len(Str(q))
    <3>1. Append(Str(q), r)[l + 1] = r /\ SubSeq(Append(Str(q), r), 1, l) = Str(q)
      BY <1>4, <1>6, <1>8
    <3>2. Append(Str(p), t)[l + 1] = t /\ SubSeq(Append(Str(p), t), 1, l) = Str(p)
      BY <1>4, <1>6, <1>8, <2>2
    <3>3. QED
      BY <2>1, <3>1, <3>2
  <2>4. q = p
    <3>1. q \notin S
      BY <1>2, <1>4, <1>7, <1>10
    <3>2. QED
      BY <1>4, <2>3, <3>1
  <2>5. QED
    BY <1>3, <1>4, <2>3, <2>4
<1>11. CASE ~ (q > 0) /\ ~ (p > 0)
  <2>1. q = 0 /\ p = 0
    BY <1>4, <1>11
  <2>2. r = t
    BY <1>3, <1>4, <1>5, <1>9, <1>11
  <2>3. QED
    BY <1>3, <1>4, <2>1, <2>2
<1>12. CASE (q > 0 /\ ~ (p > 0)) \/ (p > 0 /\ ~ (q > 0))
  <2>1. Len(Append(Str(q), r)) > 1 /\ Len(Append(Str(p), t)) > 1
    BY <1>4, <1>6, <1>8
  <2>2. Len(<<r>>) = 1 /\ Len(<<t>>) = 1
    BY <1>4, <1>9
  <2>3. CASE q > 0 /\ ~ (p > 0)
    <3>1. Append(Str(q), r) = <<t>>
      BY <1>3, <1>5, <2>3
    <3>2. Len(<<t>>) > 1
      BY <2>1, <3>1
    <3>3. QED
      BY <2>2, <3>2
  <2>4. CASE p > 0 /\ ~ (q > 0)
    <3>1. Append(Str(p), t) = <<r>>
      BY <1>3, <1>5, <2>4
    <3>2. Len(<<r>>) > 1
      BY <2>1, <3>1
    <3>3. QED
      BY <2>2, <3>2
  <2>5. QED
    BY <1>12, <2>3, <2>4
<1>13. QED
  BY <1>10, <1>11, <1>12

-----------------------------------------------------------------------------
(* Names.                                                                  *)

\* Two numbers with the sign between them.
Joined(s, t) == s \o <<Plus>> \o t

\* The sign shows where the first number ends.
LEMMA SeparatorSeparates ==
  ASSUME NEW s \in Seq(Nat), NEW t \in Seq(Nat), NEW u \in Seq(Nat), NEW v \in Seq(Nat),
         Joined(s, t) = Joined(u, v)
  PROVE  s = u /\ t = v
<1> DEFINE a == s \o <<Plus>> \o t
           c == u \o <<Plus>> \o v
<1>1. /\ Plus \in Int /\ Plus < 0
      /\ s \in Seq(Int) /\ t \in Seq(Int) /\ u \in Seq(Int) /\ v \in Seq(Int)
      /\ <<Plus>> \in Seq(Int) /\ Len(<<Plus>>) = 1 /\ <<Plus>>[1] = Plus
      /\ \A x \in 1 .. Len(s) : s[x] >= 0
      /\ \A x \in 1 .. Len(u) : u[x] >= 0
      /\ Len(s) \in Nat /\ Len(t) \in Nat /\ Len(u) \in Nat /\ Len(v) \in Nat
  BY DEF Plus
<1>2. ASSUME NEW f \in Seq(Int), NEW g \in Seq(Int)
      PROVE  /\ f \o <<Plus>> \o g \in Seq(Int)
             /\ Len(f \o <<Plus>> \o g) = Len(f) + 1 + Len(g)
             /\ \A x \in 1 .. Len(f) : (f \o <<Plus>> \o g)[x] = f[x]
             /\ (f \o <<Plus>> \o g)[Len(f) + 1] = Plus
             /\ \A x \in 1 .. Len(g) : (f \o <<Plus>> \o g)[Len(f) + 1 + x] = g[x]
  <2> DEFINE h == f \o <<Plus>>
  <2>1. /\ h \in Seq(Int) /\ Len(h) = Len(f) + 1
        /\ \A x \in 1 .. Len(f) : h[x] = f[x]
        /\ h[Len(f) + 1] = Plus
    BY <1>1
  <2> HIDE DEF h
  <2>2. /\ h \o g \in Seq(Int) /\ Len(h \o g) = Len(h) + Len(g)
        /\ \A x \in 1 .. Len(h) : (h \o g)[x] = h[x]
        /\ \A x \in 1 .. Len(g) : (h \o g)[Len(h) + x] = g[x]
    <3>1. /\ Len(h \o g) = Len(h) + Len(g) /\ h \o g \in Seq(Int)
          /\ \A x \in 1 .. Len(h) + Len(g) : (h \o g)[x] = IF x <= Len(h) THEN h[x]
                                                            ELSE g[x - Len(h)]
      BY <2>1, ConcatProperties
    <3>2. Len(h) \in Nat /\ Len(g) \in Nat
      BY <2>1
    <3>3. ASSUME NEW x \in 1 .. Len(h) PROVE (h \o g)[x] = h[x]
      BY <3>1, <3>2
    <3>4. ASSUME NEW x \in 1 .. Len(g) PROVE (h \o g)[Len(h) + x] = g[x]
      <4>1. Len(h) + x \in 1 .. Len(h) + Len(g) /\ ~ (Len(h) + x <= Len(h))
            /\ (Len(h) + x) - Len(h) = x
        BY <3>2
      <4>2. QED
        BY <3>1, <4>1
    <3>5. QED
      BY <3>1, <3>3, <3>4
  <2>3. Len(f) \in Nat /\ Len(g) \in Nat
    OBVIOUS
  <2>4. /\ h \o g \in Seq(Int) /\ Len(h \o g) = Len(f) + 1 + Len(g)
        /\ \A x \in 1 .. Len(f) : (h \o g)[x] = f[x]
        /\ (h \o g)[Len(f) + 1] = Plus
        /\ \A x \in 1 .. Len(g) : (h \o g)[Len(f) + 1 + x] = g[x]
    <3>1. ASSUME NEW x \in 1 .. Len(f) PROVE (h \o g)[x] = f[x]
      <4>1. x \in 1 .. Len(h) /\ h[x] = f[x]
        BY <2>1, <2>3
      <4>2. QED
        BY <2>2, <4>1
    <3>2. (h \o g)[Len(f) + 1] = Plus
      <4>1. Len(f) + 1 \in 1 .. Len(h) /\ h[Len(f) + 1] = Plus
        BY <2>1, <2>3
      <4>2. QED
        BY <2>2, <4>1
    <3>3. ASSUME NEW x \in 1 .. Len(g) PROVE (h \o g)[Len(f) + 1 + x] = g[x]
      BY <2>1, <2>2
    <3>4. QED
      BY <2>1, <2>2, <3>1, <3>2, <3>3
  <2>5. QED
    BY <2>4 DEF h
<1>3. /\ Len(a) = Len(s) + 1 + Len(t) /\ Len(c) = Len(u) + 1 + Len(v)
      /\ \A x \in 1 .. Len(s) : a[x] = s[x]
      /\ \A x \in 1 .. Len(u) : c[x] = u[x]
      /\ a[Len(s) + 1] = Plus /\ c[Len(u) + 1] = Plus
      /\ \A x \in 1 .. Len(t) : a[Len(s) + 1 + x] = t[x]
      /\ \A x \in 1 .. Len(v) : c[Len(u) + 1 + x] = v[x]
  BY <1>1, <1>2
<1>4. a = c
  BY DEF Joined
<1> HIDE DEF a, c
<1>5. Len(s) = Len(u)
  <2>1. CASE Len(s) < Len(u)
    <3>1. Len(s) + 1 \in 1 .. Len(u)
      BY <1>1, <2>1
    <3>2. u[Len(s) + 1] = Plus
      BY <1>3, <1>4, <3>1
    <3>3. u[Len(s) + 1] >= 0
      BY <1>1, <3>1
    <3>4. QED
      BY <1>1, <3>2, <3>3
  <2>2. CASE Len(u) < Len(s)
    <3>1. Len(u) + 1 \in 1 .. Len(s)
      BY <1>1, <2>2
    <3>2. s[Len(u) + 1] = Plus
      BY <1>3, <1>4, <3>1
    <3>3. s[Len(u) + 1] >= 0
      BY <1>1, <3>1
    <3>4. QED
      BY <1>1, <3>2, <3>3
  <2>3. QED
    BY <1>1, <2>1, <2>2
<1>6. Len(t) = Len(v)
  BY <1>1, <1>3, <1>4, <1>5
<1>7. \A x \in 1 .. Len(s) : s[x] = u[x]
  BY <1>3, <1>4, <1>5
<1>8. \A x \in 1 .. Len(t) : t[x] = v[x]
  BY <1>3, <1>4, <1>5, <1>6
<1>9. s = u
  BY <1>5, <1>7, SeqEqual
<1>10. t = v
  BY <1>6, <1>8, SeqEqual
<1>11. QED
  BY <1>9, <1>10

\* Two chunks do not have the same key in the database.
THEOREM DataKeysAreDistinct ==
  ASSUME NEW e1 \in Nat, NEW e2 \in Nat, NEW p1 \in Nat, NEW p2 \in Nat,
         GetChunkDataKey(e1, p1) = GetChunkDataKey(e2, p2)
  PROVE  e1 = e2 /\ p1 = p2
<1>1. \A n \in Nat : DecIntToHexStr(n) \in Seq(Nat)
  BY StrIsDigits, StorageKeysAssumption DEF DecIntToHexStr
<1> DEFINE s == DecIntToHexStr(e1)
           t == DecIntToHexStr(p1)
           u == DecIntToHexStr(e2)
           v == DecIntToHexStr(p2)
<1>2. s = u /\ t = v
  <2>1. s \in Seq(Nat) /\ t \in Seq(Nat) /\ u \in Seq(Nat) /\ v \in Seq(Nat)
    BY <1>1
  <2>2. Joined(s, t) = Joined(u, v)
    BY DEF GetChunkDataKey, Joined
  <2> HIDE DEF s, t, u, v
  <2>3. QED
    BY <2>1, <2>2, SeparatorSeparates
<1>3. QED
  BY <1>2, StrIsInjective, StorageKeysAssumption DEF DecIntToHexStr

\* Nor in the cache.
THEOREM CacheKeysAreDistinct ==
  ASSUME NEW e1 \in Nat, NEW e2 \in Nat, NEW p1 \in Nat, NEW p2 \in Nat,
         CacheKey(e1, p1) = CacheKey(e2, p2)
  PROVE  e1 = e2 /\ p1 = p2
<1>1. \A n \in Nat : to_string(n) \in Seq(Nat)
  BY StrIsDigits, StorageKeysAssumption DEF to_string
<1> DEFINE s == to_string(e1)
           t == to_string(p1)
           u == to_string(e2)
           v == to_string(p2)
<1>2. s = u /\ t = v
  <2>1. s \in Seq(Nat) /\ t \in Seq(Nat) /\ u \in Seq(Nat) /\ v \in Seq(Nat)
    BY <1>1
  <2>2. Joined(s, t) = Joined(u, v)
    BY DEF CacheKey, Joined
  <2> HIDE DEF s, t, u, v
  <2>3. QED
    BY <2>1, <2>2, SeparatorSeparates
<1>3. QED
  BY <1>2, StrIsInjective, StorageKeysAssumption DEF to_string

-----------------------------------------------------------------------------
(* The invariant.                                                          *)

\* The key of a chunk in a group of names: KeyBase in the database, CacheBase in
\* the cache.
Name(base, e, p) == Joined(StrInBase(e, base), StrInBase(p, base))

BlockAt(e, p) == IF p < ec_k THEN ec_k * e + 1 + p ELSE Parity

\* After g groups.
Holds(group, base, g) ==
  /\ DOMAIN group = { Name(base, s[1], s[2]) : s \in (0 .. g-1) \X Pos }
  /\ \A e \in 0 .. g-1, p \in Pos : group[Name(base, e, p)] = BlockAt(e, p)

GroupsSaved(g) ==
  /\ height = ec_k * g /\ height <= IntMax
  /\ Holds(stored, KeyBase, g)
  /\ Holds(cached, CacheBase, g)

Inv == \E g \in Nat : GroupsSaved(g)

-----------------------------------------------------------------------------
(* Names.                                                                  *)

LEMMA KeysAreNames ==
  ASSUME NEW e, NEW p
  PROVE  /\ GetChunkDataKey(e, p) = Name(KeyBase, e, p)
         /\ CacheKey(e, p) = Name(CacheBase, e, p)
BY DEF GetChunkDataKey, CacheKey, DecIntToHexStr, to_string, Name, Joined

LEMMA NamesAreDistinct ==
  ASSUME NEW base \in Nat \ {0, 1},
         NEW e1 \in Nat, NEW e2 \in Nat, NEW p1 \in Nat, NEW p2 \in Nat,
         Name(base, e1, p1) = Name(base, e2, p2)
  PROVE  e1 = e2 /\ p1 = p2
<1>1. \A n \in Nat : StrInBase(n, base) \in Seq(Nat)
  BY StrIsDigits
<1>2. StrInBase(e1, base) = StrInBase(e2, base) /\ StrInBase(p1, base) = StrInBase(p2, base)
  BY <1>1, SeparatorSeparates DEF Name
<1>3. QED
  BY <1>2, StrIsInjective

\* What is found under a name that was saved, and under one that was not.
LEMMA AtName ==
  ASSUME NEW base \in Nat \ {0, 1}, NEW g \in Nat, NEW group, Holds(group, base, g),
         NEW e \in Nat, NEW p \in Nat
  PROVE  At(group, Name(base, e, p)) = IF e < g /\ p \in Pos THEN BlockAt(e, p) ELSE None
<1>1. CASE e < g /\ p \in Pos
  <2>1. e \in 0 .. g-1 /\ <<e, p>> \in (0 .. g-1) \X Pos
    BY <1>1
  <2>2. Name(base, e, p) \in DOMAIN group
    BY <2>1 DEF Holds
  <2>3. group[Name(base, e, p)] = BlockAt(e, p)
    BY <1>1, <2>1 DEF Holds
  <2>4. QED
    BY <1>1, <2>2, <2>3 DEF At
<1>2. CASE ~ (e < g /\ p \in Pos)
  <2>1. Name(base, e, p) \notin DOMAIN group
    <3>1. SUFFICES ASSUME Name(base, e, p) \in DOMAIN group PROVE FALSE
      OBVIOUS
    <3>2. PICK s \in (0 .. g-1) \X Pos : Name(base, e, p) = Name(base, s[1], s[2])
      BY <3>1 DEF Holds
    <3>3. s[1] \in Nat /\ s[1] < g /\ s[2] \in Pos /\ s[2] \in Nat
      BY BlockNumbersAssumption, AddressingAssumption DEF Pos
    <3>4. e = s[1] /\ p = s[2]
      BY <3>2, <3>3, NamesAreDistinct
    <3>5. QED
      BY <1>2, <3>3, <3>4
  <2>2. QED
    BY <1>2, <2>1 DEF At
<1>3. QED
  BY <1>1, <1>2

-----------------------------------------------------------------------------
(* The invariant is inductive.                                             *)

LEMMA Sizes ==
  /\ ec_k \in Nat /\ ec_k > 0 /\ IntMax \in Nat /\ Word = 2 * (IntMax + 1)
  /\ Pos = 0 .. ec_k + ec_m - 1 /\ ec_m \in Nat /\ ec_k + ec_m <= IntMax + 1
BY BlockNumbersAssumption, AddressingAssumption DEF IntMax, Pos

\* What the writes of a group leave: its names are added to those of the groups
\* before, and none of them is overwritten.
Written(group, base, g) ==
  [key \in DOMAIN group \cup { Name(base, g, p) : p \in Pos } |->
     LET written == { p \in Pos : Name(base, g, p) = key }
     IN  IF written = {} THEN group[key]
         ELSE IF Max(written) < ec_k THEN ec_k * g + 1 + Max(written) ELSE Parity]

LEMMA WrittenHolds ==
  ASSUME NEW base \in Nat \ {0, 1}, NEW g \in Nat, NEW group, Holds(group, base, g)
  PROVE  Holds(Written(group, base, g), base, g + 1)
<1> DEFINE after == Written(group, base, g)
           Slots(n) == (0 .. n-1) \X Pos
<1>1. \A p \in Pos : p \in Nat
  BY Sizes
<1>2. DOMAIN after = DOMAIN group \cup { Name(base, g, p) : p \in Pos }
  BY DEF Written
<1>3. DOMAIN group = { Name(base, s[1], s[2]) : s \in Slots(g) }
  BY DEF Holds
<1>4. DOMAIN after = { Name(base, s[1], s[2]) : s \in Slots(g + 1) }
  <2>1. ASSUME NEW key \in DOMAIN after
        PROVE  key \in { Name(base, s[1], s[2]) : s \in Slots(g + 1) }
    <3>1. CASE key \in DOMAIN group
      <4>1. PICK s \in Slots(g) : key = Name(base, s[1], s[2])
        BY <1>3, <3>1
      <4>2. s \in Slots(g + 1)
        OBVIOUS
      <4>3. QED
        BY <4>1, <4>2
    <3>2. CASE key \in { Name(base, g, p) : p \in Pos }
      <4>1. PICK p \in Pos : key = Name(base, g, p)
        BY <3>2
      <4>2. <<g, p>> \in Slots(g + 1) /\ <<g, p>>[1] = g /\ <<g, p>>[2] = p
        OBVIOUS
      <4>3. QED
        BY <4>1, <4>2
    <3>3. QED
      BY <1>2, <2>1, <3>1, <3>2
  <2>2. ASSUME NEW s \in Slots(g + 1)
        PROVE  Name(base, s[1], s[2]) \in DOMAIN after
    <3>1. CASE s[1] = g
      <4>1. s[2] \in Pos
        OBVIOUS
      <4>2. Name(base, s[1], s[2]) \in { Name(base, g, p) : p \in Pos }
        BY <3>1, <4>1
      <4>3. QED
        BY <1>2, <4>2
    <3>2. CASE s[1] # g
      <4>1. s \in Slots(g)
        <5>1. s[1] \in 0 .. g-1 /\ s[2] \in Pos /\ s = <<s[1], s[2]>>
          BY <3>2
        <5>2. QED
          BY <5>1
      <4>2. QED
        BY <1>2, <1>3, <4>1
    <3>3. QED
      BY <3>1, <3>2
  <2>3. QED
    BY <2>1, <2>2
<1>5. ASSUME NEW e \in 0 .. g, NEW p \in Pos
      PROVE  after[Name(base, e, p)] = BlockAt(e, p)
  <2> DEFINE key == Name(base, e, p)
             written == { x \in Pos : Name(base, g, x) = key }
  <2>1. e \in Nat /\ p \in Nat /\ e \in 0 .. (g + 1) - 1
    BY <1>1
  <2>2. key \in DOMAIN after
    <3>1. <<e, p>> \in Slots(g + 1) /\ <<e, p>>[1] = e /\ <<e, p>>[2] = p
      BY <2>1
    <3>2. QED
      BY <1>4, <3>1
  <2>3. after[key] = IF written = {} THEN group[key]
                     ELSE IF Max(written) < ec_k THEN ec_k * g + 1 + Max(written) ELSE Parity
    BY <1>2, <2>2 DEF Written
  <2>4. CASE e = g
    <3>1. written = {p}
      <4>1. p \in written
        BY <2>4
      <4>2. ASSUME NEW x \in written PROVE x = p
        <5>1. x \in Nat /\ g \in Nat /\ Name(base, g, x) = Name(base, g, p)
          BY <1>1, <2>4
        <5>2. QED
          BY <2>1, <5>1, NamesAreDistinct
      <4>3. QED
        BY <4>1, <4>2
    <3>2. Max({p}) = p
      BY <2>1 DEF Max
    <3>3. after[key] = IF p < ec_k THEN ec_k * g + 1 + p ELSE Parity
      BY <2>3, <3>1, <3>2
    <3>4. QED
      BY <2>4, <3>3 DEF BlockAt
  <2>5. CASE e # g
    <3>1. written = {}
      BY <1>1, <2>1, <2>5, NamesAreDistinct
    <3>2. e \in 0 .. g-1
      BY <2>5
    <3>3. QED
      BY <2>3, <3>1, <3>2 DEF Holds
  <2>6. QED
    BY <2>4, <2>5
<1>6. (g + 1) - 1 = g
  OBVIOUS
<1>7. QED
  BY <1>4, <1>5, <1>6 DEF Holds

LEMMA InitInv ==
  ASSUME Init PROVE Inv
<1>1. 0 .. 0-1 = {} /\ (0 .. 0-1) \X Pos = {}
  OBVIOUS
<1>2. Holds(stored, KeyBase, 0) /\ Holds(cached, CacheBase, 0)
  BY <1>1 DEF Init, Holds
<1>3. height = ec_k * 0 /\ height <= IntMax
  BY Sizes DEF Init
<1>4. GroupsSaved(0)
  BY <1>2, <1>3 DEF GroupsSaved
<1>5. QED
  BY <1>4 DEF Inv

LEMMA SaveChunkInv ==
  ASSUME Inv, SaveChunk PROVE Inv'
<1>1. PICK g \in Nat : GroupsSaved(g)
  BY DEF Inv
<1>2. /\ height = ec_k * g /\ Holds(stored, KeyBase, g) /\ Holds(cached, CacheBase, g)
  BY <1>1 DEF GroupsSaved
<1>3. height + ec_k = ec_k * (g + 1) /\ height + ec_k <= IntMax /\ height' = height + ec_k
  BY <1>2, Sizes DEF SaveChunk
<1>4. EpochOfInt(height + ec_k) = g
  <2>1. 0 \in 0 .. ec_k - 1
    BY Sizes
  <2>2. QED
    BY <1>3, <2>1, GroupIsEpoch
<1>5. stored' = Written(stored, KeyBase, g)
  BY <1>2, <1>4, KeysAreNames DEF SaveChunk, Written
<1>6. cached' = Written(cached, CacheBase, g)
  BY <1>2, <1>4, KeysAreNames DEF SaveChunk, Written
<1>7. Holds(stored', KeyBase, g + 1) /\ Holds(cached', CacheBase, g + 1)
  BY <1>2, <1>5, <1>6, WrittenHolds, StorageKeysAssumption
<1>8. GroupsSaved(g + 1)'
  BY <1>3, <1>7 DEF GroupsSaved, Holds
<1>9. QED
  BY <1>8 DEF Inv

-----------------------------------------------------------------------------
(* Which numbers lead to the slots of the g groups saved.                  *)

LEMMA Wraps ==
  ASSUME NEW x \in Int
  PROVE  /\ x \in 0 .. Word-1 => ToUnsigned(x) = x
         /\ x \in -Word .. -1 => ToUnsigned(x) = x + Word
         /\ ToUnsigned(x) \in 0 .. Word-1
<1>1. Word \in Nat /\ Word > 0
  BY Sizes
<1>2. x % Word \in 0 .. Word-1
  BY <1>1
<1>3. x \in 0 .. Word-1 => x % Word = x
  BY <1>1
<1>4. ASSUME x \in -Word .. -1 PROVE x % Word = x + Word
  BY <1>1, <1>4
<1>5. QED
  BY <1>2, <1>3, <1>4 DEF ToUnsigned

\* A number computed from the predecessor x, which the division takes to the epoch
\* x \div ec_k: one of the g saved if, and only if, x is below ec_k * g.
LEMMA EpochBelow ==
  ASSUME NEW x \in Nat, NEW g \in Nat, ec_k * g <= x
  PROVE  ~ (Quotient(x) < g)
<1> DEFINE q == Quotient(x)
           r == Remainder(x)
<1>1. q \in Nat /\ r \in 0 .. ec_k - 1 /\ x = ec_k * q + r
  BY DivideNat
<1> HIDE DEF q, r
<1>2. SUFFICES ASSUME q < g PROVE FALSE
  BY DEF q
<1>3. g >= q + 1
  BY <1>1, <1>2
<1>4. ec_k * g >= ec_k * (q + 1)
  BY <1>1, <1>3, Sizes
<1>5. ec_k * (q + 1) = ec_k * q + ec_k
  BY <1>1, Sizes
<1>6. QED
  BY <1>1, <1>4, <1>5, Sizes

LEMMA UnsignedMisses ==
  ASSUME NEW g \in Nat, ec_k * g <= IntMax,
         NEW b \in Unsigneds, b \notin 1 .. ec_k * g
  PROVE  /\ EpochOfUnsigned(b) \in Nat /\ PosOfUnsigned(b) \in Nat
         /\ ~ (EpochOfUnsigned(b) < g)
<1> DEFINE x == ToUnsigned(b - 1)
<1>0. b \in 0 .. Word-1 /\ Word \in Nat /\ ec_k * g \in Nat
  BY Sizes DEF Unsigneds
<1>1. x \in 0 .. Word-1 /\ ec_k * g <= x
  <2>1. CASE b = 0
    <3>1. b - 1 = -1 /\ -1 \in -Word .. -1 /\ -1 + Word = Word - 1
      BY <2>1, Sizes
    <3>2. x = Word - 1
      BY <3>1, Wraps
    <3>3. QED
      BY <1>0, <3>2, Sizes
  <2>2. CASE b # 0
    <3>1. b - 1 \in 0 .. Word-1
      BY <1>0, <2>2
    <3>2. x = b - 1
      BY <3>1, Wraps
    <3>3. ec_k * g < b
      BY <1>0, <2>2
    <3>4. QED
      BY <1>0, <3>1, <3>2, <3>3
  <2>3. QED
    BY <2>1, <2>2
<1> HIDE DEF x
<1>2. x \in Nat
  BY <1>0, <1>1
<1>3. Quotient(x) \in 0 .. x /\ Remainder(x) \in 0 .. ec_k - 1
  BY <1>2, DivideNat
<1>4. Remainder(x) \in 0 .. Word-1 /\ Quotient(x) \in 0 .. Word-1
  BY <1>0, <1>1, <1>2, <1>3, Sizes
<1>5. ToUnsigned(Quotient(x)) = Quotient(x) /\ ToUnsigned(Remainder(x)) = Remainder(x)
  BY <1>4, Wraps
<1>6. ~ (Quotient(x) < g)
  BY <1>1, <1>2, EpochBelow
<1>7. EpochOfUnsigned(b) = Quotient(x) /\ PosOfUnsigned(b) = Remainder(x)
  BY <1>5 DEF EpochOfUnsigned, PosOfUnsigned, x
<1>8. QED
  BY <1>4, <1>6, <1>7

\* The least int apart, an int that is no block number has a predecessor below zero:
\* its position or its epoch is an unsigned int that no chunk has.
LEMMA IntMisses ==
  ASSUME NEW g \in Nat, ec_k * g <= IntMax,
         NEW b \in -IntMax .. IntMax, b \notin 1 .. ec_k * g
  PROVE  /\ EpochOfInt(b) \in 0 .. Word-1 /\ PosOfInt(b) \in 0 .. Word-1
         /\ ~ (EpochOfInt(b) < g /\ PosOfInt(b) \in Pos)
<1>1. EpochOfInt(b) \in 0 .. Word-1 /\ PosOfInt(b) \in 0 .. Word-1
  <2>1. b - 1 \in Int /\ Quotient(b - 1) \in Int /\ Remainder(b - 1) \in Int
    BY Sizes DEF Quotient, Remainder
  <2>2. QED
    BY <2>1, Wraps DEF EpochOfInt, PosOfInt
<1>2. CASE b > 0
  <2>1. b \in 1 .. IntMax /\ b \in Unsigneds
    BY <1>2, Sizes DEF Unsigneds
  <2>2. EpochOfInt(b) = EpochOfUnsigned(b)
    BY <2>1, AddressingAgrees
  <2>3. ~ (EpochOfUnsigned(b) < g)
    BY <2>1, UnsignedMisses
  <2>4. QED
    BY <1>1, <2>2, <2>3
<1>3. CASE ~ (b > 0)
  <2> DEFINE n == 1 - b
             q == n \div ec_k
             r == n % ec_k
  <2>1. n \in 1 .. IntMax + 1 /\ n \in Nat /\ -n = b - 1
    BY <1>3, Sizes
  <2>2. q \in Nat /\ r \in 0 .. ec_k - 1 /\ n = ec_k * q + r
    BY <2>1, Sizes
  <2>3. Quotient(b - 1) = -q /\ Remainder(b - 1) = -r
    <3>1. ~ (b - 1 >= 0) /\ -(b - 1) = n
      BY <2>1
    <3>2. Quotient(b - 1) = -q
      BY <3>1 DEF Quotient
    <3>3. Remainder(b - 1) = (b - 1) - ec_k * (-q)
      BY <3>2 DEF Remainder
    <3>4. ec_k * (-q) = -(ec_k * q) /\ ec_k * q \in Nat
      BY <2>2, Sizes
    <3>5. QED
      BY <2>1, <2>2, <3>2, <3>3, <3>4
  <2> HIDE DEF n, q, r
  <2>4. CASE r > 0
    <3>1. -r \in -Word .. -1 /\ -r \in Int
      BY <2>2, <2>4, Sizes
    <3>2. PosOfInt(b) = -r + Word
      BY <2>3, <3>1, Wraps DEF PosOfInt
    <3>3. PosOfInt(b) \notin Pos
      BY <2>2, <3>2, Sizes
    <3>4. QED
      BY <1>1, <3>3
  <2>5. CASE r = 0
    <3>1. n = ec_k * q /\ q > 0
      BY <2>1, <2>2, <2>5, Sizes
    <3>2. q <= n
      BY <2>2, <3>1, Sizes
    <3>3. -q \in -Word .. -1 /\ -q \in Int
      BY <2>1, <2>2, <3>1, <3>2, Sizes
    <3>4. EpochOfInt(b) = -q + Word
      BY <2>3, <3>3, Wraps DEF EpochOfInt
    <3>5. g <= IntMax
      <4>1. g <= ec_k * g
        BY Sizes
      <4>2. QED
        BY <4>1, Sizes
    <3>6. ~ (EpochOfInt(b) < g)
      BY <2>1, <2>2, <3>2, <3>4, <3>5, Sizes
    <3>7. QED
      BY <1>1, <3>6
  <2>6. QED
    BY <2>2, <2>4, <2>5
<1>4. QED
  BY <1>2, <1>3

\* A number of the g groups leads to the block itself.
LEMMA SavedHits ==
  ASSUME NEW g \in Nat, ec_k * g <= IntMax, NEW b \in 1 .. ec_k * g
  PROVE  /\ b \in 1 .. IntMax /\ b \in Nat
         /\ EpochOfInt(b) \in Nat /\ PosOfInt(b) \in Nat
         /\ EpochOfInt(b) < g /\ PosOfInt(b) \in Pos
         /\ EpochOfUnsigned(b) = EpochOfInt(b) /\ PosOfUnsigned(b) = PosOfInt(b)
         /\ BlockAt(EpochOfInt(b), PosOfInt(b)) = b
<1> DEFINE e == EpochOfInt(b)
           p == PosOfInt(b)
<1>1. ec_k * g \in Nat /\ b \in 1 .. IntMax /\ b \in Nat
  BY Sizes
<1>2. /\ e \in Nat /\ p \in 0 .. ec_k - 1 /\ b - 1 = ec_k * e + p
      /\ EpochOfUnsigned(b) = e /\ PosOfUnsigned(b) = p
  BY <1>1, AddressingAgrees
<1> HIDE DEF e, p
<1>3. e < g
  <2>1. SUFFICES ASSUME e >= g PROVE FALSE
    BY <1>2
  <2>2. ec_k * e >= ec_k * g
    BY <1>2, <2>1, Sizes
  <2>3. ec_k * e \in Nat
    BY <1>2, Sizes
  <2>4. QED
    BY <1>1, <1>2, <2>2, <2>3, Sizes
<1>4. p \in Nat /\ p \in Pos /\ p < ec_k
  BY <1>2, Sizes
<1>5. BlockAt(e, p) = b
  <2>1. ec_k * e \in Nat
    BY <1>2, Sizes
  <2>2. ec_k * e + 1 + p = b
    BY <1>1, <1>2, <1>4, <2>1
  <2>3. QED
    BY <1>4, <2>2 DEF BlockAt
<1>6. QED
  BY <1>1, <1>2, <1>3, <1>4, <1>5 DEF e, p

-----------------------------------------------------------------------------
(* The slots.                                                              *)

LEMMA HeldSlots ==
  ASSUME NEW base \in Nat \ {0, 1}, NEW g \in Nat, ec_k * g <= IntMax,
         NEW group, Holds(group, base, g)
  PROVE  /\ \A key \in DOMAIN group : group[key] \in (1 .. ec_k * g) \cup {Parity}
         /\ \A s, t \in DOMAIN group : group[s] = group[t] /\ group[s] # Parity => s = t
         /\ \A b \in 1 .. ec_k * g :
              At(group, Name(base, EpochOfUnsigned(b), PosOfUnsigned(b))) = b
<1>1. ASSUME NEW key \in DOMAIN group
      PROVE  \E e \in 0 .. g-1, p \in Pos : key = Name(base, e, p) /\ group[key] = BlockAt(e, p)
  <2>1. PICK s \in (0 .. g-1) \X Pos : key = Name(base, s[1], s[2])
    BY <1>1 DEF Holds
  <2>2. s[1] \in 0 .. g-1 /\ s[2] \in Pos
    OBVIOUS
  <2>3. group[key] = BlockAt(s[1], s[2])
    BY <2>1, <2>2 DEF Holds
  <2>4. QED
    BY <2>1, <2>2, <2>3
<1>2. ASSUME NEW e \in 0 .. g-1, NEW p \in Pos
      PROVE  /\ e \in Nat /\ p \in Nat /\ BlockAt(e, p) \in (1 .. ec_k * g) \cup {Parity}
             /\ BlockAt(e, p) # Parity => p \in 0 .. ec_k-1 /\ BlockAt(e, p) = ec_k * e + 1 + p
  <2>1. e \in Nat /\ e + 1 <= g /\ p \in Nat
    BY Sizes
  <2>2. CASE p < ec_k
    <3>1. ec_k * e \in Nat /\ ec_k * (e + 1) = ec_k * e + ec_k /\ ec_k * (e + 1) <= ec_k * g
      BY <2>1, Sizes
    <3>2. ec_k * e + 1 + p \in 1 .. ec_k * g
      BY <2>1, <2>2, <3>1, Sizes
    <3>3. BlockAt(e, p) = ec_k * e + 1 + p /\ p \in 0 .. ec_k-1
      BY <2>1, <2>2, Sizes DEF BlockAt
    <3>4. QED
      BY <2>1, <3>2, <3>3
  <2>3. CASE ~ (p < ec_k)
    BY <2>1, <2>3 DEF BlockAt
  <2>4. QED
    BY <2>2, <2>3
<1>3. \A key \in DOMAIN group : group[key] \in (1 .. ec_k * g) \cup {Parity}
  BY <1>1, <1>2
<1>4. ASSUME NEW s \in DOMAIN group, NEW t \in DOMAIN group,
             group[s] = group[t], group[s] # Parity
      PROVE  s = t
  <2>1. PICK e \in 0 .. g-1, p \in Pos : s = Name(base, e, p) /\ group[s] = BlockAt(e, p)
    BY <1>1
  <2>2. PICK f \in 0 .. g-1, q \in Pos : t = Name(base, f, q) /\ group[t] = BlockAt(f, q)
    BY <1>1
  <2>3. /\ e \in Nat /\ p \in 0 .. ec_k-1 /\ group[s] = ec_k * e + 1 + p
        /\ f \in Nat /\ q \in 0 .. ec_k-1 /\ group[t] = ec_k * f + 1 + q
    BY <1>2, <1>4, <2>1, <2>2
  <2>4. ec_k * e + p = ec_k * f + q
    <3>1. ec_k * e \in Nat /\ ec_k * f \in Nat
      BY <2>3, Sizes
    <3>2. ec_k * e + 1 + p = ec_k * f + 1 + q
      BY <1>4, <2>3
    <3>3. \A x, y \in Nat, c, d \in 0 .. ec_k-1 : x + 1 + c = y + 1 + d => x + c = y + d
      BY Sizes
    <3>4. QED
      BY <2>3, <3>1, <3>2, <3>3
  <2>5. e = f /\ p = q
    BY <2>3, <2>4, DivideUnique
  <2>6. QED
    BY <2>1, <2>2, <2>5
<1>5. ASSUME NEW b \in 1 .. ec_k * g
      PROVE  At(group, Name(base, EpochOfUnsigned(b), PosOfUnsigned(b))) = b
  <2> DEFINE e == EpochOfInt(b)
             p == PosOfInt(b)
  <2>1. /\ e \in Nat /\ p \in Nat /\ e < g /\ p \in Pos /\ BlockAt(e, p) = b
        /\ EpochOfUnsigned(b) = e /\ PosOfUnsigned(b) = p
    BY SavedHits
  <2> HIDE DEF e, p
  <2>2. At(group, Name(base, e, p)) = b
    BY <2>1, AtName
  <2>3. QED
    BY <2>1, <2>2
<1>6. QED
  BY <1>3, <1>4, <1>5

LEMMA SlotsHold ==
  ASSUME Inv PROVE SlotsAreBlocks
<1>1. PICK g \in Nat : GroupsSaved(g)
  BY DEF Inv
<1>2. /\ height = ec_k * g /\ ec_k * g <= IntMax
      /\ Holds(stored, KeyBase, g) /\ Holds(cached, CacheBase, g)
  BY <1>1 DEF GroupsSaved
<1>3. \A b \in 1 .. height :
        /\ At(stored, GetChunkDataKey(EpochOfUnsigned(b), PosOfUnsigned(b))) = b
        /\ At(cached, CacheKey(EpochOfUnsigned(b), PosOfUnsigned(b))) = b
  BY <1>2, HeldSlots, KeysAreNames, StorageKeysAssumption
<1>4. ASSUME NEW group \in {stored, cached}
      PROVE  /\ \A key \in DOMAIN group : group[key] \in (1 .. height) \cup {Parity}
             /\ \A s, t \in DOMAIN group : group[s] = group[t] /\ group[s] # Parity => s = t
  <2>1. CASE group = stored
    BY <1>2, <2>1, HeldSlots, StorageKeysAssumption
  <2>2. CASE group = cached
    BY <1>2, <2>2, HeldSlots, StorageKeysAssumption
  <2>3. QED
    BY <2>1, <2>2
<1>5. QED
  BY <1>3, <1>4 DEF SlotsAreBlocks

-----------------------------------------------------------------------------
(* The answers.                                                            *)

LEMMA AskAnswers ==
  ASSUME Inv, NEW b \in Unsigneds \ {IntMax + 1}, Ask(b)
  PROVE  SavedBlocksAreFound' /\ NoFalseBlock'
<1> DEFINE u == EpochOfUnsigned(b)
           v == PosOfUnsigned(b)
           e == EpochOfInt(ToInt(b))
           p == PosOfInt(ToInt(b))
<1>1. PICK g \in Nat : GroupsSaved(g)
  BY DEF Inv
<1>2. /\ height = ec_k * g /\ ec_k * g <= IntMax
      /\ Holds(stored, KeyBase, g) /\ Holds(cached, CacheBase, g)
  BY <1>1 DEF GroupsSaved
<1>3. b \in 0 .. Word-1 /\ b # IntMax + 1 /\ ToUnsigned(b) = b
  BY Sizes, Wraps DEF Unsigneds
<1>4. ASSUME NEW x \in 0 .. Word-1 PROVE ToUnsigned(ToInt(x)) = x
  <2>1. ToUnsigned(x) = x
    BY Sizes, Wraps
  <2>2. CASE x <= IntMax
    BY <2>1, <2>2 DEF ToInt
  <2>3. CASE ~ (x <= IntMax)
    <3>1. ToInt(x) = x - Word /\ x - Word \in -Word .. -1 /\ x - Word \in Int
      BY <2>1, <2>3, Sizes DEF ToInt
    <3>2. ToUnsigned(x - Word) = (x - Word) + Word
      BY <3>1, Wraps
    <3>3. (x - Word) + Word = x
      BY Sizes
    <3>4. QED
      BY <3>1, <3>2, <3>3
  <2>4. QED
    BY <2>2, <2>3
<1>5. /\ answer'.number = b /\ answer'.saved = (b \in 1 .. ec_k * g)
      /\ answer'.cache = At(cached, Name(CacheBase, u, v))
      /\ answer'.local = At(stored, Name(KeyBase, u, v))
      /\ answer'.owner = At(stored, Name(KeyBase, e, p))
      /\ answer'.remote = At(stored, Name(KeyBase, ToUnsigned(ToInt(e)), ToUnsigned(ToInt(p))))
  BY <1>2, KeysAreNames DEF Ask, ChunkPosition
<1>6. ASSUME NEW n \in Nat, NEW q \in Nat
      PROVE  /\ At(stored, Name(KeyBase, n, q))
                  = IF n < g /\ q \in Pos THEN BlockAt(n, q) ELSE None
             /\ At(cached, Name(CacheBase, n, q))
                  = IF n < g /\ q \in Pos THEN BlockAt(n, q) ELSE None
  BY <1>2, AtName, StorageKeysAssumption
<1>7. CASE b \in 1 .. ec_k * g
  <2>1. ToInt(b) = b
    <3>1. b <= IntMax
      BY <1>2, <1>7, SavedHits
    <3>2. QED
      BY <1>3, <3>1 DEF ToInt
  <2>2. /\ e \in Nat /\ p \in Nat /\ e < g /\ p \in Pos /\ u = e /\ v = p
        /\ BlockAt(e, p) = b
    BY <1>2, <1>7, <2>1, SavedHits
  <2>3. e \in 0 .. Word-1 /\ p \in 0 .. Word-1
    <3>1. g <= ec_k * g /\ ec_k * g \in Nat
      BY Sizes
    <3>2. e \in 0 .. Word-1
      BY <1>2, <2>2, <3>1, Sizes
    <3>3. p \in 0 .. Word-1
      BY <2>2, Sizes
    <3>4. QED
      BY <3>2, <3>3
  <2>4. ToUnsigned(ToInt(e)) = e /\ ToUnsigned(ToInt(p)) = p
    BY <1>4, <2>3
  <2> HIDE DEF u, v, e, p
  <2>5. /\ answer'.saved = TRUE
        /\ answer'.cache = b /\ answer'.local = b /\ answer'.owner = b /\ answer'.remote = b
    <3>1. At(stored, Name(KeyBase, e, p)) = b /\ At(cached, Name(CacheBase, e, p)) = b
      BY <1>6, <2>2
    <3>2. QED
      BY <1>5, <1>7, <2>2, <2>4, <3>1
  <2>6. QED
    BY <1>5, <2>5 DEF SavedBlocksAreFound, NoFalseBlock
<1>8. CASE b \notin 1 .. ec_k * g
  <2>1. u \in Nat /\ v \in Nat /\ ~ (u < g)
    BY <1>2, <1>8, UnsignedMisses
  <2>2. ToInt(b) \in -IntMax .. IntMax /\ ToInt(b) \notin 1 .. ec_k * g
    <3>1. CASE b <= IntMax
      BY <1>3, <1>8, <3>1, Sizes DEF ToInt
    <3>2. CASE ~ (b <= IntMax)
      <4>1. ToInt(b) = b - Word
        BY <1>3, <3>2 DEF ToInt
      <4>2. QED
        BY <1>3, <3>2, <4>1, Sizes
    <3>3. QED
      BY <3>1, <3>2
  <2>3. e \in 0 .. Word-1 /\ p \in 0 .. Word-1 /\ ~ (e < g /\ p \in Pos)
    BY <1>2, <2>2, IntMisses
  <2>4. ToUnsigned(ToInt(e)) = e /\ ToUnsigned(ToInt(p)) = p
    BY <1>4, <2>3
  <2>5. e \in Nat /\ p \in Nat
    BY <2>3, Sizes
  <2> HIDE DEF u, v, e, p
  <2>6. /\ answer'.saved = FALSE
        /\ answer'.cache = None /\ answer'.local = None
        /\ answer'.owner = None /\ answer'.remote = None
    <3>1. At(stored, Name(KeyBase, u, v)) = None /\ At(cached, Name(CacheBase, u, v)) = None
      BY <1>6, <2>1
    <3>2. At(stored, Name(KeyBase, e, p)) = None
      BY <1>6, <2>3, <2>5
    <3>3. answer'.saved = FALSE
      <4>1. (b \in 1 .. ec_k * g) = FALSE
        BY <1>8
      <4>2. answer'.saved = (b \in 1 .. ec_k * g)
        BY <1>5
      <4>3. QED
        BY <4>1, <4>2, Zenon
    <3>4. answer'.cache = None /\ answer'.local = None
      BY <1>5, <3>1
    <3>5. answer'.owner = None /\ answer'.remote = None
      BY <1>5, <2>4, <3>2
    <3>6. QED
      BY <3>3, <3>4, <3>5
  <2>7. QED
    BY <1>5, <2>6 DEF SavedBlocksAreFound, NoFalseBlock
<1>9. QED
  BY <1>7, <1>8

-----------------------------------------------------------------------------
AllInv == Inv /\ SavedBlocksAreFound /\ NoFalseBlock

LEMMA Inductive == Spec => []AllInv
<1>1. ASSUME Init PROVE AllInv
  BY <1>1, InitInv DEF AllInv, Init, SavedBlocksAreFound, NoFalseBlock
<1>2. ASSUME AllInv, [Next]_vars PROVE AllInv'
  <2>1. CASE SaveChunk
    <3>1. Inv'
      BY <1>2, <2>1, SaveChunkInv DEF AllInv
    <3>2. answer' = answer
      BY <2>1 DEF SaveChunk
    <3>3. QED
      BY <1>2, <3>1, <3>2 DEF AllInv, SavedBlocksAreFound, NoFalseBlock
  <2>2. ASSUME NEW b \in Unsigneds \ {IntMax + 1}, Ask(b) PROVE AllInv'
    <3>1. SavedBlocksAreFound' /\ NoFalseBlock'
      BY <1>2, <2>2, AskAnswers DEF AllInv
    <3>2. UNCHANGED <<height, stored, cached>>
      BY <2>2 DEF Ask
    <3>3. Inv'
      BY <1>2, <3>2 DEF AllInv, Inv, GroupsSaved, Holds
    <3>4. QED
      BY <3>1, <3>3 DEF AllInv
  <2>3. CASE UNCHANGED vars
    BY <1>2, <2>3 DEF vars, AllInv, Inv, GroupsSaved, Holds, SavedBlocksAreFound, NoFalseBlock
  <2>4. QED
    BY <1>2, <2>1, <2>2, <2>3 DEF Next
<1>3. QED
  BY <1>1, <1>2, PTL DEF Spec

\* However long the chain, the names in the database and in the cache are those of
\* the blocks saved by saveChunk and of their parity: no group overwrites another.
THEOREM SlotsAlwaysBlocks == Spec => []SlotsAreBlocks
<1>1. AllInv => SlotsAreBlocks
  BY SlotsHold DEF AllInv
<1>2. QED
  BY <1>1, Inductive, PTL

\* getBlockByNumber and the functions its caller uses find every block saved, under
\* the name it was saved under.
THEOREM SavedAreFound == Spec => []SavedBlocksAreFound
<1>1. AllInv => SavedBlocksAreFound
  BY DEF AllInv
<1>2. QED
  BY <1>1, Inductive, PTL

\* They take no other number, however it wraps around, for that of a saved block.
THEOREM OthersAreNotFound == Spec => []NoFalseBlock
<1>1. AllInv => NoFalseBlock
  BY DEF AllInv
<1>2. QED
  BY <1>1, Inductive, PTL
=============================================================================
