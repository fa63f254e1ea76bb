---------------------------- MODULE RSCodeProofs ----------------------------
(***************************************************************************)
(* Proofs about the erasure-coding library, for every code, all data and   *)
(* every loss of shards.  The argument: the elimination of inverse keeps   *)
(* the solutions of a system of equations, so inverse gives the solutions  *)
(* of the rows it is given, and gives nothing only if the rows map some    *)
(* vector other than zero to zero.  k rows of the coding matrix do not: a  *)
(* row of the Vandermonde matrix times a vector is the value of a          *)
(* polynomial of degree below k at the number of the row, and such a       *)
(* polynomial has fewer than k roots.  Hence encoding, recovery and the    *)
(* streams are exact on all buffers, and an inductive invariant carries    *)
(* this through every sequence of calls.                                   *)
(***************************************************************************)
EXTENDS RSCode, GF256Proofs

-----------------------------------------------------------------------------
(* The arithmetic below the code.                                          *)

\* The committed tables are what log-table-generator writes.
THEOREM GeneratedTables == Spec => []TablesAreGenerated
<1>1. TablesAreGenerated
  BY TablesFilled DEF TablesAreGenerated
<1>2. QED
  BY <1>1, PTL

\* mul, div and exp are those of the field.
THEOREM FieldArithmetic == Spec => []ArithmeticIsGF256
<1>1. ASSUME NEW x \in Byte
      PROVE  /\ \A y \in Byte \ {0} : Div(Mul(x, y), y) = x /\ Mul(Div(x, y), y) = x
             /\ Exp(x, 0) = 1
             /\ \A n \in 0 .. 254 : Exp(x, n + 1) = Mul(Exp(x, n), x)
  <2>1. \A n \in 0 .. 254 : n \in Nat
    OBVIOUS
  <2>2. QED
    BY <2>1, DivUndoesMul, ExpRepeatsMul DEF Exp
<1>2. ASSUME NEW x \in Byte
      PROVE  /\ Mul(x, 0) = 0
             /\ \A y \in 0 .. 127 : /\ Mul(x, 2 * y) = ShiftLeft(Mul(x, y))
                                    /\ Mul(x, 2 * y + 1) = Add(Mul(x, 2 * y), x)
  BY MulZero, MulByBits
<1>3. ArithmeticIsGF256
  BY <1>1, <1>2 DEF ArithmeticIsGF256
<1>4. QED
  BY <1>3, PTL

\* The half-byte tables of the encoder multiply like mul.
THEOREM HalfByteTables == Spec => []HalfByteProducts
<1>1. HalfByteProducts
  BY HalfBytesMultiply DEF HalfByteProducts
<1>2. QED
  BY <1>1, PTL

\* The matrices of k rows and c columns, as the sequences of their rows.
Matrices(rows, cols) == [1 .. rows -> [1 .. cols -> Byte]]

LEMMA TabulatedIn ==
  ASSUME NEW S, NEW f, NEW n \in Nat \ {0}, \A e \in 0 .. n-1 : f[e] \in S
  PROVE  Tabulated(f, n) \in [1 .. n -> S] /\ \A e \in 0 .. n-1 : At(Tabulated(f, n), e) = f[e]
<1> DEFINE t == Tabulated(f, n)
           one == <<f[0]>>
           rest == [i \in 1 .. n-1 |-> f[i]]
<1>1. one \in Seq(S) /\ rest \in Seq(S)
  <2>1. f[0] \in S /\ rest \in [1 .. n-1 -> S] /\ n - 1 \in Nat
    OBVIOUS
  <2>2. QED
    BY <2>1
<1>2. t = one \o rest
  BY DEF Tabulated
<1> HIDE DEF t, one, rest
<1>3. t \in Seq(S)
  BY <1>1, <1>2, ConcatProperties
<1>4. Len(t) = n /\ \A e \in 0 .. n-1 : At(t, e) = f[e]
  BY TabulatedAt DEF t
<1>5. t \in [1 .. n -> S]
  BY <1>3, <1>4, LenProperties
<1>6. QED
  BY <1>4, <1>5 DEF t

\* A matrix that is made of its elements has them.
LEMMA MatrixIs ==
  ASSUME NEW rows \in Nat \ {0}, NEW cols \in Nat \ {0}, NEW elem,
         \A r \in 0 .. rows-1, c \in 0 .. cols-1 : elem[r][c] \in Byte
  PROVE  /\ Matrix(rows, cols, elem) \in Matrices(rows, cols)
         /\ \A r \in 0 .. rows-1, c \in 0 .. cols-1 :
              Elem(Matrix(rows, cols, elem), r, c) = elem[r][c]
<1> DEFINE f == [r \in 0 .. rows-1 |-> Tabulated(elem[r], cols)]
           Rows == [1 .. cols -> Byte]
<1>1. ASSUME NEW r \in 0 .. rows-1
      PROVE  /\ Tabulated(elem[r], cols) \in Rows
             /\ \A c \in 0 .. cols-1 : At(Tabulated(elem[r], cols), c) = elem[r][c]
  <2> DEFINE row == elem[r]
  <2>1. \A c \in 0 .. cols-1 : row[c] \in Byte
    OBVIOUS
  <2> HIDE DEF row
  <2>2. /\ Tabulated(row, cols) \in [1 .. cols -> Byte]
        /\ \A c \in 0 .. cols-1 : At(Tabulated(row, cols), c) = row[c]
    BY <2>1, TabulatedIn
  <2>3. QED
    BY <2>2 DEF row
<1>2. Matrix(rows, cols, elem) = Tabulated(f, rows)
  BY DEF Matrix
<1>3. \A r \in 0 .. rows-1 : f[r] = Tabulated(elem[r], cols)
  OBVIOUS
<1> HIDE DEF f, Rows
<1>4. \A r \in 0 .. rows-1 : f[r] \in Rows
  <2>1. ASSUME NEW r \in 0 .. rows-1
        PROVE  f[r] \in Rows
    BY <1>1, <1>3
  <2>2. QED
    BY <2>1
<1>5. /\ Tabulated(f, rows) \in [1 .. rows -> Rows]
      /\ \A r \in 0 .. rows-1 : At(Tabulated(f, rows), r) = f[r]
  BY <1>4, TabulatedIn
<1>6. QED
  BY <1>1, <1>2, <1>3, <1>5 DEF Elem, Matrices, Rows

\* A matrix is not null, and its elements are bytes.
LEMMA MatrixHas ==
  ASSUME NEW rows \in Nat \ {0}, NEW cols \in Nat \ {0}, NEW m \in Matrices(rows, cols)
  PROVE  /\ m # Null
         /\ \A r \in 0 .. rows-1, c \in 0 .. cols-1 : Elem(m, r, c) \in Byte
<1>1. 1 \in DOMAIN m
  BY DEF Matrices
<1>2. DOMAIN Null = {}
  BY DEF Null
<1>3. \A r \in 0 .. rows-1 : r + 1 \in 1 .. rows
  OBVIOUS
<1>4. \A c \in 0 .. cols-1 : c + 1 \in 1 .. cols
  OBVIOUS
<1>5. QED
  BY <1>1, <1>2, <1>3, <1>4 DEF Matrices, Elem, At

-----------------------------------------------------------------------------
(* Rows times vectors.                                                     *)

\* Row r of m, n columns wide, times the vector v, and its terms.
Products(m, r, v, n) == [c \in 0 .. n-1 |-> Mul(Elem(m, r, c), v[c])]
Dot(m, r, v, n) == SumOf(Products(m, r, v, n), n)

RowOfBytes(m, r, n) == \A c \in 0 .. n-1 : Elem(m, r, c) \in Byte

LEMMA DotIsByte ==
  ASSUME NEW m, NEW r, NEW v, NEW n \in Nat, RowOfBytes(m, r, n), Bytes(v, n)
  PROVE  Bytes(Products(m, r, v, n), n) /\ Dot(m, r, v, n) \in Byte
<1>1. Bytes(Products(m, r, v, n), n)
  BY MulClosed DEF Bytes, Products, RowOfBytes
<1>2. QED
  BY <1>1, SumByte DEF Dot

\* Equal rows times equal vectors.
LEMMA SameDot ==
  ASSUME NEW m, NEW r, NEW v, NEW a, NEW b, NEW w, NEW n \in Nat,
         RowOfBytes(m, r, n), Bytes(v, n),
         \A c \in 0 .. n-1 : Elem(a, b, c) = Elem(m, r, c),
         \A c \in 0 .. n-1 : w[c] = v[c]
  PROVE  Dot(a, b, w, n) = Dot(m, r, v, n)
<1>1. Bytes(Products(m, r, v, n), n)
  BY DotIsByte
<1>2. \A c \in 0 .. n-1 : Products(a, b, w, n)[c] = Products(m, r, v, n)[c]
  BY DEF Products
<1>3. QED
  BY <1>1, <1>2, SumSame DEF Dot

\* A row times the vector of zeros is 0.
LEMMA DotOfZero ==
  ASSUME NEW m, NEW r, NEW v, NEW n \in Nat, \A c \in 0 .. n-1 : v[c] = 0
  PROVE  Dot(m, r, v, n) = 0
<1> DEFINE f == Products(m, r, v, n)
<1>1. \A c \in 0 .. n-1 : f[c] = 0
  BY MulZero DEF Products
<1> HIDE DEF f
<1>2. CASE n = 0
  BY <1>2, SumOfNone DEF Dot
<1>3. CASE n # 0
  <2>1. 0 \in 0 .. n-1 /\ 0 < n /\ f[0] = 0 /\ f[0] \in Byte
    BY <1>1, <1>3, BytesAre
  <2>2. SumOf(f, n) = 0
    BY <1>1, <2>1, SumOfOne
  <2>3. QED
    BY <2>2 DEF Dot, f
<1>4. QED
  BY <1>2, <1>3

-----------------------------------------------------------------------------
(* Elimination.                                                            *)

Usable(m, k, p) == { r \in p .. k-1 : Elem(m, r, p) # 0 }
Pivot(m, k, p) == CHOOSE r \in Usable(m, k, p) : \A q \in Usable(m, k, p) : r <= q

\* The row that a step of the elimination finds in place of row r.
Swap(m, k, p, r) == IF r = p THEN Pivot(m, k, p) ELSE IF r = Pivot(m, k, p) THEN p ELSE r

LEMMA PivotIs ==
  ASSUME NEW k \in Nat, NEW p \in 0 .. k-1, NEW m, Usable(m, k, p) # {}
  PROVE  Pivot(m, k, p) \in p .. k-1 /\ Elem(m, Pivot(m, k, p), p) # 0
<1>1. Usable(m, k, p) \in SUBSET Nat
  BY DEF Usable
<1>2. \E r \in Usable(m, k, p) : \A q \in Usable(m, k, p) : r <= q
  BY <1>1, LeastNumber
<1>3. Pivot(m, k, p) \in Usable(m, k, p)
  BY <1>2 DEF Pivot
<1>4. QED
  BY <1>3 DEF Usable

\* The elements after a step.
LEMMA Eliminated ==
  ASSUME NEW k \in Nat \ {0}, NEW p \in 0 .. k-1, NEW m \in Matrices(k, 2*k),
         Usable(m, k, p) # {}
  PROVE  /\ Eliminate(m, k, p) \in Matrices(k, 2*k)
         /\ \A r \in 0 .. k-1, c \in 0 .. 2*k-1 :
              Elem(Eliminate(m, k, p), r, c) =
                LET s == Div(Elem(m, Pivot(m, k, p), c), Elem(m, Pivot(m, k, p), p))
                IN  IF r = p THEN s
                    ELSE Sub(Elem(m, Swap(m, k, p, r), c), Mul(Elem(m, Swap(m, k, p, r), p), s))
<1> DEFINE w == 2 * k
           pv == Pivot(m, k, p)
           sw(r) == At(m, IF r = p THEN pv ELSE IF r = pv THEN p ELSE r)
           quot == [c \in 0 .. w-1 |-> Div(At(sw(p), c), At(sw(p), p))]
           scaled == Tabulated(quot, w)
           cleared == [r \in 0 .. k-1 |-> [c \in 0 .. w-1 |->
                         IF r = p THEN At(scaled, c)
                         ELSE Sub(At(sw(r), c), Mul(At(sw(r), p), At(scaled, c)))]]
           s(c) == Div(Elem(m, pv, c), Elem(m, pv, p))
<1>1. w \in Nat \ {0} /\ p \in 0 .. w-1 /\ k \in Nat \ {0}
  OBVIOUS
<1>2. pv \in 0 .. k-1 /\ Elem(m, pv, p) # 0
  <2>1. pv \in p .. k-1 /\ Elem(m, pv, p) # 0
    BY PivotIs
  <2>2. QED
    BY <2>1
<1>3. m # Null /\ \A r \in 0 .. k-1, c \in 0 .. w-1 : Elem(m, r, c) \in Byte
  BY <1>1, MatrixHas
<1>4. Eliminate(m, k, p) = Matrix(k, w, cleared)
  BY <1>3 DEF Eliminate, Usable, Pivot
<1>5. \A r \in 0 .. k-1, c \in 0 .. w-1 : At(sw(r), c) = Elem(m, Swap(m, k, p, r), c)
  BY DEF Elem, Swap
<1>6. \A r \in 0 .. k-1 : Swap(m, k, p, r) \in 0 .. k-1
  BY <1>2 DEF Swap
<1>7. Swap(m, k, p, p) = pv /\ p \in 0 .. k-1
  BY DEF Swap
<1> HIDE DEF sw, pv, w
<1>8. \A c \in 0 .. w-1 : quot[c] = s(c) /\ s(c) \in Byte
  <2> TAKE c \in 0 .. w-1
  <2>1. At(sw(p), c) = Elem(m, pv, c) /\ At(sw(p), p) = Elem(m, pv, p)
    BY <1>1, <1>5, <1>7
  <2>2. Elem(m, pv, c) \in Byte /\ Elem(m, pv, p) \in Byte
    BY <1>1, <1>2, <1>3
  <2>3. QED
    BY <1>2, <2>1, <2>2, DivUndoesMul
<1> HIDE DEF quot, s
<1>9. \A c \in 0 .. w-1 : At(scaled, c) = s(c) /\ s(c) \in Byte
  <2>1. \A c \in 0 .. w-1 : quot[c] \in Byte
    BY <1>8
  <2> HIDE DEF cleared
  <2>2. \A c \in 0 .. w-1 : At(Tabulated(quot, w), c) = quot[c]
    BY <1>1, <2>1, TabulatedIn
  <2>3. QED
    BY <1>8, <2>2
<1> HIDE DEF scaled
<1>10. \A r \in 0 .. k-1, c \in 0 .. w-1 :
         /\ cleared[r][c] = IF r = p THEN s(c)
                            ELSE Sub(Elem(m, Swap(m, k, p, r), c),
                                     Mul(Elem(m, Swap(m, k, p, r), p), s(c)))
         /\ cleared[r][c] \in Byte
  <2> TAKE r \in 0 .. k-1, c \in 0 .. w-1
  <2>1. cleared[r][c] = IF r = p THEN s(c)
                        ELSE Sub(Elem(m, Swap(m, k, p, r), c),
                                 Mul(Elem(m, Swap(m, k, p, r), p), s(c)))
    BY <1>1, <1>5, <1>9
  <2>2. /\ Elem(m, Swap(m, k, p, r), c) \in Byte /\ Elem(m, Swap(m, k, p, r), p) \in Byte
        /\ s(c) \in Byte
    BY <1>1, <1>3, <1>6, <1>9
  <2>3. Mul(Elem(m, Swap(m, k, p, r), p), s(c)) \in Byte
    BY <2>2, MulClosed
  <2>4. Sub(Elem(m, Swap(m, k, p, r), c), Mul(Elem(m, Swap(m, k, p, r), p), s(c))) \in Byte
    BY <2>2, <2>3, AddClosed DEF Sub, Add
  <2>5. QED
    BY <2>1, <2>2, <2>4
<1> HIDE DEF cleared
<1>11. /\ Matrix(k, w, cleared) \in Matrices(k, w)
       /\ \A r \in 0 .. k-1, c \in 0 .. w-1 : Elem(Matrix(k, w, cleared), r, c) = cleared[r][c]
  BY <1>1, <1>10, MatrixIs
<1>12. QED
  BY <1>4, <1>10, <1>11 DEF s, pv, w

LEMMA SwapIs ==
  ASSUME NEW k \in Nat, NEW p \in 0 .. k-1, NEW m, Usable(m, k, p) # {}, NEW r \in 0 .. k-1
  PROVE  /\ Swap(m, k, p, r) \in 0 .. k-1 /\ Swap(m, k, p, Swap(m, k, p, r)) = r
         /\ r # p /\ r < p => Swap(m, k, p, r) = r
         /\ r # p /\ r >= p => Swap(m, k, p, r) >= p
         /\ Swap(m, k, p, p) = Pivot(m, k, p)
<1>1. Pivot(m, k, p) \in p .. k-1
  BY PivotIs
<1>2. QED
  BY <1>1 DEF Swap

\* A step changes none of the rows' solutions: of row p a factor that is not 0 is taken
\* out, to the others a multiple of row p is added.
Solves(m, k, u) == \A r \in 0 .. k-1 : Dot(m, r, u, 2*k) = 0

LEMMA ScaledDot ==
  ASSUME NEW k \in Nat \ {0}, NEW p \in 0 .. k-1, NEW m \in Matrices(k, 2*k),
         Usable(m, k, p) # {}, NEW u, Bytes(u, 2*k)
  PROVE  Dot(m, Pivot(m, k, p), u, 2*k)
           = Mul(Elem(m, Pivot(m, k, p), p), Dot(Eliminate(m, k, p), p, u, 2*k))
<1> DEFINE w == 2 * k
           q == Pivot(m, k, p)
           a == Elem(m, q, p)
           e == Eliminate(m, k, p)
           f == Products(e, p, u, w)
           h == Products(m, q, u, w)
<1>1. w \in Nat \ {0} /\ p \in 0 .. w-1 /\ k \in Nat \ {0}
  OBVIOUS
<1>2. q \in 0 .. k-1 /\ a # 0
  <2>1. q \in p .. k-1 /\ Elem(m, q, p) # 0
    BY PivotIs
  <2>2. QED
    BY <2>1
<1>3. \A r \in 0 .. k-1, c \in 0 .. w-1 : Elem(m, r, c) \in Byte
  BY <1>1, MatrixHas
<1>4. e \in Matrices(k, w) /\ \A c \in 0 .. w-1 : Elem(e, p, c) = Div(Elem(m, q, c), a)
  BY Eliminated
<1>5. \A r \in 0 .. k-1, c \in 0 .. w-1 : Elem(e, r, c) \in Byte
  <2> HIDE DEF e
  <2>1. QED
    BY <1>1, <1>4, MatrixHas
<1>6. a \in Byte
  BY <1>1, <1>2, <1>3
<1>7. Bytes(f, w)
  <2>1. RowOfBytes(e, p, w)
    BY <1>5 DEF RowOfBytes
  <2> HIDE DEF e, w
  <2>2. QED
    BY <1>1, <2>1, DotIsByte DEF w
<1>8. \A c \in 0 .. w-1 : h[c] = Mul(a, f[c])
  <2> TAKE c \in 0 .. w-1
  <2>1. f[c] = Mul(Elem(e, p, c), u[c]) /\ h[c] = Mul(Elem(m, q, c), u[c])
    BY DEF Products
  <2>2. Elem(m, q, c) \in Byte /\ Elem(e, p, c) \in Byte /\ u[c] \in Byte
    BY <1>2, <1>3, <1>5 DEF Bytes
  <2>3. Elem(e, p, c) = Div(Elem(m, q, c), a)
    BY <1>4
  <2> HIDE DEF e, f, h, a, q, w
  <2>4. Mul(Elem(e, p, c), a) = Elem(m, q, c)
    BY <1>2, <1>6, <2>2, <2>3, DivUndoesMul
  <2>5. Mul(a, Mul(Elem(e, p, c), u[c])) = Mul(Mul(a, Elem(e, p, c)), u[c])
    BY <1>6, <2>2, MulAssociates
  <2>6. Mul(a, Elem(e, p, c)) = Mul(Elem(e, p, c), a)
    BY <1>6, <2>2, MulCommutes
  <2>7. QED
    BY <2>1, <2>4, <2>5, <2>6
<1>9. Dot(m, q, u, w) = SumOf(h, w) /\ Dot(e, p, u, w) = SumOf(f, w)
  BY DEF Dot
<1> HIDE DEF e, f, h, a, w, q
<1>10. SumOf(h, w) = Mul(a, SumOf(f, w))
  BY <1>1, <1>6, <1>7, <1>8, SumScales
<1>11. QED
  BY <1>9, <1>10 DEF e, a, w, q

LEMMA ClearedDot ==
  ASSUME NEW k \in Nat \ {0}, NEW p \in 0 .. k-1, NEW m \in Matrices(k, 2*k),
         Usable(m, k, p) # {}, NEW u, Bytes(u, 2*k), NEW r \in 0 .. k-1, r # p
  PROVE  Dot(Eliminate(m, k, p), r, u, 2*k)
           = Add(Dot(m, Swap(m, k, p, r), u, 2*k),
                 Mul(Elem(m, Swap(m, k, p, r), p), Dot(Eliminate(m, k, p), p, u, 2*k)))
<1> DEFINE w == 2 * k
           q == Swap(m, k, p, r)
           b == Elem(m, q, p)
           e == Eliminate(m, k, p)
           f == Products(m, q, u, w)
           g == Products(e, p, u, w)
           t == [c \in 0 .. w-1 |-> Mul(b, g[c])]
           h == Products(e, r, u, w)
<1>1. w \in Nat \ {0} /\ p \in 0 .. w-1 /\ k \in Nat \ {0}
  OBVIOUS
<1>2. q \in 0 .. k-1
  BY SwapIs
<1>3. \A i \in 0 .. k-1, c \in 0 .. w-1 : Elem(m, i, c) \in Byte
  BY <1>1, MatrixHas
<1>4. /\ e \in Matrices(k, w)
      /\ \A c \in 0 .. w-1 : Elem(e, r, c) = Sub(Elem(m, q, c), Mul(b, Elem(e, p, c)))
  BY Eliminated
<1>5. \A i \in 0 .. k-1, c \in 0 .. w-1 : Elem(e, i, c) \in Byte
  <2> HIDE DEF e
  <2>1. QED
    BY <1>1, <1>4, MatrixHas
<1>6. b \in Byte
  BY <1>1, <1>2, <1>3
<1>7. Bytes(f, w) /\ Bytes(g, w)
  <2>1. RowOfBytes(m, q, w) /\ RowOfBytes(e, p, w)
    BY <1>2, <1>3, <1>5 DEF RowOfBytes
  <2> HIDE DEF e, w, q
  <2>2. QED
    BY <1>1, <2>1, DotIsByte DEF w
<1>8. \A c \in 0 .. w-1 : t[c] = Mul(b, g[c])
  OBVIOUS
<1>9. \A c \in 0 .. w-1 : h[c] = Add(f[c], t[c])
  <2> TAKE c \in 0 .. w-1
  <2>1. /\ h[c] = Mul(Elem(e, r, c), u[c]) /\ g[c] = Mul(Elem(e, p, c), u[c])
        /\ f[c] = Mul(Elem(m, q, c), u[c])
    BY DEF Products
  <2>2. Elem(m, q, c) \in Byte /\ Elem(e, p, c) \in Byte /\ u[c] \in Byte
    BY <1>2, <1>3, <1>5 DEF Bytes
  <2>3. Elem(e, r, c) = Add(Elem(m, q, c), Mul(b, Elem(e, p, c)))
    BY <1>4 DEF Add, Sub
  <2>4. t[c] = Mul(b, g[c])
    OBVIOUS
  <2> HIDE DEF e, f, g, t, h, b, q, w
  <2>5. Mul(b, Elem(e, p, c)) \in Byte
    BY <1>6, <2>2, MulClosed
  <2>6. Mul(u[c], Add(Elem(m, q, c), Mul(b, Elem(e, p, c))))
          = Add(Mul(u[c], Elem(m, q, c)), Mul(u[c], Mul(b, Elem(e, p, c))))
    BY <2>2, <2>5, MulDistributes
  <2>7. /\ Mul(u[c], Add(Elem(m, q, c), Mul(b, Elem(e, p, c)))) = h[c]
        /\ Mul(u[c], Elem(m, q, c)) = f[c]
    BY <2>1, <2>2, <2>3, <2>5, AddClosed, MulCommutes
  <2>8. Mul(u[c], Mul(b, Elem(e, p, c))) = Mul(b, Mul(Elem(e, p, c), u[c]))
    <3>1. Mul(u[c], Mul(b, Elem(e, p, c))) = Mul(Mul(b, Elem(e, p, c)), u[c])
      BY <2>2, <2>5, MulCommutes
    <3>2. QED
      BY <1>6, <2>2, <3>1, MulAssociates
  <2>9. QED
    BY <2>1, <2>4, <2>6, <2>7, <2>8
<1>10. /\ Dot(m, q, u, w) = SumOf(f, w) /\ Dot(e, p, u, w) = SumOf(g, w)
       /\ Dot(e, r, u, w) = SumOf(h, w)
  BY DEF Dot
<1> HIDE DEF e, f, g, t, h, b, q, w
<1>11. Bytes(t, w)
  BY <1>6, <1>7, <1>8, MulClosed DEF Bytes
<1>12. SumOf(t, w) = Mul(b, SumOf(g, w))
  BY <1>1, <1>6, <1>7, <1>8, SumScales
<1>13. SumOf(h, w) = Add(SumOf(f, w), SumOf(t, w))
  BY <1>1, <1>7, <1>9, <1>11, SumAdds
<1>14. QED
  BY <1>10, <1>12, <1>13 DEF e, b, q, w

LEMMA SolutionsKept ==
  ASSUME NEW k \in Nat \ {0}, NEW p \in 0 .. k-1, NEW m \in Matrices(k, 2*k),
         Usable(m, k, p) # {}, NEW u, Bytes(u, 2*k)
  PROVE  Solves(Eliminate(m, k, p), k, u) <=> Solves(m, k, u)
<1> DEFINE e == Eliminate(m, k, p)
           D(r) == Dot(m, r, u, 2*k)
           E(r) == Dot(e, r, u, 2*k)
           s(r) == Swap(m, k, p, r)
           q == Pivot(m, k, p)
           w == 2 * k
<1>1. w \in Nat \ {0} /\ p \in 0 .. w-1 /\ k \in Nat \ {0}
  OBVIOUS
<1>2. \A r \in 0 .. k-1, c \in 0 .. w-1 : Elem(m, r, c) \in Byte /\ Elem(e, r, c) \in Byte
  <2>1. e \in Matrices(k, 2*k)
    BY Eliminated
  <2> HIDE DEF e
  <2>2. QED
    BY <1>1, <2>1, MatrixHas
<1>3. \A r \in 0 .. k-1 : D(r) \in Byte /\ E(r) \in Byte
  <2>1. \A r \in 0 .. k-1 : RowOfBytes(m, r, w) /\ RowOfBytes(e, r, w)
    BY <1>2 DEF RowOfBytes
  <2> HIDE DEF e
  <2>2. QED
    BY <1>1, <2>1, DotIsByte
<1>4. \A r \in 0 .. k-1 : s(r) \in 0 .. k-1 /\ s(s(r)) = r
  BY SwapIs
<1>5. s(p) = q /\ p \in 0 .. k-1
  BY SwapIs
<1>6. q \in 0 .. k-1 /\ Elem(m, q, p) # 0
  <2>1. q \in p .. k-1 /\ Elem(m, q, p) # 0
    BY PivotIs
  <2>2. QED
    BY <2>1
<1>7. D(q) = Mul(Elem(m, q, p), E(p))
  BY ScaledDot
<1>8. \A r \in 0 .. k-1 : r # p => E(r) = Add(D(s(r)), Mul(Elem(m, s(r), p), E(p)))
  BY ClearedDot
<1>9. /\ Solves(e, k, u) <=> \A r \in 0 .. k-1 : E(r) = 0
      /\ Solves(m, k, u) <=> \A r \in 0 .. k-1 : D(r) = 0
  BY DEF Solves
<1> HIDE DEF e, D, E, s, q
<1>10. E(p) = 0 <=> D(q) = 0
  BY <1>1, <1>2, <1>3, <1>5, <1>6, <1>7, MulOfNonzero
<1>11. ASSUME E(p) = 0 PROVE \A r \in 0 .. k-1 : r # p => E(r) = D(s(r))
  <2>1. \A r \in 0 .. k-1 : Mul(Elem(m, s(r), p), E(p)) = 0
    BY <1>11, MulZero
  <2>2. QED
    BY <1>3, <1>4, <1>8, <2>1, AddZero
<1>12. ASSUME \A r \in 0 .. k-1 : D(r) = 0 PROVE \A r \in 0 .. k-1 : E(r) = 0
  BY <1>4, <1>6, <1>10, <1>11, <1>12
<1>13. ASSUME \A r \in 0 .. k-1 : E(r) = 0 PROVE \A r \in 0 .. k-1 : D(r) = 0
  <2>1. E(p) = 0
    BY <1>5, <1>13
  <2>2. \A r \in 0 .. k-1 : D(s(r)) = 0
    BY <1>5, <1>10, <1>11, <1>13, <2>1
  <2>3. QED
    BY <1>4, <2>2
<1>14. QED
  BY <1>9, <1>12, <1>13 DEF e

\* The first p columns of m are those of the identity.
Unit(m, k, p) == \A r \in 0 .. k-1, c \in 0 .. p-1 : Elem(m, r, c) = IF r = c THEN 1 ELSE 0

LEMMA UnitGrows ==
  ASSUME NEW k \in Nat \ {0}, NEW p \in 0 .. k-1, NEW m \in Matrices(k, 2*k),
         Usable(m, k, p) # {}, Unit(m, k, p)
  PROVE  Unit(Eliminate(m, k, p), k, p + 1)
<1> DEFINE w == 2 * k
           q == Pivot(m, k, p)
           a == Elem(m, q, p)
           e == Eliminate(m, k, p)
           s(r) == Swap(m, k, p, r)
           x(c) == Div(Elem(m, q, c), a)
<1>1. w \in Nat \ {0} /\ p \in 0 .. w-1 /\ k \in Nat \ {0}
  OBVIOUS
<1>2. q \in 0 .. k-1 /\ q >= p /\ a # 0
  <2>1. q \in p .. k-1 /\ Elem(m, q, p) # 0
    BY PivotIs
  <2>2. QED
    BY <2>1
<1>3. \A r \in 0 .. k-1, c \in 0 .. w-1 : Elem(m, r, c) \in Byte
  BY <1>1, MatrixHas
<1>4. \A r \in 0 .. k-1, c \in 0 .. w-1 :
        Elem(e, r, c) = IF r = p THEN x(c) ELSE Sub(Elem(m, s(r), c), Mul(Elem(m, s(r), p), x(c)))
  BY Eliminated
<1>5. \A r \in 0 .. k-1 : /\ s(r) \in 0 .. k-1
                          /\ r # p /\ r < p => s(r) = r
                          /\ r # p /\ r >= p => s(r) >= p
  BY SwapIs
<1>6. a \in Byte /\ a \in Byte \ {0} /\ p \in 0 .. k-1
  BY <1>1, <1>2, <1>3
<1>7. x(p) = 1
  <2>1. x(p) = Div(Mul(1, a), a) /\ 1 \in Byte
    BY <1>6, MulOne DEF Byte
  <2> HIDE DEF a
  <2>2. QED
    BY <1>6, <2>1, DivUndoesMul
<1>8. \A c \in 0 .. p-1 : x(c) = 0
  <2> TAKE c \in 0 .. p-1
  <2>1. Elem(m, q, c) = 0
    BY <1>2 DEF Unit
  <2>2. QED
    BY <2>1 DEF Div
<1> SUFFICES ASSUME NEW r \in 0 .. k-1, NEW c \in 0 .. (p + 1)-1
             PROVE  Elem(e, r, c) = IF r = c THEN 1 ELSE 0
  BY DEF Unit
<1>9. c \in 0 .. w-1 /\ (c = p \/ c \in 0 .. p-1)
  BY <1>1
<1> HIDE DEF w, e, q, a, s, x
<1>10. CASE r = p
  <2>1. Elem(e, r, c) = x(c)
    BY <1>4, <1>9, <1>10
  <2>2. QED
    BY <1>7, <1>8, <1>9, <1>10, <2>1
<1>11. CASE r # p
  <2>1. Elem(e, r, c) = Sub(Elem(m, s(r), c), Mul(Elem(m, s(r), p), x(c)))
    BY <1>4, <1>9, <1>11
  <2>2. s(r) \in 0 .. k-1 /\ Elem(m, s(r), c) \in Byte /\ Elem(m, s(r), p) \in Byte
    BY <1>1, <1>3, <1>5, <1>9
  <2>3. CASE c = p
    <3>1. Elem(e, r, c) = Add(Elem(m, s(r), p), Elem(m, s(r), p))
      BY <1>7, <2>1, <2>2, <2>3, MulOne DEF Sub, Add
    <3>2. QED
      BY <1>11, <2>2, <2>3, <3>1, AddSelf
  <2>4. CASE c \in 0 .. p-1
    <3>1. Elem(e, r, c) = Elem(m, s(r), c)
      BY <1>8, <2>1, <2>2, <2>4, MulZero, AddZero DEF Sub, Add
    <3>2. Elem(m, s(r), c) = IF s(r) = c THEN 1 ELSE 0
      BY <2>2, <2>4 DEF Unit
    <3>3. s(r) = c <=> r = c
      BY <1>5, <1>11, <2>4
    <3>4. QED
      BY <3>1, <3>2, <3>3
  <2>5. QED
    BY <1>9, <2>3, <2>4
<1>12. QED
  BY <1>10, <1>11

-----------------------------------------------------------------------------
(* The inverse.                                                            *)

\* The matrix beside the identity.
Extended(m, k) ==
  Matrix(k, 2*k, [r \in 0 .. k-1 |-> [c \in 0 .. 2*k-1 |->
                    IF c < k THEN Elem(m, r, c) ELSE IF c - k = r THEN 1 ELSE 0]])

\* The elements of its first k rows and columns are bytes.
Square(m, k) == \A r, c \in 0 .. k-1 : Elem(m, r, c) \in Byte

LEMMA ExtendedIs ==
  ASSUME NEW k \in Nat \ {0}, NEW m, Square(m, k)
  PROVE  /\ Extended(m, k) \in Matrices(k, 2*k)
         /\ \A r \in 0 .. k-1, c \in 0 .. 2*k-1 :
              Elem(Extended(m, k), r, c)
                = IF c < k THEN Elem(m, r, c) ELSE IF c - k = r THEN 1 ELSE 0
<1> DEFINE w == 2 * k
           elem == [r \in 0 .. k-1 |-> [c \in 0 .. w-1 |->
                     IF c < k THEN Elem(m, r, c) ELSE IF c - k = r THEN 1 ELSE 0]]
<1>1. \A r \in 0 .. k-1, c \in 0 .. w-1 :
        elem[r][c] = IF c < k THEN Elem(m, r, c) ELSE IF c - k = r THEN 1 ELSE 0
  OBVIOUS
<1>2. Extended(m, k) = Matrix(k, w, elem) /\ w \in Nat \ {0}
  BY DEF Extended
<1> HIDE DEF elem, w
<1>3. \A r \in 0 .. k-1, c \in 0 .. w-1 : elem[r][c] \in Byte
  <2> TAKE r \in 0 .. k-1, c \in 0 .. w-1
  <2>1. 0 \in Byte /\ 1 \in Byte
    BY DEF Byte
  <2>2. c < k => c \in 0 .. k-1
    BY <1>2 DEF w
  <2>3. QED
    BY <1>1, <2>1, <2>2 DEF Square
<1>4. /\ Matrix(k, w, elem) \in Matrices(k, w)
      /\ \A r \in 0 .. k-1, c \in 0 .. w-1 : Elem(Matrix(k, w, elem), r, c) = elem[r][c]
  BY <1>2, <1>3, MatrixIs
<1>5. QED
  BY <1>1, <1>2, <1>4 DEF w

\* The matrices after each step of the elimination, and what they have in common.
After(f, m, k) ==
  f[0] = Extended(m, k) /\ \A p \in 1 .. k : f[p] = Eliminate(f[p-1], k, p-1)

Kept(a, m, k, p) ==
  \/ a = Null
  \/ /\ a \in Matrices(k, 2*k) /\ Unit(a, k, p)
     /\ \A u : Bytes(u, 2*k) => (Solves(a, k, u) <=> Solves(Extended(m, k), k, u))

LEMMA AfterIs ==
  ASSUME NEW k \in Nat \ {0}, NEW m, Square(m, k)
  PROVE  \E f : /\ After(f, m, k)
                /\ InverseMatrix(m, k) =
                     IF f[k] = Null THEN Null
                     ELSE Matrix(k, k, [r \in 0 .. k-1 |->
                                        [c \in 0 .. k-1 |-> Elem(f[k], r, c + k)]])
<1> DEFINE T == Matrices(k, 2*k) \cup {Null}
           v == Extended(m, k)
           step == [x \in (1 .. k) \X T |-> Eliminate(x[2], k, x[1] - 1)]
           all(g) == [p \in 0 .. k |-> IF p = 0 THEN v ELSE Eliminate(g[p-1], k, p-1)]
<1>1. v \in T
  BY ExtendedIs
<1>2. ASSUME NEW x \in (1 .. k) \X T PROVE Eliminate(x[2], k, x[1] - 1) \in T
  <2> DEFINE p == x[1] - 1
             a == x[2]
  <2>1. p \in 0 .. k-1 /\ a \in T
    OBVIOUS
  <2> HIDE DEF p, a
  <2>2. CASE a = Null \/ Usable(a, k, p) = {}
    BY <2>2 DEF Eliminate, Usable, p, a
  <2>3. CASE a # Null /\ Usable(a, k, p) # {}
    <3>1. Eliminate(a, k, p) \in Matrices(k, 2*k)
      BY <2>1, <2>3, Eliminated
    <3>2. QED
      BY <3>1 DEF p, a
  <2>4. QED
    BY <2>2, <2>3
<1>3. step \in [(1 .. k) \X T -> T]
  BY <1>2
<1>4. \E f \in [0 .. k -> T] : Iterates(f, v, k, step)
  <2> HIDE DEF step, T, v
  <2>1. QED
    BY <1>1, <1>3, Iteration
<1>5. PICK f \in [0 .. k -> T] : f[0] = v /\ \A p \in 1 .. k : f[p] = step[<<p, f[p-1]>>]
  BY <1>4 DEF Iterates
<1>6. \A p \in 1 .. k : f[p] = Eliminate(f[p-1], k, p-1)
  <2> TAKE p \in 1 .. k
  <2>1. f[p-1] \in T
    OBVIOUS
  <2>2. QED
    BY <1>5, <2>1
<1> HIDE DEF step, T
<1>7. f = all(f)
  BY <1>5, <1>6
<1> DEFINE after == CHOOSE g : g = all(g)
<1>8. after = all(after)
  <2> HIDE DEF all
  <2>1. QED
    BY <1>7
<1>9. InverseMatrix(m, k) =
        IF after[k] = Null THEN Null
        ELSE Matrix(k, k, [r \in 0 .. k-1 |-> [c \in 0 .. k-1 |-> Elem(after[k], r, c + k)]])
  BY DEF InverseMatrix, Extended
<1> HIDE DEF after
<1>10. After(after, m, k)
  BY <1>8 DEF After
<1>11. QED
  BY <1>9, <1>10

LEMMA ElimNull ==
  ASSUME NEW k, NEW m, NEW p, m = Null \/ Usable(m, k, p) = {}
  PROVE  Eliminate(m, k, p) = Null
BY DEF Eliminate, Usable

LEMMA KeptStep ==
  ASSUME NEW k \in Nat \ {0}, NEW p \in 0 .. k-1, NEW m, NEW a, Kept(a, m, k, p)
  PROVE  Kept(Eliminate(a, k, p), m, k, p + 1)
<1>1. CASE a = Null \/ Usable(a, k, p) = {}
  BY <1>1, ElimNull DEF Kept
<1>2. CASE a # Null /\ Usable(a, k, p) # {}
  <2>1. /\ a \in Matrices(k, 2*k) /\ Unit(a, k, p)
        /\ \A u : Bytes(u, 2*k) => (Solves(a, k, u) <=> Solves(Extended(m, k), k, u))
    BY <1>2 DEF Kept
  <2>2. Eliminate(a, k, p) \in Matrices(k, 2*k)
    BY <1>2, <2>1, Eliminated
  <2>3. Unit(Eliminate(a, k, p), k, p + 1)
    BY <1>2, <2>1, UnitGrows
  <2>4. \A u : Bytes(u, 2*k) => (Solves(Eliminate(a, k, p), k, u) <=> Solves(a, k, u))
    BY <1>2, <2>1, SolutionsKept
  <2>5. QED
    BY <2>1, <2>2, <2>3, <2>4 DEF Kept
<1>3. QED
  BY <1>1, <1>2

LEMMA AllKept ==
  ASSUME NEW k \in Nat \ {0}, NEW m, Square(m, k), NEW f, After(f, m, k)
  PROVE  \A p \in 0 .. k : Kept(f[p], m, k, p)
<1> DEFINE S == { p \in Nat : p <= k => Kept(f[p], m, k, p) }
<1>1. 0 \in S
  <2>1. f[0] = Extended(m, k) /\ Extended(m, k) \in Matrices(k, 2*k)
    BY ExtendedIs DEF After
  <2>2. Unit(f[0], k, 0)
    BY DEF Unit
  <2>3. QED
    BY <2>1, <2>2 DEF Kept
<1>2. ASSUME NEW p \in Nat, p \in S PROVE p + 1 \in S
  <2> SUFFICES ASSUME p + 1 <= k PROVE Kept(f[p + 1], m, k, p + 1)
    OBVIOUS
  <2>1. p \in 0 .. k-1 /\ Kept(f[p], m, k, p)
    BY <1>2
  <2>2. f[p + 1] = Eliminate(f[p], k, p)
    <3>1. p + 1 \in 1 .. k /\ (p + 1) - 1 = p
      BY <2>1
    <3>2. QED
      BY <3>1 DEF After
  <2>3. QED
    BY <2>1, <2>2, KeptStep
<1> HIDE DEF S
<1>3. Nat \subseteq S
  BY <1>1, <1>2, NatSetInduction
<1>4. QED
  BY <1>3 DEF S

\* Beside the identity, a row times a vector is that of the matrix plus one element.
LEMMA ExtendedDot ==
  ASSUME NEW k \in Nat \ {0}, NEW m, Square(m, k), NEW u, Bytes(u, 2*k), NEW r \in 0 .. k-1
  PROVE  Dot(Extended(m, k), r, u, 2*k) = Add(Dot(m, r, u, k), u[k + r])
<1> DEFINE w == k + k
           e == Extended(m, k)
           f == Products(e, r, u, w)
           g == [j \in 0 .. k-1 |-> f[k + j]]
           h == Products(m, r, u, k)
<1>1. w \in Nat /\ w = 2 * k /\ k \in Nat /\ r \in Nat /\ r < k
  OBVIOUS
<1>2. \A c \in 0 .. w-1 : u[c] \in Byte
  BY <1>1 DEF Bytes
<1>3. /\ e \in Matrices(k, 2*k)
      /\ \A c \in 0 .. w-1 :
           Elem(e, r, c) = IF c < k THEN Elem(m, r, c) ELSE IF c - k = r THEN 1 ELSE 0
  BY ExtendedIs
<1>4. \A c \in 0 .. w-1 : f[c] = Mul(Elem(e, r, c), u[c])
  BY DEF Products
<1>5. \A c \in 0 .. k-1 : h[c] = Mul(Elem(m, r, c), u[c])
  BY DEF Products
<1>6. \A j \in 0 .. k-1 : g[j] = f[k + j]
  OBVIOUS
<1>7. Dot(e, r, u, 2*k) = SumOf(f, w) /\ Dot(m, r, u, k) = SumOf(h, k)
  BY DEF Dot
<1>8. Bytes(h, k)
  <2>1. RowOfBytes(m, r, k) /\ Bytes(u, k)
    BY <1>2 DEF RowOfBytes, Square, Bytes
  <2>2. QED
    BY <2>1, DotIsByte
<1> HIDE DEF e, f, g, h, w
<1>9. \A c \in 0 .. k-1 : /\ c \in 0 .. w-1 /\ c < k /\ k + c \in 0 .. w-1
                           /\ ~ (k + c < k) /\ (k + c) - k = c
  BY <1>1
<1>10. \A c \in 0 .. k-1 : f[c] = h[c]
  BY <1>3, <1>4, <1>5, <1>9
<1>11. \A c \in 0 .. k-1 : g[c] = IF c = r THEN u[k + c] ELSE 0
  <2> TAKE c \in 0 .. k-1
  <2>1. g[c] = Mul(IF c = r THEN 1 ELSE 0, u[k + c]) /\ u[k + c] \in Byte
    BY <1>2, <1>3, <1>4, <1>6, <1>9
  <2>2. QED
    BY <2>1, MulOne, MulZero
<1>12. Bytes(f, w)
  <2>1. \A c \in 0 .. w-1 : c \in 0 .. k-1 \/ (c - k \in 0 .. k-1 /\ c = k + (c - k))
    BY <1>1
  <2>2. \A c \in 0 .. k-1 : f[c] \in Byte /\ f[k + c] \in Byte
    BY <1>2, <1>6, <1>8, <1>9, <1>10, <1>11, BytesAre DEF Bytes
  <2>3. QED
    BY <2>1, <2>2 DEF Bytes
<1>13. SumOf(f, w) = Add(SumOf(f, k), SumOf(g, k))
  BY <1>1, <1>6, <1>12, SumSplits DEF w
<1>14. SumOf(f, k) = SumOf(h, k)
  BY <1>1, <1>8, <1>10, SumSame
<1>15. SumOf(g, k) = u[k + r]
  <2>1. g[r] = u[k + r] /\ g[r] \in Byte
    BY <1>2, <1>9, <1>11
  <2>2. \A c \in 0 .. k-1 : c # r => g[c] = 0
    BY <1>11
  <2>3. QED
    BY <1>1, <2>1, <2>2, SumOfOne
<1>16. QED
  BY <1>7, <1>13, <1>14, <1>15 DEF e

\* The right half of the matrix that the elimination ends with.
Right(a, k) == Matrix(k, k, [r \in 0 .. k-1 |-> [c \in 0 .. k-1 |-> Elem(a, r, c + k)]])

LEMMA RightIs ==
  ASSUME NEW k \in Nat \ {0}, NEW a \in Matrices(k, 2*k)
  PROVE  /\ Right(a, k) \in Matrices(k, k)
         /\ \A r, c \in 0 .. k-1 : Elem(Right(a, k), r, c) = Elem(a, r, c + k)
<1> DEFINE elem == [r \in 0 .. k-1 |-> [c \in 0 .. k-1 |-> Elem(a, r, c + k)]]
<1>1. \A r, c \in 0 .. k-1 : elem[r][c] = Elem(a, r, c + k)
  OBVIOUS
<1>2. Right(a, k) = Matrix(k, k, elem)
  BY DEF Right
<1> HIDE DEF elem
<1>3. 2 * k \in Nat \ {0} /\ \A c \in 0 .. k-1 : c + k \in 0 .. 2*k-1
  OBVIOUS
<1>4. \A r, c \in 0 .. k-1 : elem[r][c] \in Byte
  BY <1>1, <1>3, MatrixHas
<1>5. /\ Matrix(k, k, elem) \in Matrices(k, k)
      /\ \A r, c \in 0 .. k-1 : Elem(Matrix(k, k, elem), r, c) = elem[r][c]
  BY <1>4, MatrixIs
<1>6. QED
  BY <1>1, <1>2, <1>5

LEMMA UnitDot ==
  ASSUME NEW k \in Nat \ {0}, NEW a \in Matrices(k, 2*k), Unit(a, k, k),
         NEW u, Bytes(u, 2*k), NEW v, \A j \in 0 .. k-1 : v[j] = u[k + j], NEW r \in 0 .. k-1
  PROVE  Dot(a, r, u, 2*k) = Add(u[r], Dot(Right(a, k), r, v, k))
<1> DEFINE w == k + k
           b == Right(a, k)
           f == Products(a, r, u, w)
           g == [j \in 0 .. k-1 |-> f[k + j]]
           h == Products(b, r, v, k)
<1>1. w \in Nat \ {0} /\ w = 2 * k /\ k \in Nat /\ r \in Nat /\ r < k
  OBVIOUS
<1>2. \A c \in 0 .. w-1 : u[c] \in Byte /\ Elem(a, r, c) \in Byte
  BY <1>1, MatrixHas DEF Bytes
<1>3. \A c \in 0 .. k-1 : Elem(b, r, c) = Elem(a, r, c + k)
  BY RightIs
<1>4. \A c \in 0 .. w-1 : f[c] = Mul(Elem(a, r, c), u[c])
  BY DEF Products
<1>5. \A c \in 0 .. k-1 : h[c] = Mul(Elem(b, r, c), v[c])
  BY DEF Products
<1>6. \A j \in 0 .. k-1 : g[j] = f[k + j]
  OBVIOUS
<1>7. Dot(a, r, u, 2*k) = SumOf(f, w) /\ Dot(b, r, v, k) = SumOf(h, k)
  BY DEF Dot
<1>8. Bytes(f, w)
  BY <1>2, <1>4, MulClosed DEF Bytes
<1> HIDE DEF b, f, g, h, w
<1>9. \A c \in 0 .. k-1 : c \in 0 .. w-1 /\ k + c \in 0 .. w-1 /\ k + c = c + k
  BY <1>1
<1>10. \A c \in 0 .. k-1 : g[c] = h[c] /\ g[c] \in Byte
  BY <1>2, <1>3, <1>4, <1>5, <1>6, <1>8, <1>9 DEF Bytes
<1>11. \A c \in 0 .. k-1 : f[c] = IF c = r THEN u[c] ELSE 0
  <2> TAKE c \in 0 .. k-1
  <2>1. f[c] = Mul(IF c = r THEN 1 ELSE 0, u[c]) /\ u[c] \in Byte
    BY <1>2, <1>4, <1>9 DEF Unit
  <2>2. QED
    BY <2>1, MulOne, MulZero
<1>12. SumOf(f, w) = Add(SumOf(f, k), SumOf(g, k))
  BY <1>1, <1>6, <1>8, SumSplits DEF w
<1>13. SumOf(h, k) = SumOf(g, k)
  <2>1. Bytes(g, k)
    BY <1>10 DEF Bytes
  <2>2. QED
    BY <1>1, <1>10, <2>1, SumSame
<1>14. SumOf(f, k) = u[r]
  <2>1. f[r] = u[r] /\ f[r] \in Byte
    BY <1>2, <1>9, <1>11
  <2>2. \A c \in 0 .. k-1 : c # r => f[c] = 0
    BY <1>11
  <2>3. QED
    BY <1>1, <2>1, <2>2, SumOfOne
<1>15. QED
  BY <1>7, <1>12, <1>13, <1>14 DEF b

\* inverse solves the equations: m times v is w exactly if its result times w is v.
LEMMA InverseSolves ==
  ASSUME NEW k \in Nat \ {0}, NEW m, Square(m, k), InverseMatrix(m, k) # Null
  PROVE  /\ InverseMatrix(m, k) \in Matrices(k, k)
         /\ \A v, w : Bytes(v, k) /\ Bytes(w, k) =>
              ((\A r \in 0 .. k-1 : Dot(m, r, v, k) = w[r])
                <=> (\A r \in 0 .. k-1 : Dot(InverseMatrix(m, k), r, w, k) = v[r]))
<1>1. PICK f : /\ After(f, m, k)
               /\ InverseMatrix(m, k) = IF f[k] = Null THEN Null ELSE Right(f[k], k)
  BY AfterIs DEF Right
<1> DEFINE a == f[k]
           b == InverseMatrix(m, k)
<1>2. a # Null /\ b = Right(a, k) /\ k \in 0 .. k
  BY <1>1
<1>3. /\ a \in Matrices(k, 2*k) /\ Unit(a, k, k)
      /\ \A u : Bytes(u, 2*k) => (Solves(a, k, u) <=> Solves(Extended(m, k), k, u))
  <2>1. Kept(f[k], m, k, k)
    BY <1>1, <1>2, AllKept
  <2>2. QED
    BY <1>2, <2>1 DEF Kept
<1> HIDE DEF a, b
<1>4. b \in Matrices(k, k) /\ \A r, c \in 0 .. k-1 : Elem(b, r, c) \in Byte
  BY <1>2, <1>3, RightIs, MatrixHas
<1>5. ASSUME NEW v, NEW w, Bytes(v, k), Bytes(w, k)
      PROVE  (\A r \in 0 .. k-1 : Dot(m, r, v, k) = w[r])
               <=> (\A r \in 0 .. k-1 : Dot(b, r, w, k) = v[r])
  <2> DEFINE u == [c \in 0 .. 2*k-1 |-> IF c < k THEN v[c] ELSE w[c - k]]
             x(r) == Dot(m, r, v, k)
             y(r) == Dot(b, r, w, k)
  <2>1. \A c \in 0 .. k-1 : u[c] = v[c] /\ w[c] = u[k + c] /\ v[c] \in Byte /\ w[c] \in Byte
    BY <1>5 DEF Bytes
  <2>2. Bytes(u, 2*k)
    <3>1. \A c \in 0 .. 2*k-1 : IF c < k THEN c \in 0 .. k-1 ELSE c - k \in 0 .. k-1
      OBVIOUS
    <3>2. QED
      BY <1>5, <3>1 DEF Bytes
  <2> HIDE DEF u
  <2>3. \A r \in 0 .. k-1 : x(r) \in Byte /\ y(r) \in Byte /\ Dot(m, r, u, k) = x(r)
    <3> TAKE r \in 0 .. k-1
    <3>1. RowOfBytes(m, r, k) /\ RowOfBytes(b, r, k)
      BY <1>4 DEF RowOfBytes, Square
    <3>2. \A c \in 0 .. k-1 : Elem(m, r, c) = Elem(m, r, c)
      OBVIOUS
    <3>3. Dot(m, r, u, k) = Dot(m, r, v, k)
      BY <1>5, <2>1, <3>1, <3>2, SameDot
    <3>4. QED
      BY <1>5, <3>1, <3>3, DotIsByte
  <2>4. \A r \in 0 .. k-1 : Dot(Extended(m, k), r, u, 2*k) = Add(x(r), w[r])
    BY <2>1, <2>2, <2>3, ExtendedDot
  <2>5. \A r \in 0 .. k-1 : Dot(a, r, u, 2*k) = Add(v[r], y(r))
    BY <1>2, <1>3, <2>1, <2>2, UnitDot
  <2> HIDE DEF x, y
  <2>6. Solves(Extended(m, k), k, u) <=> \A r \in 0 .. k-1 : x(r) = w[r]
    BY <2>1, <2>3, <2>4, AddCancels DEF Solves
  <2>7. Solves(a, k, u) <=> \A r \in 0 .. k-1 : y(r) = v[r]
    BY <2>1, <2>3, <2>5, AddCancels DEF Solves
  <2>8. QED
    BY <1>3, <2>2, <2>6, <2>7 DEF x, y
<1>6. QED
  BY <1>4, <1>5 DEF b

\* A column without an element to divide by makes the rows dependent.
LEMMA ZeroColumn ==
  ASSUME NEW k \in Nat \ {0}, NEW p \in 0 .. k-1, NEW a \in Matrices(k, 2*k), Unit(a, k, p),
         Usable(a, k, p) = {}
  PROVE  \E u : /\ Bytes(u, 2*k) /\ Solves(a, k, u) /\ u[p] = 1
                /\ \A c \in 0 .. k-1 : u[k + c] = 0
<1> DEFINE w == 2 * k
           u == [c \in 0 .. w-1 |-> IF c < p THEN Elem(a, c, p) ELSE IF c = p THEN 1 ELSE 0]
<1>1. /\ w \in Nat \ {0} /\ k \in Nat \ {0} /\ p \in 0 .. w-1 /\ p \in Nat /\ p < w
      /\ 0 \in Byte /\ 1 \in Byte
  BY DEF Byte
<1>2. \A r \in 0 .. k-1, c \in 0 .. w-1 : Elem(a, r, c) \in Byte
  BY <1>1, MatrixHas
<1>3. \A c \in 0 .. w-1 : u[c] = IF c < p THEN Elem(a, c, p) ELSE IF c = p THEN 1 ELSE 0
  OBVIOUS
<1>4. \A c \in 0 .. w-1 : c < p => c \in 0 .. k-1
  OBVIOUS
<1>5. u[p] = 1 /\ \A c \in 0 .. k-1 : u[k + c] = 0
  <2>1. \A c \in 0 .. k-1 : k + c \in 0 .. w-1 /\ ~ (k + c < p) /\ k + c # p
    OBVIOUS
  <2>2. QED
    BY <1>1, <1>3, <2>1
<1> HIDE DEF u, w
<1>6. Bytes(u, w)
  BY <1>1, <1>2, <1>3, <1>4 DEF Bytes
<1>7. ASSUME NEW r \in 0 .. k-1 PROVE Dot(a, r, u, w) = 0
  <2> DEFINE h == Products(a, r, u, w)
             f == [c \in 0 .. w-1 |-> IF c < p THEN h[c] ELSE 0]
             g == [c \in 0 .. w-1 |-> IF c = p THEN h[c] ELSE 0]
             x == Elem(a, r, p)
  <2>1. \A c \in 0 .. w-1 : h[c] = Mul(Elem(a, r, c), u[c])
    BY DEF Products
  <2>2. \A c \in 0 .. w-1 : /\ f[c] = IF c < p THEN h[c] ELSE 0
                            /\ g[c] = IF c = p THEN h[c] ELSE 0
    OBVIOUS
  <2>3. Bytes(h, w)
    <3>1. RowOfBytes(a, r, w)
      BY <1>2 DEF RowOfBytes
    <3>2. QED
      BY <1>1, <1>6, <3>1, DotIsByte
  <2>4. Dot(a, r, u, w) = SumOf(h, w)
    BY DEF Dot
  <2>5. x \in Byte /\ (r >= p => x = 0) /\ r \in Nat /\ r < w /\ r \in 0 .. w-1
    <3>1. x \in Byte
      BY <1>1, <1>2
    <3>2. ASSUME r >= p, x # 0 PROVE FALSE
      <4>1. r \in Usable(a, k, p)
        BY <3>2 DEF Usable
      <4>2. QED
        BY <4>1
    <3>3. QED
      BY <3>1, <3>2 DEF w
  <2>6. \A c \in 0 .. w-1 : c < p => Elem(a, r, c) = IF r = c THEN 1 ELSE 0
    <3>1. \A c \in 0 .. w-1 : c < p => c \in 0 .. p-1
      BY <1>1
    <3>2. QED
      BY <3>1 DEF Unit
  <2> HIDE DEF h, f, g, x
  <2>7. \A c \in 0 .. w-1 : h[c] \in Byte
    BY <2>3 DEF Bytes
  <2>8. Bytes(f, w) /\ Bytes(g, w)
    BY <1>1, <2>2, <2>7 DEF Bytes
  <2>9. \A c \in 0 .. w-1 : h[c] = Add(f[c], g[c])
    <3> TAKE c \in 0 .. w-1
    <3>1. c < p => c # p
      BY <1>1
    <3>2. CASE c < p
      BY <2>2, <2>7, <3>1, <3>2, AddZero
    <3>3. CASE c = p
      BY <1>1, <2>2, <2>7, <3>1, <3>3, AddZero
    <3>4. CASE ~ (c < p) /\ c # p
      <4>1. h[c] = 0
        BY <1>3, <2>1, <3>4, MulZero
      <4>2. QED
        BY <1>1, <2>2, <3>4, <4>1, AddZero
    <3>5. QED
      BY <3>2, <3>3, <3>4
  <2>10. SumOf(g, w) = x
    <3>1. g[p] = x
      BY <1>1, <1>5, <2>1, <2>2, <2>5, MulOne DEF x
    <3>2. \A c \in 0 .. w-1 : c # p => g[c] = 0
      BY <2>2
    <3>3. QED
      BY <1>1, <2>5, <3>1, <3>2, SumOfOne
  <2>11. SumOf(f, w) = IF r < p THEN x ELSE 0
    <3>1. f[r] = IF r < p THEN x ELSE 0
      <4>1. r < p => h[r] = Mul(1, Elem(a, r, p))
        BY <1>3, <2>1, <2>5, <2>6
      <4>2. QED
        BY <2>2, <2>5, <4>1, MulOne DEF x
    <3>2. \A c \in 0 .. w-1 : c # r => f[c] = 0
      <4> SUFFICES ASSUME NEW c \in 0 .. w-1, c # r PROVE f[c] = 0
        OBVIOUS
      <4>1. c < p => h[c] = 0
        BY <2>1, <2>6, MulZero
      <4>2. QED
        BY <2>2, <4>1
    <3>3. f[r] \in Byte
      BY <2>5, <2>8 DEF Bytes
    <3>4. SumOf(f, w) = IF r < w THEN f[r] ELSE 0
      BY <1>1, <2>5, <3>2, <3>3, SumOfOne
    <3>5. QED
      BY <2>5, <3>1, <3>4
  <2>12. SumOf(h, w) = Add(SumOf(f, w), SumOf(g, w))
    BY <1>1, <2>8, <2>9, SumAdds
  <2>13. CASE r < p
    BY <2>4, <2>5, <2>10, <2>11, <2>12, <2>13, AddSelf
  <2>14. CASE ~ (r < p)
    <3>1. x = 0
      BY <1>1, <2>5, <2>14
    <3>2. QED
      BY <1>1, <2>4, <2>10, <2>11, <2>12, <2>14, <3>1, AddZero
  <2>15. QED
    BY <2>13, <2>14
<1>8. Solves(a, k, u)
  BY <1>7 DEF Solves, w
<1>9. QED
  BY <1>5, <1>6, <1>8 DEF w

\* Only the zeros are mapped to zeros.
Injective(m, k) ==
  \A v : (Bytes(v, k) /\ \A r \in 0 .. k-1 : Dot(m, r, v, k) = 0) => \A c \in 0 .. k-1 : v[c] = 0

LEMMA InverseExists ==
  ASSUME NEW k \in Nat \ {0}, NEW m, Square(m, k), Injective(m, k)
  PROVE  InverseMatrix(m, k) # Null
<1>1. PICK f : /\ After(f, m, k)
               /\ InverseMatrix(m, k) = IF f[k] = Null THEN Null ELSE Right(f[k], k)
  BY AfterIs DEF Right
<1>2. \A p \in 0 .. k : Kept(f[p], m, k, p)
  BY <1>1, AllKept
<1> DEFINE S == { p \in Nat : p <= k => f[p] # Null }
<1>3. 0 \in S
  <2>1. f[0] \in Matrices(k, 2*k) /\ 2 * k \in Nat \ {0}
    BY <1>1, ExtendedIs DEF After
  <2>2. QED
    BY <2>1, MatrixHas
<1>4. ASSUME NEW p \in Nat, p \in S PROVE p + 1 \in S
  <2> SUFFICES ASSUME p + 1 <= k PROVE f[p + 1] # Null
    OBVIOUS
  <2>1. p \in 0 .. k-1 /\ p \in 0 .. k /\ f[p] # Null
    BY <1>4
  <2>2. /\ f[p] \in Matrices(k, 2*k) /\ Unit(f[p], k, p)
        /\ \A u : Bytes(u, 2*k) => (Solves(f[p], k, u) <=> Solves(Extended(m, k), k, u))
    BY <1>2, <2>1 DEF Kept
  <2>3. f[p + 1] = Eliminate(f[p], k, p)
    <3>1. p + 1 \in 1 .. k /\ (p + 1) - 1 = p
      BY <2>1
    <3>2. QED
      BY <1>1, <3>1 DEF After
  <2>4. Usable(f[p], k, p) # {}
    <3> SUFFICES ASSUME Usable(f[p], k, p) = {} PROVE FALSE
      OBVIOUS
    <3>1. PICK u : /\ Bytes(u, 2*k) /\ Solves(f[p], k, u) /\ u[p] = 1
                   /\ \A c \in 0 .. k-1 : u[k + c] = 0
      BY <2>1, <2>2, ZeroColumn
    <3>2. Bytes(u, k)
      BY <3>1 DEF Bytes
    <3>3. \A r \in 0 .. k-1 : Dot(m, r, u, k) = 0
      <4> TAKE r \in 0 .. k-1
      <4>1. Dot(Extended(m, k), r, u, 2*k) = 0
        BY <2>2, <3>1 DEF Solves
      <4>2. Dot(Extended(m, k), r, u, 2*k) = Add(Dot(m, r, u, k), u[k + r])
        BY <3>1, ExtendedDot
      <4>3. RowOfBytes(m, r, k)
        BY DEF RowOfBytes, Square
      <4>4. Dot(m, r, u, k) \in Byte
        BY <3>2, <4>3, DotIsByte
      <4>5. QED
        BY <3>1, <4>1, <4>2, <4>4, AddZero
    <3>4. u[p] = 0
      BY <2>1, <3>2, <3>3 DEF Injective
    <3>5. QED
      BY <3>1, <3>4
  <2>5. Eliminate(f[p], k, p) \in Matrices(k, 2*k) /\ 2 * k \in Nat \ {0}
    BY <2>1, <2>2, <2>4, Eliminated
  <2>6. QED
    BY <2>3, <2>5, MatrixHas
<1> HIDE DEF S
<1>5. f[k] # Null
  <2>1. Nat \subseteq S
    BY <1>3, <1>4, NatSetInduction
  <2>2. QED
    BY <2>1 DEF S
<1>6. f[k] \in Matrices(k, 2*k)
  <2>1. Kept(f[k], m, k, k)
    BY <1>2
  <2>2. QED
    BY <1>5, <2>1 DEF Kept
<1>7. Right(f[k], k) # Null
  BY <1>6, RightIs, MatrixHas
<1>8. QED
  BY <1>1, <1>5, <1>7

-----------------------------------------------------------------------------
(* The matrix of the code.                                                 *)

\* A row of the Vandermonde matrix times v is the value of the polynomial v at the
\* number of the row.
LEMMA VandermondeIs ==
  ASSUME NEW n \in Byte \ {0}, NEW k \in Nat \ {0}
  PROVE  /\ Vandermonde(n, k) \in Matrices(n, k)
         /\ \A r \in 0 .. n-1, c \in 0 .. k-1 :
              Elem(Vandermonde(n, k), r, c) = Exp(r, c) /\ Exp(r, c) \in Byte
<1> DEFINE elem == [r \in 0 .. n-1 |-> [c \in 0 .. k-1 |-> Exp(r, c)]]
<1>1. n \in Nat \ {0} /\ 0 .. n-1 \subseteq Byte /\ 0 .. k-1 \subseteq Nat
  BY DEF Byte
<1>2. \A r \in 0 .. n-1, c \in 0 .. k-1 : Exp(r, c) \in Byte
  BY <1>1, ExpRepeatsMul
<1>3. \A r \in 0 .. n-1, c \in 0 .. k-1 : elem[r][c] = Exp(r, c)
  OBVIOUS
<1>4. Vandermonde(n, k) = Matrix(n, k, elem)
  BY DEF Vandermonde
<1> HIDE DEF elem
<1>5. \A r \in 0 .. n-1, c \in 0 .. k-1 : elem[r][c] \in Byte
  BY <1>2, <1>3
<1>6. /\ Matrix(n, k, elem) \in Matrices(n, k)
      /\ \A r \in 0 .. n-1, c \in 0 .. k-1 : Elem(Matrix(n, k, elem), r, c) = elem[r][c]
  BY <1>1, <1>5, MatrixIs
<1>7. QED
  BY <1>2, <1>3, <1>4, <1>6

LEMMA VandermondeDot ==
  ASSUME NEW n \in Byte \ {0}, NEW k \in Nat \ {0}, NEW r \in 0 .. n-1, NEW v, Bytes(v, k)
  PROVE  /\ RowOfBytes(Vandermonde(n, k), r, k)
         /\ Dot(Vandermonde(n, k), r, v, k) = Poly(v, r, k)
<1>1. \A c \in 0 .. k-1 : Elem(Vandermonde(n, k), r, c) = Exp(r, c) /\ Exp(r, c) \in Byte
  BY VandermondeIs
<1>2. \A c \in 0 .. k-1 : Products(Vandermonde(n, k), r, v, k)[c] = Terms(v, r, k)[c]
  BY <1>1 DEF Products, Terms
<1>3. r \in Byte /\ k \in Nat
  BY DEF Byte
<1>4. Bytes(Terms(v, r, k), k)
  BY <1>3, TermsAreBytes
<1>5. Dot(Vandermonde(n, k), r, v, k) = Poly(v, r, k)
  BY <1>2, <1>3, <1>4, SumSame DEF Dot, Poly
<1>6. QED
  BY <1>1, <1>5 DEF RowOfBytes

\* X chooses k of n rows.
Chosen(X, k, n) == /\ \A i \in 0 .. k-1 : X[i] \in 0 .. n-1
                   /\ \A i, j \in 0 .. k-1 : i # j => X[i] # X[j]

\* A polynomial that is 0 at k places is 0.
LEMMA ChosenRoots ==
  ASSUME NEW n \in Byte \ {0}, NEW k \in Nat \ {0}, NEW X, Chosen(X, k, n), NEW v, Bytes(v, k),
         \A i \in 0 .. k-1 : Poly(v, X[i], k) = 0
  PROVE  \A c \in 0 .. k-1 : v[c] = 0
<1>1. 0 .. n-1 \subseteq Byte
  BY DEF Byte
<1>2. Bytes(X, k)
  BY <1>1 DEF Chosen, Bytes
<1>3. Rooted(v, X, k)
  BY <1>2 DEF Chosen, Rooted
<1>4. k \in Nat
  OBVIOUS
<1>5. QED
  BY <1>3, <1>4, FewRoots

\* The first k rows of the Vandermonde matrix have an inverse, as build_matrix asserts.
LEMMA VandermondeInverts ==
  ASSUME NEW n \in Byte \ {0}, NEW k \in Nat \ {0}, k < n
  PROVE  Square(Vandermonde(n, k), k) /\ InverseMatrix(Vandermonde(n, k), k) # Null
<1> DEFINE V == Vandermonde(n, k)
           X == [i \in 0 .. k-1 |-> i]
<1>1. 0 .. k-1 \subseteq 0 .. n-1
  BY DEF Byte
<1>2. Square(V, k)
  BY <1>1, VandermondeIs DEF Square
<1>3. ASSUME NEW v, Bytes(v, k), \A r \in 0 .. k-1 : Dot(V, r, v, k) = 0
      PROVE  \A c \in 0 .. k-1 : v[c] = 0
  <2>1. \A i \in 0 .. k-1 : X[i] = i
    OBVIOUS
  <2>2. Chosen(X, k, n)
    BY <1>1, <2>1 DEF Chosen
  <2>3. \A i \in 0 .. k-1 : Dot(V, i, v, k) = Poly(v, i, k)
    BY <1>1, <1>3, VandermondeDot
  <2> HIDE DEF X, V
  <2>4. \A i \in 0 .. k-1 : Poly(v, X[i], k) = 0
    BY <1>3, <2>1, <2>3
  <2>5. QED
    BY <1>3, <2>2, <2>4, ChosenRoots
<1> HIDE DEF V
<1>4. Injective(V, k)
  BY <1>3 DEF Injective
<1>5. InverseMatrix(V, k) # Null
  BY <1>2, <1>4, InverseExists
<1>6. QED
  BY <1>2, <1>5 DEF V

\* The elements of a product.
LEMMA ProductIs ==
  ASSUME NEW n \in Nat \ {0}, NEW k \in Nat \ {0},
         NEW a \in Matrices(n, k), NEW b \in Matrices(k, k)
  PROVE  /\ Product(a, b, n, k) \in Matrices(n, k)
         /\ \A r \in 0 .. n-1, c \in 0 .. k-1 :
              Elem(Product(a, b, n, k), r, c) =
                SumOf([j \in 0 .. k-1 |-> Mul(Elem(a, r, j), Elem(b, j, c))], k)
<1> DEFINE f(r, c) == [j \in 0 .. k-1 |-> Mul(Elem(a, r, j), Elem(b, j, c))]
           elem == [r \in 0 .. n-1 |-> [c \in 0 .. k-1 |-> SumOf(f(r, c), k)]]
<1>1. /\ \A r \in 0 .. n-1, j \in 0 .. k-1 : Elem(a, r, j) \in Byte
      /\ \A j, c \in 0 .. k-1 : Elem(b, j, c) \in Byte
  BY MatrixHas
<1>2. \A r \in 0 .. n-1, c \in 0 .. k-1 : Bytes(f(r, c), k)
  BY <1>1, MulClosed DEF Bytes
<1>3. Product(a, b, n, k) = Matrix(n, k, elem)
  BY DEF Product
<1>4. \A r \in 0 .. n-1, c \in 0 .. k-1 : elem[r][c] = SumOf(f(r, c), k)
  OBVIOUS
<1> HIDE DEF f, elem
<1>5. \A r \in 0 .. n-1, c \in 0 .. k-1 : elem[r][c] \in Byte
  BY <1>2, <1>4, SumByte
<1>6. /\ Matrix(n, k, elem) \in Matrices(n, k)
      /\ \A r \in 0 .. n-1, c \in 0 .. k-1 : Elem(Matrix(n, k, elem), r, c) = elem[r][c]
  BY <1>5, MatrixIs
<1>7. QED
  BY <1>3, <1>4, <1>6 DEF f

\* A product times a vector.
LEMMA ProductDot ==
  ASSUME NEW n \in Nat \ {0}, NEW k \in Nat \ {0},
         NEW a \in Matrices(n, k), NEW b \in Matrices(k, k),
         NEW r \in 0 .. n-1, NEW v, Bytes(v, k), NEW w, \A j \in 0 .. k-1 : w[j] = Dot(b, j, v, k)
  PROVE  Bytes(w, k) /\ Dot(Product(a, b, n, k), r, v, k) = Dot(a, r, w, k)
<1> DEFINE p == Product(a, b, n, k)
           F == [c \in 0 .. k-1 |-> [j \in 0 .. k-1 |->
                   Mul(Mul(Elem(a, r, j), Elem(b, j, c)), v[c])]]
           G == [j \in 0 .. k-1 |-> [c \in 0 .. k-1 |-> F[c][j]]]
           f == Products(p, r, v, k)
           g == Products(a, r, w, k)
<1>1. /\ \A j \in 0 .. k-1 : Elem(a, r, j) \in Byte
      /\ \A j, c \in 0 .. k-1 : Elem(b, j, c) \in Byte
      /\ \A c \in 0 .. k-1 : v[c] \in Byte
  BY MatrixHas DEF Bytes
<1>2. Bytes(w, k)
  <2>1. ASSUME NEW j \in 0 .. k-1 PROVE Dot(b, j, v, k) \in Byte
    <3>1. RowOfBytes(b, j, k)
      BY <1>1 DEF RowOfBytes
    <3>2. QED
      BY <3>1, DotIsByte
  <2>2. QED
    BY <2>1 DEF Bytes
<1>3. \A c, j \in 0 .. k-1 : F[c][j] = Mul(Mul(Elem(a, r, j), Elem(b, j, c)), v[c])
  OBVIOUS
<1>4. \A c, j \in 0 .. k-1 : G[j][c] = F[c][j]
  OBVIOUS
<1> HIDE DEF F, G
<1>5. \A c, j \in 0 .. k-1 : F[c][j] \in Byte
  <2> TAKE c, j \in 0 .. k-1
  <2>1. Mul(Elem(a, r, j), Elem(b, j, c)) \in Byte
    BY <1>1, MulClosed
  <2>2. Mul(Mul(Elem(a, r, j), Elem(b, j, c)), v[c]) \in Byte
    BY <1>1, <2>1, MulClosed
  <2>3. QED
    BY <1>3, <2>2
<1>6. ASSUME NEW c \in 0 .. k-1
      PROVE  f[c] = SumOf(F[c], k)
  <2> DEFINE t == [j \in 0 .. k-1 |-> Mul(Elem(a, r, j), Elem(b, j, c))]
             h == F[c]
             x == v[c]
  <2>1. f[c] = Mul(SumOf(t, k), x)
    <3>1. f[c] = Mul(Elem(p, r, c), x)
      BY DEF Products
    <3>2. Elem(p, r, c) = SumOf(t, k)
      BY ProductIs
    <3>3. QED
      BY <3>1, <3>2
  <2>2. x \in Byte /\ Bytes(t, k)
    BY <1>1, MulClosed DEF Bytes
  <2>3. \A j \in 0 .. k-1 : h[j] = Mul(x, t[j])
    <3> TAKE j \in 0 .. k-1
    <3>1. h[j] = Mul(t[j], x)
      BY <1>3
    <3>2. t[j] \in Byte
      BY <2>2 DEF Bytes
    <3> HIDE DEF t, h, x
    <3>3. QED
      BY <2>2, <3>1, <3>2, MulCommutes
  <2> HIDE DEF t, h, x
  <2>4. SumOf(h, k) = Mul(x, SumOf(t, k))
    BY <2>2, <2>3, SumScales
  <2>5. SumOf(t, k) \in Byte
    BY <2>2, SumByte
  <2>6. f[c] = SumOf(h, k)
    BY <2>1, <2>2, <2>4, <2>5, MulCommutes
  <2>7. QED
    BY <2>6 DEF h
<1>7. ASSUME NEW j \in 0 .. k-1
      PROVE  g[j] = SumOf(G[j], k)
  <2> DEFINE t == Products(b, j, v, k)
             h == G[j]
             x == Elem(a, r, j)
  <2>1. g[j] = Mul(x, SumOf(t, k))
    BY DEF Products, Dot
  <2>2. x \in Byte /\ Bytes(t, k)
    BY <1>1, MulClosed DEF Bytes, Products
  <2>3. \A c \in 0 .. k-1 : h[c] = Mul(x, t[c])
    <3> TAKE c \in 0 .. k-1
    <3>1. h[c] = Mul(Mul(x, Elem(b, j, c)), v[c]) /\ t[c] = Mul(Elem(b, j, c), v[c])
      BY <1>3, <1>4 DEF Products
    <3>2. Elem(b, j, c) \in Byte /\ v[c] \in Byte
      BY <1>1
    <3> HIDE DEF t, h, x
    <3>3. QED
      BY <2>2, <3>1, <3>2, MulAssociates
  <2> HIDE DEF t, h, x
  <2>4. SumOf(h, k) = Mul(x, SumOf(t, k))
    BY <2>2, <2>3, SumScales
  <2>5. QED
    BY <2>1, <2>4 DEF h
<1> HIDE DEF f, g, p
<1>8. SumOf(f, k) = SumOf(g, k)
  <2>1. SumsOfTable(F, G, f, g, k, k)
    BY <1>5, <1>6, <1>7, <1>4 DEF SumsOfTable
  <2>2. k \in Nat
    OBVIOUS
  <2>3. QED
    BY <2>1, <2>2, SumExchanges
<1>9. QED
  BY <1>2, <1>8 DEF f, g, p, Dot

\* What the rows of the coding matrix give for the data v are the values of one
\* polynomial, which at the first k places are the data.
Polynomial(n, k, v, w) ==
  /\ Bytes(w, k)
  /\ \A r \in 0 .. n-1 : Dot(BuildMatrix(n, k), r, v, k) = Poly(w, r, k)
  /\ \A r \in 0 .. k-1 : Poly(w, r, k) = v[r]

LEMMA CodeIs ==
  ASSUME NEW n \in Byte \ {0}, NEW k \in Nat \ {0}, k < n
  PROVE  /\ BuildMatrix(n, k) \in Matrices(n, k)
         /\ \A v : Bytes(v, k) => \E w : Polynomial(n, k, v, w)
<1> DEFINE V == Vandermonde(n, k)
           W == InverseMatrix(V, k)
<1>1. n \in Nat \ {0} /\ 0 .. k-1 \subseteq 0 .. n-1
  BY DEF Byte
<1>2. V \in Matrices(n, k)
  BY VandermondeIs
<1>3. Square(V, k) /\ W # Null
  BY VandermondeInverts
<1>4. BuildMatrix(n, k) = Product(V, W, n, k)
  BY DEF BuildMatrix
<1>5. ASSUME NEW v, NEW w, Bytes(v, k), Bytes(w, k), \A r \in 0 .. k-1 : Dot(W, r, v, k) = w[r]
      PROVE  \A r \in 0 .. k-1 : Dot(V, r, w, k) = v[r]
  <2> HIDE DEF V
  <2>1. \A x, y : Bytes(x, k) /\ Bytes(y, k) =>
              ((\A r \in 0 .. k-1 : Dot(V, r, x, k) = y[r])
                <=> (\A r \in 0 .. k-1 : Dot(InverseMatrix(V, k), r, y, k) = x[r]))
    BY <1>3, InverseSolves
  <2>2. QED
    BY <1>5, <2>1
<1>6. W \in Matrices(k, k)
  <2> HIDE DEF V
  <2>1. QED
    BY <1>3, InverseSolves
<1>7. \A r \in 0 .. n-1 : \A u : Bytes(u, k) => Dot(V, r, u, k) = Poly(u, r, k)
  BY VandermondeDot
<1> HIDE DEF V, W
<1>8. BuildMatrix(n, k) \in Matrices(n, k)
  BY <1>1, <1>2, <1>4, <1>6, ProductIs
<1>9. ASSUME NEW v, Bytes(v, k)
      PROVE  \E w : Polynomial(n, k, v, w)
  <2> DEFINE w == [j \in 0 .. k-1 |-> Dot(W, j, v, k)]
  <2>1. \A j \in 0 .. k-1 : w[j] = Dot(W, j, v, k)
    OBVIOUS
  <2> HIDE DEF w
  <2>2. ASSUME NEW r \in 0 .. n-1
        PROVE  Bytes(w, k) /\ Dot(Product(V, W, n, k), r, v, k) = Dot(V, r, w, k)
    BY <1>1, <1>2, <1>6, <1>9, <2>1, ProductDot
  <2>3. Bytes(w, k)
    <3>1. 0 \in 0 .. n-1
      BY <1>1
    <3>2. QED
      BY <2>2, <3>1
  <2>4. \A r \in 0 .. n-1 : Dot(BuildMatrix(n, k), r, v, k) = Poly(w, r, k)
    BY <1>4, <1>7, <2>2, <2>3
  <2>5. \A r \in 0 .. k-1 : Dot(V, r, w, k) = v[r]
    BY <1>5, <1>9, <2>1, <2>3
  <2>6. \A r \in 0 .. k-1 : Poly(w, r, k) = v[r]
    BY <1>1, <1>7, <2>3, <2>5
  <2>7. Polynomial(n, k, v, w)
    BY <2>3, <2>4, <2>6 DEF Polynomial
  <2>8. QED
    BY <2>7
<1>10. QED
  BY <1>8, <1>9

\* The code is systematic: its first k rows copy the data.
LEMMA CodeCopies ==
  ASSUME NEW n \in Byte \ {0}, NEW k \in Nat \ {0}, k < n, NEW v, Bytes(v, k), NEW r \in 0 .. k-1
  PROVE  Dot(BuildMatrix(n, k), r, v, k) = v[r]
<1>1. r \in 0 .. n-1
  BY DEF Byte
<1>2. PICK w : Polynomial(n, k, v, w)
  BY CodeIs
<1>3. QED
  BY <1>1, <1>2 DEF Polynomial

\* Any k rows of the coding matrix, in any order, have an inverse.
LEMMA RowsInvert ==
  ASSUME NEW n \in Byte \ {0}, NEW k \in Nat \ {0}, k < n, NEW X, Chosen(X, k, n),
         NEW a, \A i, c \in 0 .. k-1 : Elem(a, i, c) = Elem(BuildMatrix(n, k), X[i], c)
  PROVE  Square(a, k) /\ InverseMatrix(a, k) # Null
<1> DEFINE C == BuildMatrix(n, k)
<1>1. n \in Nat \ {0} /\ 0 .. k-1 \subseteq 0 .. n-1
  BY DEF Byte
<1>2. C \in Matrices(n, k)
  BY CodeIs
<1>3. \A r \in 0 .. n-1, c \in 0 .. k-1 : Elem(C, r, c) \in Byte
  BY <1>1, <1>2, MatrixHas
<1>4. \A i \in 0 .. k-1 : X[i] \in 0 .. n-1
  BY DEF Chosen
<1>5. Square(a, k)
  BY <1>3, <1>4 DEF Square
<1>6. ASSUME NEW v, Bytes(v, k), \A r \in 0 .. k-1 : Dot(a, r, v, k) = 0
      PROVE  \A c \in 0 .. k-1 : v[c] = 0
  <2>1. PICK w : Polynomial(n, k, v, w)
    BY <1>6, CodeIs
  <2>2. ASSUME NEW i \in 0 .. k-1 PROVE Poly(w, X[i], k) = 0
    <3> DEFINE x == X[i]
    <3>1. x \in 0 .. n-1 /\ \A c \in 0 .. k-1 : Elem(a, i, c) = Elem(C, x, c)
      BY <1>4
    <3> HIDE DEF x, C
    <3>2. RowOfBytes(C, x, k)
      BY <1>3, <3>1 DEF RowOfBytes
    <3>3. Dot(a, i, v, k) = Dot(C, x, v, k)
      BY <1>6, <3>1, <3>2, SameDot
    <3>4. Dot(C, x, v, k) = Poly(w, x, k)
      BY <2>1, <3>1 DEF Polynomial, C
    <3>5. QED
      BY <1>6, <3>3, <3>4 DEF x
  <2>3. Bytes(w, k)
    BY <2>1 DEF Polynomial
  <2>4. \A c \in 0 .. k-1 : w[c] = 0
    BY <2>2, <2>3, ChosenRoots
  <2>5. ASSUME NEW c \in 0 .. k-1 PROVE v[c] = 0
    <3>1. c \in 0 .. n-1 /\ v[c] = Poly(w, c, k)
      BY <1>1, <2>1 DEF Polynomial
    <3>2. Poly(w, c, k) = Dot(Vandermonde(n, k), c, w, k)
      BY <2>3, <3>1, VandermondeDot
    <3>3. Dot(Vandermonde(n, k), c, w, k) = 0
      BY <2>4, DotOfZero
    <3>4. QED
      BY <3>1, <3>2, <3>3
  <2>6. QED
    BY <2>5
<1>7. Injective(a, k)
  BY <1>6 DEF Injective
<1>8. QED
  BY <1>5, <1>7, InverseExists

-----------------------------------------------------------------------------
(* The numbers of the elements of a set.                                   *)

Numbers(S) == S \in SUBSET Nat /\ IsFiniteSet(S)
Below(S, s) == { t \in S : t < s }

LEMMA NumbersBelow ==
  ASSUME NEW n \in Nat, NEW S \in SUBSET (0 .. n-1)
  PROVE  Numbers(S)
<1>1. IsFiniteSet(0 .. n-1)
  BY FS_Interval
<1>2. IsFiniteSet(S)
  BY <1>1, FS_Subset
<1>3. 0 .. n-1 \subseteq Nat
  OBVIOUS
<1>4. QED
  BY <1>2, <1>3 DEF Numbers

LEMMA RankIs ==
  ASSUME NEW S, Numbers(S)
  PROVE  /\ Cardinality(S) \in Nat
         /\ \A s \in Nat : Rank(S, s) \in Nat /\ Rank(S, s) <= s
         /\ \A s \in S : s \in Nat /\ Rank(S, s) < Cardinality(S)
         /\ \A s, t \in S : s < t => Rank(S, s) < Rank(S, t)
<1>1. S \in SUBSET Nat /\ IsFiniteSet(S) /\ Cardinality(S) \in Nat
  BY FS_CardinalityType DEF Numbers
<1>2. ASSUME NEW s \in Nat
      PROVE  /\ IsFiniteSet(Below(S, s)) /\ Cardinality(Below(S, s)) \in Nat
             /\ Cardinality(Below(S, s)) <= s
  <2>1. Below(S, s) \in SUBSET (0 .. s-1)
    <3>1. \A t \in Below(S, s) : t \in Nat /\ t < s
      BY <1>1 DEF Below
    <3>2. QED
      BY <3>1
  <2>2. IsFiniteSet(0 .. s-1) /\ Cardinality(0 .. s-1) = s
    BY FS_Interval
  <2>3. IsFiniteSet(Below(S, s)) /\ Cardinality(Below(S, s)) <= Cardinality(0 .. s-1)
    BY <2>1, <2>2, FS_Subset
  <2>4. Cardinality(Below(S, s)) \in Nat
    BY <2>3, FS_CardinalityType
  <2>5. QED
    BY <2>2, <2>3, <2>4
<1>3. ASSUME NEW s \in S, NEW U, IsFiniteSet(U), Below(S, s) \subseteq U, s \in U
      PROVE  Cardinality(Below(S, s)) < Cardinality(U)
  <2>1. s \in Nat /\ s \notin Below(S, s)
    BY <1>1 DEF Below
  <2>2. Cardinality(Below(S, s) \cup {s}) = Cardinality(Below(S, s)) + 1
    BY <1>2, <2>1, FS_AddElement
  <2>3. Cardinality(Below(S, s) \cup {s}) <= Cardinality(U)
    BY <1>3, FS_Subset
  <2>4. Cardinality(Below(S, s)) \in Nat /\ Cardinality(U) \in Nat
    BY <1>2, <1>3, <2>1, FS_CardinalityType
  <2>5. QED
    BY <2>2, <2>3, <2>4
<1>4. ASSUME NEW s \in S PROVE s \in Nat /\ Cardinality(Below(S, s)) < Cardinality(S)
  <2>1. Below(S, s) \subseteq S
    BY DEF Below
  <2>2. QED
    BY <1>1, <1>3, <2>1
<1>5. ASSUME NEW s \in S, NEW t \in S, s < t
      PROVE  Cardinality(Below(S, s)) < Cardinality(Below(S, t))
  <2>1. s \in Nat /\ t \in Nat /\ \A u \in S : u \in Nat
    BY <1>1
  <2>2. s \in Below(S, t)
    BY <1>5 DEF Below
  <2>3. ASSUME NEW u \in Below(S, s) PROVE u \in Below(S, t)
    <3>1. u \in S /\ u \in Nat /\ u < s
      BY <2>1 DEF Below
    <3>2. u < t
      BY <1>5, <2>1, <3>1
    <3>3. QED
      BY <3>1, <3>2 DEF Below
  <2>4. QED
    BY <1>2, <1>3, <2>1, <2>2, <2>3
<1>6. \A s : Rank(S, s) = Cardinality(Below(S, s))
  BY DEF Rank, Below
<1>7. QED
  BY <1>1, <1>2, <1>4, <1>5, <1>6

\* The elements of a set have the numbers from 0, each one once.
LEMMA RankCounts ==
  ASSUME NEW S, Numbers(S)
  PROVE  /\ \A s, t \in S : Rank(S, s) = Rank(S, t) => s = t
         /\ \A i \in 0 .. Cardinality(S)-1 : \E s \in S : Rank(S, s) = i
<1> DEFINE n == Cardinality(S)
           T == 0 .. n-1
           f == [s \in S |-> Rank(S, s)]
<1>1. n \in Nat /\ IsFiniteSet(S)
  BY RankIs DEF Numbers
<1>2. \A s \in S : Rank(S, s) \in T
  BY RankIs
<1>3. \A s, t \in S : Rank(S, s) = Rank(S, t) => s = t
  <2> SUFFICES ASSUME NEW s \in S, NEW t \in S, Rank(S, s) = Rank(S, t) PROVE s = t
    OBVIOUS
  <2>1. s \in Nat /\ t \in Nat /\ Rank(S, s) \in Nat /\ Rank(S, t) \in Nat
    BY RankIs
  <2>2. ~ (s < t) /\ ~ (t < s)
    BY <2>1, RankIs
  <2>3. QED
    BY <2>1, <2>2
<1>4. f \in Injection(S, T)
  BY <1>2, <1>3 DEF Injection, IsInjective
<1>5. IsFiniteSet(T) /\ Cardinality(T) = n
  BY <1>1, FS_Interval
<1>6. f \in Surjection(S, T)
  <2> HIDE DEF f, T
  <2>1. QED
    BY <1>4, <1>5, FS_Injection
<1>7. \A i \in T : \E s \in S : f[s] = i
  BY <1>6 DEF Surjection
<1>8. QED
  BY <1>3, <1>7

LEMMA IthIs ==
  ASSUME NEW S, Numbers(S)
  PROVE  /\ \A i \in 0 .. Cardinality(S)-1 : Ith(S, i) \in S /\ Rank(S, Ith(S, i)) = i
         /\ \A s \in S : Ith(S, Rank(S, s)) = s
<1>1. \A i : Ith(S, i) = CHOOSE s \in S : Rank(S, s) = i
  BY DEF Ith, Rank
<1>2. ASSUME NEW i, \E s \in S : Rank(S, s) = i
      PROVE  Ith(S, i) \in S /\ Rank(S, Ith(S, i)) = i
  BY <1>1, <1>2
<1>3. \A i \in 0 .. Cardinality(S)-1 : Ith(S, i) \in S /\ Rank(S, Ith(S, i)) = i
  BY <1>2, RankCounts
<1>4. ASSUME NEW s \in S PROVE Ith(S, Rank(S, s)) = s
  <2>1. Ith(S, Rank(S, s)) \in S /\ Rank(S, Ith(S, Rank(S, s))) = Rank(S, s)
    BY <1>2
  <2>2. QED
    BY <2>1, RankCounts
<1>5. QED
  BY <1>3, <1>4

\* The first k elements of a set are k elements.
First(S, k) == { s \in S : Rank(S, s) < k }

LEMMA FirstIs ==
  ASSUME NEW S, Numbers(S), NEW k \in Nat, k <= Cardinality(S)
  PROVE  Numbers(First(S, k)) /\ First(S, k) \subseteq S /\ Cardinality(First(S, k)) = k
<1> DEFINE U == First(S, k)
           T == 0 .. k-1
           f == [s \in U |-> Rank(S, s)]
<1>1. U \subseteq S
  BY DEF First
<1>2. Numbers(U)
  BY <1>1, FS_Subset DEF Numbers
<1>3. \A s \in U : Rank(S, s) \in T
  BY RankIs DEF First
<1>4. f \in Injection(U, T)
  BY <1>1, <1>3, RankCounts DEF Injection, IsInjective
<1>5. \A i \in T : \E s \in U : f[s] = i
  <2> TAKE i \in T
  <2>1. i \in 0 .. Cardinality(S)-1 /\ i < k
    BY RankIs
  <2>2. PICK s \in S : Rank(S, s) = i
    BY <2>1, RankCounts
  <2>3. s \in U
    BY <2>1, <2>2 DEF First
  <2>4. QED
    BY <2>2, <2>3
<1>6. f \in Surjection(U, T)
  BY <1>3, <1>5 DEF Surjection
<1>7. IsFiniteSet(T) /\ Cardinality(T) = k
  BY FS_Interval
<1>8. Cardinality(U) = Cardinality(T)
  <2> HIDE DEF f, T, U
  <2>1. QED
    BY <1>4, <1>6, <1>7, FS_Injection
<1>9. QED
  BY <1>1, <1>2, <1>7, <1>8

\* A choice of k of the numbers below n.
LEMMA IthChoose ==
  ASSUME NEW n \in Nat, NEW S \in SUBSET (0 .. n-1), NEW X,
         \A i \in 0 .. Cardinality(S)-1 : X[i] = Ith(S, i)
  PROVE  Numbers(S) /\ Chosen(X, Cardinality(S), n)
<1>1. Numbers(S)
  BY NumbersBelow
<1> DEFINE k == Cardinality(S)
<1>2. \A i \in 0 .. k-1 : X[i] \in S /\ Rank(S, X[i]) = i
  BY <1>1, IthIs
<1> HIDE DEF k
<1>3. \A i \in 0 .. k-1 : X[i] \in 0 .. n-1
  BY <1>2
<1>4. \A i, j \in 0 .. k-1 : i # j => X[i] # X[j]
  BY <1>2
<1>5. QED
  BY <1>1, <1>3, <1>4 DEF Chosen, k

-----------------------------------------------------------------------------
(* Moving the rows of the outputs to the front.                            *)

\* What the rows are after i steps.
Moved(a, m, outputs, k, i) ==
  /\ a \in Matrices(k, k)
  /\ \A s \in outputs : s < i => At(a, Rank(outputs, s)) = At(m, s)
  /\ \A j \in i .. k-1 : At(a, j) = At(m, j)

MoveOne(a, outputs, i) ==
  IF i \in outputs THEN [a EXCEPT ![Rank(outputs, i) + 1] = At(a, i)] ELSE a

LEMMA MovedStep ==
  ASSUME NEW k \in Nat \ {0}, NEW m, NEW outputs \in SUBSET (0 .. k-1), NEW i \in 0 .. k-1,
         NEW a, Moved(a, m, outputs, k, i)
  PROVE  Moved(MoveOne(a, outputs, i), m, outputs, k, i + 1)
<1> DEFINE b == MoveOne(a, outputs, i)
           rank(s) == Rank(outputs, s)
<1>1. Numbers(outputs)
  BY NumbersBelow
<1>2. /\ a \in [1 .. k -> [1 .. k -> Byte]]
      /\ \A s \in outputs : s < i => a[rank(s) + 1] = m[s + 1]
      /\ \A j \in i .. k-1 : a[j + 1] = m[j + 1]
  BY DEF Moved, At, Matrices
<1>3. CASE i \notin outputs
  <2>1. \A s \in outputs : s < i + 1 => s < i
    BY <1>3
  <2>2. b = a
    BY <1>3 DEF MoveOne
  <2>3. \A j \in i + 1 .. k-1 : j \in i .. k-1
    OBVIOUS
  <2>4. QED
    BY <2>1, <2>2, <2>3 DEF Moved
<1>4. CASE i \in outputs
  <2>1. b = [a EXCEPT ![rank(i) + 1] = a[i + 1]]
    BY <1>4 DEF MoveOne, At
  <2>2. /\ rank(i) \in Nat /\ rank(i) <= i
        /\ \A s \in outputs : /\ s \in 0 .. k-1 /\ rank(s) \in Nat /\ rank(s) <= s
                              /\ s < i => rank(s) < rank(i)
    <3>1. \A s \in outputs : s \in Nat /\ s \in 0 .. k-1
      OBVIOUS
    <3>2. QED
      BY <1>1, <1>4, <3>1, RankIs
  <2> HIDE DEF b, rank
  <2>3. rank(i) + 1 \in 1 .. k /\ i + 1 \in 1 .. k
    BY <2>2
  <2>4. b \in [1 .. k -> [1 .. k -> Byte]]
    BY <1>2, <2>1, <2>3
  <2>5. b[rank(i) + 1] = m[i + 1]
    <3>1. i \in i .. k-1
      OBVIOUS
    <3>2. QED
      BY <1>2, <2>1, <2>3, <3>1
  <2>6. ASSUME NEW s \in outputs, s < i + 1 PROVE b[rank(s) + 1] = m[s + 1]
    <3>1. CASE s = i
      BY <2>5, <3>1
    <3>2. CASE s # i
      <4>1. s < i /\ rank(s) + 1 \in 1 .. k /\ rank(s) + 1 # rank(i) + 1
        BY <2>2, <2>6, <3>2
      <4>2. QED
        BY <1>2, <2>1, <4>1
    <3>3. QED
      BY <3>1, <3>2
  <2>7. ASSUME NEW j \in i + 1 .. k-1 PROVE b[j + 1] = m[j + 1]
    <3>1. j \in i .. k-1 /\ j + 1 \in 1 .. k /\ j + 1 # rank(i) + 1
      BY <2>2
    <3>2. QED
      BY <1>2, <2>1, <3>1
  <2>8. Moved(b, m, outputs, k, i + 1)
    BY <2>4, <2>6, <2>7 DEF Moved, Matrices, At, rank
  <2>9. QED
    BY <2>8 DEF b
<1>5. QED
  BY <1>3, <1>4

\* The row of an output is where decode looks for it.
LEMMA CompactedIs ==
  ASSUME NEW k \in Nat \ {0}, NEW m \in Matrices(k, k), NEW outputs \in SUBSET (0 .. k-1)
  PROVE  /\ Compacted(m, outputs, k) \in Matrices(k, k)
         /\ \A s \in outputs : At(Compacted(m, outputs, k), Rank(outputs, s)) = At(m, s)
<1> DEFINE T == Matrices(k, k)
           step == [x \in (1 .. k) \X T |-> MoveOne(x[2], outputs, x[1] - 1)]
           all(g) == [i \in 0 .. k |-> IF i = 0 THEN m ELSE MoveOne(g[i-1], outputs, i - 1)]
<1>1. ASSUME NEW i \in 0 .. k-1, NEW a \in T PROVE MoveOne(a, outputs, i) \in T
  <2>1. CASE i \notin outputs
    BY <2>1 DEF MoveOne
  <2>2. CASE i \in outputs
    <3>1. i + 1 \in 1 .. k
      OBVIOUS
    <3>2. a \in [1 .. k -> [1 .. k -> Byte]]
      BY DEF Matrices
    <3>3. [a EXCEPT ![Rank(outputs, i) + 1] = a[i + 1]] \in [1 .. k -> [1 .. k -> Byte]]
      BY <3>1, <3>2
    <3>4. QED
      BY <2>2, <3>3 DEF MoveOne, At, Matrices
  <2>3. QED
    BY <2>1, <2>2
<1>2. step \in [(1 .. k) \X T -> T]
  <2>1. ASSUME NEW x \in (1 .. k) \X T PROVE MoveOne(x[2], outputs, x[1] - 1) \in T
    <3>1. x[1] - 1 \in 0 .. k-1 /\ x[2] \in T
      OBVIOUS
    <3> HIDE DEF T
    <3>2. QED
      BY <1>1, <3>1
  <2> HIDE DEF T
  <2>2. QED
    BY <2>1
<1>3. \E f \in [0 .. k -> T] : Iterates(f, m, k, step)
  <2>1. m \in T /\ k \in Nat
    OBVIOUS
  <2> HIDE DEF step, T
  <2>2. QED
    BY <1>2, <2>1, Iteration
<1>4. PICK f \in [0 .. k -> T] : f[0] = m /\ \A i \in 1 .. k : f[i] = step[<<i, f[i-1]>>]
  BY <1>3 DEF Iterates
<1>5. \A i \in 1 .. k : f[i] = MoveOne(f[i-1], outputs, i - 1)
  <2> TAKE i \in 1 .. k
  <2>1. f[i-1] \in T
    OBVIOUS
  <2>2. QED
    BY <1>4, <2>1
<1> HIDE DEF step, T
<1>6. f = all(f)
  BY <1>4, <1>5
<1> DEFINE after == CHOOSE g : g = all(g)
<1>7. after = all(after)
  <2> HIDE DEF all
  <2>1. QED
    BY <1>6
<1>8. Compacted(m, outputs, k) = after[k]
  BY DEF Compacted, MoveOne
<1> HIDE DEF after
<1>9. after[0] = m /\ \A i \in 0 .. k-1 : after[i + 1] = MoveOne(after[i], outputs, i)
  BY <1>7
<1> DEFINE S == { i \in Nat : i <= k => Moved(after[i], m, outputs, k, i) }
<1>10. 0 \in S
  BY <1>9 DEF Moved
<1>11. ASSUME NEW i \in Nat, i \in S PROVE i + 1 \in S
  <2> SUFFICES ASSUME i + 1 <= k PROVE Moved(after[i + 1], m, outputs, k, i + 1)
    OBVIOUS
  <2>1. i \in 0 .. k-1 /\ Moved(after[i], m, outputs, k, i)
    BY <1>11
  <2>2. Moved(MoveOne(after[i], outputs, i), m, outputs, k, i + 1)
    BY <2>1, MovedStep
  <2>3. QED
    BY <1>9, <2>1, <2>2
<1> HIDE DEF S
<1>12. Nat \subseteq S
  BY <1>10, <1>11, NatSetInduction
<1>13. Moved(after[k], m, outputs, k, k)
  BY <1>12 DEF S
<1>14. QED
  BY <1>8, <1>13 DEF Moved

-----------------------------------------------------------------------------
(* Encoding.                                                               *)

\* The encoder of a code, and the data shards of its buffers.
Enc(n, k) == [n |-> n, k |-> k, coding_mat |-> BuildMatrix(n, k)]
Front(bufs, k) == [c \in 0 .. k-1 |-> At(bufs, c)]

\* w is what encoding its first k bytes gives.
Codeword(w, n, k) ==
  /\ w \in [1 .. n -> Byte]
  /\ \A r \in 0 .. n-1 : At(w, r) = Dot(BuildMatrix(n, k), r, Front(w, k), k)

LEMMA BuffersAre ==
  ASSUME NEW n \in Nat, NEW k \in Nat, k <= n, NEW bufs \in [1 .. n -> Byte]
  PROVE  /\ \A s \in 0 .. n-1 : At(bufs, s) \in Byte
         /\ Bytes(Front(bufs, k), k)
<1>1. \A s \in 0 .. n-1 : s + 1 \in 1 .. n
  OBVIOUS
<1>2. \A s \in 0 .. n-1 : At(bufs, s) \in Byte
  BY <1>1 DEF At
<1>3. \A c \in 0 .. k-1 : c \in 0 .. n-1
  OBVIOUS
<1>4. QED
  BY <1>2, <1>3 DEF Front, Bytes

\* What the loops over the half-byte tables compute is a row times the inputs.
LEMMA OutputIs ==
  ASSUME NEW k \in Nat, NEW row, NEW inputs, NEW m, NEW r, NEW v,
         RowOfBytes(m, r, k), Bytes(v, k),
         \A c \in 0 .. k-1 : At(row, c) = Elem(m, r, c),
         \A c \in 0 .. k-1 : At(inputs, c) = v[c]
  PROVE  OutputOf(row, inputs, k) = Dot(m, r, v, k)
<1> DEFINE f == Products(m, r, v, k)
           g == [c \in 0 .. k-1 |-> AdvMul(At(row, c), At(inputs, c))]
<1>1. Bytes(f, k)
  BY DotIsByte
<1>2. \A c \in 0 .. k-1 : Elem(m, r, c) \in Byte /\ v[c] \in Byte
  BY DEF RowOfBytes, Bytes
<1>3. \A c \in 0 .. k-1 : g[c] = AdvMul(Elem(m, r, c), v[c]) /\ f[c] = Mul(Elem(m, r, c), v[c])
  BY DEF Products
<1>4. OutputOf(row, inputs, k) = SumOf(g, k) /\ Dot(m, r, v, k) = SumOf(f, k)
  BY DEF OutputOf, Dot
<1> HIDE DEF f, g
<1>5. \A c \in 0 .. k-1 : g[c] = f[c]
  BY <1>2, <1>3, HalfBytesMultiply
<1>6. QED
  BY <1>1, <1>4, <1>5, SumSame

LEMMA CodeRow ==
  ASSUME NEW n \in Byte \ {0}, NEW k \in Nat \ {0}, k < n, NEW r \in 0 .. n-1
  PROVE  RowOfBytes(BuildMatrix(n, k), r, k)
<1>1. n \in Nat \ {0}
  BY DEF Byte
<1>2. BuildMatrix(n, k) \in Matrices(n, k)
  BY CodeIs
<1>3. QED
  BY <1>1, <1>2, MatrixHas DEF RowOfBytes

\* The buffers after an encode of the parity shards in chosen.
LEMMA EncodedIs ==
  ASSUME NEW n \in Byte \ {0}, NEW k \in Nat \ {0}, k < n, NEW chosen \in SUBSET (0 .. n-k-1),
         NEW bufs \in [1 .. n -> Byte]
  PROVE  LET after == StreamEncode(EncodeStream(Enc(n, k), chosen), bufs)
         IN  /\ after \in [1 .. n -> Byte]
             /\ \A s \in 0 .. n-1 :
                  At(after, s) = IF s - k \in chosen
                                 THEN Dot(BuildMatrix(n, k), s, Front(bufs, k), k)
                                 ELSE At(bufs, s)
<1> DEFINE stream == EncodeStream(Enc(n, k), chosen)
           C == BuildMatrix(n, k)
           v == Front(bufs, k)
           f == [s \in 0 .. n-1 |->
                  IF s - k \in chosen
                  THEN OutputOf(At(stream.mat, Rank(chosen, s - k)), bufs, k)
                  ELSE At(bufs, s)]
           after == StreamEncode(stream, bufs)
<1>1. n \in Nat \ {0} /\ n - k \in Nat
  BY DEF Byte
<1>2. /\ stream.n = n /\ stream.k = k /\ stream.outputs = chosen
      /\ stream.mat = [j \in 1 .. Cardinality(chosen) |-> At(C, k + Ith(chosen, j - 1))]
  BY DEF EncodeStream, Enc
<1>3. (\A s \in 0 .. n-1 : At(bufs, s) \in Byte) /\ Bytes(v, k)
  BY <1>1, BuffersAre
<1>4. Numbers(chosen)
  BY <1>1, NumbersBelow
<1>5. ASSUME NEW s \in chosen
      PROVE  At(stream.mat, Rank(chosen, s)) = At(C, k + s)
  <2>1. Rank(chosen, s) \in 0 .. Cardinality(chosen)-1 /\ Cardinality(chosen) \in Nat
    BY <1>4, RankIs
  <2>2. /\ Rank(chosen, s) + 1 \in 1 .. Cardinality(chosen)
        /\ (Rank(chosen, s) + 1) - 1 = Rank(chosen, s)
    BY <2>1
  <2>3. At(stream.mat, Rank(chosen, s)) = At(C, k + Ith(chosen, Rank(chosen, s)))
    BY <1>2, <2>2 DEF At
  <2>4. QED
    BY <1>4, <2>3, IthIs
<1>6. after = Tabulated(f, n)
  BY <1>2 DEF StreamEncode
<1>7. \A s \in 0 .. n-1 : f[s] = IF s - k \in chosen
                                 THEN OutputOf(At(stream.mat, Rank(chosen, s - k)), bufs, k)
                                 ELSE At(bufs, s)
  OBVIOUS
<1> HIDE DEF f, stream, C, v
<1>8. ASSUME NEW s \in 0 .. n-1, s - k \in chosen
      PROVE  f[s] = Dot(C, s, v, k) /\ Dot(C, s, v, k) \in Byte
  <2>1. At(stream.mat, Rank(chosen, s - k)) = At(C, k + (s - k))
    BY <1>5, <1>8
  <2>2. k + (s - k) = s
    BY <1>1
  <2>3. RowOfBytes(C, s, k)
    BY CodeRow DEF C
  <2>4. \A c \in 0 .. k-1 : At(At(C, s), c) = Elem(C, s, c)
    BY DEF Elem
  <2>5. \A c \in 0 .. k-1 : At(bufs, c) = v[c]
    BY DEF v, Front
  <2>6. OutputOf(At(C, s), bufs, k) = Dot(C, s, v, k)
    BY <1>3, <2>3, <2>4, <2>5, OutputIs
  <2>7. Dot(C, s, v, k) \in Byte
    BY <1>3, <2>3, DotIsByte
  <2>8. QED
    BY <1>7, <1>8, <2>1, <2>2, <2>6, <2>7
<1>9. \A s \in 0 .. n-1 : f[s] = IF s - k \in chosen THEN Dot(C, s, v, k) ELSE At(bufs, s)
  BY <1>7, <1>8
<1>10. \A s \in 0 .. n-1 : f[s] \in Byte
  BY <1>3, <1>8, <1>9
<1>11. Tabulated(f, n) \in [1 .. n -> Byte] /\ \A s \in 0 .. n-1 : At(Tabulated(f, n), s) = f[s]
  BY <1>1, <1>10, TabulatedIn
<1>12. QED
  BY <1>6, <1>9, <1>11 DEF stream, C, v

\* Of the data of a codeword, whatever else the buffers hold, an encode makes the
\* codeword's parity.
LEMMA EncodeIsExact ==
  ASSUME NEW n \in Byte \ {0}, NEW k \in Nat \ {0}, k < n, NEW chosen \in SUBSET (0 .. n-k-1),
         NEW bufs \in [1 .. n -> Byte], NEW w, Codeword(w, n, k),
         \A c \in 0 .. k-1 : At(bufs, c) = At(w, c),
         NEW s \in 0 .. n-1, s - k \in chosen
  PROVE  At(StreamEncode(EncodeStream(Enc(n, k), chosen), bufs), s) = At(w, s)
<1>1. Front(bufs, k) = Front(w, k)
  BY DEF Front
<1>2. At(StreamEncode(EncodeStream(Enc(n, k), chosen), bufs), s)
        = Dot(BuildMatrix(n, k), s, Front(bufs, k), k)
  BY EncodedIs
<1>3. QED
  BY <1>1, <1>2 DEF Codeword

\* A full encode makes a codeword.
LEMMA EncodeMakesCodeword ==
  ASSUME NEW n \in Byte \ {0}, NEW k \in Nat \ {0}, k < n, NEW bufs \in [1 .. n -> Byte]
  PROVE  Codeword(StreamEncode(EncodeStream(Enc(n, k), 0 .. n-k-1), bufs), n, k)
<1> DEFINE chosen == 0 .. n-k-1
           after == StreamEncode(EncodeStream(Enc(n, k), chosen), bufs)
           C == BuildMatrix(n, k)
<1>1. n \in Nat \ {0} /\ 0 .. k-1 \subseteq 0 .. n-1
  BY DEF Byte
<1>2. /\ after \in [1 .. n -> Byte]
      /\ \A s \in 0 .. n-1 :
           At(after, s) = IF s - k \in chosen THEN Dot(C, s, Front(bufs, k), k) ELSE At(bufs, s)
  <2>1. chosen \in SUBSET (0 .. n-k-1)
    OBVIOUS
  <2> HIDE DEF chosen
  <2>2. QED
    BY <2>1, EncodedIs
<1>3. Bytes(Front(bufs, k), k)
  BY <1>1, BuffersAre
<1>4. \A s \in 0 .. n-1 : s - k \in chosen <=> s \notin 0 .. k-1
  BY <1>1
<1> HIDE DEF after, chosen, C
<1>5. \A c \in 0 .. k-1 : At(after, c) = At(bufs, c)
  BY <1>1, <1>2, <1>4
<1>6. Front(after, k) = Front(bufs, k)
  BY <1>5 DEF Front
<1>7. \A c \in 0 .. k-1 : At(bufs, c) = Dot(C, c, Front(bufs, k), k)
  <2>1. \A c \in 0 .. k-1 : At(bufs, c) = Front(bufs, k)[c]
    BY DEF Front
  <2>2. \A c \in 0 .. k-1 : Dot(C, c, Front(bufs, k), k) = Front(bufs, k)[c]
    BY <1>3, CodeCopies DEF C
  <2>3. QED
    BY <2>1, <2>2
<1>8. \A s \in 0 .. n-1 : At(after, s) = Dot(C, s, Front(after, k), k)
  BY <1>2, <1>4, <1>5, <1>6, <1>7
<1>9. QED
  BY <1>2, <1>8 DEF Codeword, after, chosen, C

-----------------------------------------------------------------------------
(* Recovery.                                                               *)

\* The stream is one for the first k of the shards given, and its rows are those of a
\* matrix that gives the data back.
Decodes(stream, n, k, given) ==
  /\ stream.n = n /\ stream.k = k /\ stream # NoStream
  /\ stream.inputs = First(given, k) /\ stream.outputs = (0 .. k-1) \ given
  /\ \E a \in Matrices(k, k) :
       /\ \A s \in stream.outputs : At(stream.mat, Rank(stream.outputs, s)) = At(a, s)
       /\ \A v, y : (/\ Bytes(v, k) /\ Bytes(y, k)
                     /\ \A i \in 0 .. k-1 :
                          Dot(BuildMatrix(n, k), Ith(stream.inputs, i), v, k) = y[i])
                    => \A s \in 0 .. k-1 : Dot(a, s, y, k) = v[s]

\* From enough shards the result of inverse, which is not looked at, is never null.
LEMMA RecoverStreamIs ==
  ASSUME NEW n \in Byte \ {0}, NEW k \in Nat \ {0}, k < n, NEW given \in SUBSET (0 .. n-1),
         k <= Cardinality(given)
  PROVE  Decodes(RecoverStream(Enc(n, k), given), n, k, given)
<1> DEFINE stream == RecoverStream(Enc(n, k), given)
           C == BuildMatrix(n, k)
           inputs == First(given, k)
           outputs == (0 .. k-1) \ given
           row == [i \in 0 .. k-1 |-> At(C, Ith(inputs, i))]
           rows == Tabulated(row, k)
           inverse == InverseMatrix(rows, k)
           X == [i \in 0 .. k-1 |-> Ith(inputs, i)]
<1>1. n \in Nat \ {0} /\ n \in Nat
  BY DEF Byte
<1>2. Numbers(given)
  BY <1>1, NumbersBelow
<1>3. Numbers(inputs) /\ inputs \subseteq given /\ Cardinality(inputs) = k
  BY <1>2, FirstIs
<1>4. Chosen(X, k, n)
  <2>1. inputs \in SUBSET (0 .. n-1)
    BY <1>3
  <2>2. \A i \in 0 .. k-1 : X[i] = Ith(inputs, i)
    OBVIOUS
  <2> HIDE DEF X, inputs
  <2>3. Chosen(X, Cardinality(inputs), n)
    BY <1>1, <1>3, <2>1, <2>2, IthChoose
  <2>4. QED
    BY <1>3, <2>3
<1>5. stream = [n |-> n, k |-> k, inputs |-> inputs, outputs |-> outputs,
                mat |-> Compacted(IF inverse = Null THEN rows ELSE inverse, outputs, k)]
  <2>1. ~ (Cardinality(given) < k)
    BY <1>2, RankIs
  <2>2. QED
    BY <2>1 DEF RecoverStream, Enc, First
<1>6. \A i \in 0 .. k-1 : X[i] = Ith(inputs, i) /\ row[i] = At(C, Ith(inputs, i))
  OBVIOUS
<1> HIDE DEF inputs, row, X, outputs
<1>7. \A i \in 0 .. k-1 : At(rows, i) = At(C, X[i])
  BY <1>6, TabulatedAt
<1> HIDE DEF rows
<1>8. \A i, c \in 0 .. k-1 : Elem(rows, i, c) = Elem(C, X[i], c)
  BY <1>7 DEF Elem
<1>9. Square(rows, k) /\ inverse # Null
  BY <1>4, <1>8, RowsInvert
<1>10. /\ inverse \in Matrices(k, k)
       /\ \A v, w : Bytes(v, k) /\ Bytes(w, k) =>
              ((\A r \in 0 .. k-1 : Dot(rows, r, v, k) = w[r])
                <=> (\A r \in 0 .. k-1 : Dot(InverseMatrix(rows, k), r, w, k) = v[r]))
  BY <1>9, InverseSolves
<1>11. stream.mat = Compacted(inverse, outputs, k)
  BY <1>5, <1>9
<1> HIDE DEF inverse
<1>12. \A s \in outputs : At(stream.mat, Rank(outputs, s)) = At(inverse, s)
  <2>1. outputs \in SUBSET (0 .. k-1)
    BY DEF outputs
  <2>2. QED
    BY <1>10, <1>11, <2>1, CompactedIs
<1>13. ASSUME NEW v, NEW y, Bytes(v, k), Bytes(y, k),
              \A i \in 0 .. k-1 : Dot(C, Ith(inputs, i), v, k) = y[i]
       PROVE  \A s \in 0 .. k-1 : Dot(inverse, s, y, k) = v[s]
  <2>1. ASSUME NEW i \in 0 .. k-1 PROVE Dot(rows, i, v, k) = y[i]
    <3> DEFINE x == X[i]
    <3>1. /\ x \in 0 .. n-1 /\ x = Ith(inputs, i)
          /\ \A c \in 0 .. k-1 : Elem(rows, i, c) = Elem(C, x, c)
      BY <1>4, <1>6, <1>8 DEF Chosen
    <3> HIDE DEF x
    <3>2. RowOfBytes(C, x, k)
      BY <3>1, CodeRow
    <3> HIDE DEF C
    <3>3. Dot(rows, i, v, k) = Dot(C, x, v, k)
      BY <1>13, <3>1, <3>2, SameDot
    <3>4. QED
      BY <1>13, <3>1, <3>3
  <2>2. QED
    BY <1>10, <1>13, <2>1 DEF inverse
<1>14. stream.n = n /\ stream.k = k /\ stream.inputs = inputs /\ stream.outputs = outputs
  BY <1>5
<1>15. stream # NoStream
  BY <1>14 DEF NoStream
<1> HIDE DEF stream
<1>16. Decodes(stream, n, k, given)
  BY <1>10, <1>12, <1>13, <1>14, <1>15 DEF inputs, outputs, Decodes
<1>17. QED
  BY <1>16 DEF stream

\* The buffers after a recovery of data shards.
LEMMA RecoveredIs ==
  ASSUME NEW n \in Byte \ {0}, NEW k \in Nat \ {0}, k < n, NEW given \in SUBSET (0 .. n-1),
         k <= Cardinality(given), NEW stream, Decodes(stream, n, k, given),
         NEW bufs \in [1 .. n -> Byte]
  PROVE  /\ StreamRecoverData(stream, bufs) \in [1 .. n -> Byte]
         /\ \A s \in 0 .. n-1 : s \notin stream.outputs =>
              At(StreamRecoverData(stream, bufs), s) = At(bufs, s)
         /\ \A w : (Codeword(w, n, k) /\ \A s \in stream.inputs : At(bufs, s) = At(w, s))
              => \A s \in stream.outputs : At(StreamRecoverData(stream, bufs), s) = At(w, s)
<1> DEFINE inputs == stream.inputs
           outputs == stream.outputs
           C == BuildMatrix(n, k)
           y == [i \in 0 .. k-1 |-> At(bufs, Ith(inputs, i))]
           ins == Tabulated(y, k)
           f == [s \in 0 .. n-1 |->
                  IF s \in outputs THEN OutputOf(At(stream.mat, Rank(outputs, s)), ins, k)
                  ELSE At(bufs, s)]
           after == StreamRecoverData(stream, bufs)
<1>1. n \in Nat \ {0} /\ n \in Nat /\ 0 .. k-1 \subseteq 0 .. n-1
  BY DEF Byte
<1>2. stream.n = n /\ stream.k = k /\ inputs = First(given, k) /\ outputs \subseteq 0 .. k-1
  BY DEF Decodes
<1>3. PICK a \in Matrices(k, k) :
       /\ \A s \in outputs : At(stream.mat, Rank(outputs, s)) = At(a, s)
       /\ \A v, x : (/\ Bytes(v, k) /\ Bytes(x, k)
                     /\ \A i \in 0 .. k-1 : Dot(C, Ith(inputs, i), v, k) = x[i])
                    => \A s \in 0 .. k-1 : Dot(a, s, x, k) = v[s]
  BY DEF Decodes
<1>4. after = Tabulated(f, n)
  BY <1>2 DEF StreamRecoverData
<1>5. /\ \A s \in 0 .. n-1 : f[s] = IF s \in outputs
                                    THEN OutputOf(At(stream.mat, Rank(outputs, s)), ins, k)
                                    ELSE At(bufs, s)
      /\ \A i \in 0 .. k-1 : y[i] = At(bufs, Ith(inputs, i))
  OBVIOUS
<1> HIDE DEF f, y, after, C, outputs, inputs
<1>6. \A i \in 0 .. k-1 : At(ins, i) = y[i]
  BY TabulatedAt
<1> HIDE DEF ins
<1>7. \A i \in 0 .. k-1 : Ith(inputs, i) \in inputs /\ Ith(inputs, i) \in 0 .. n-1
  <2>1. Numbers(given)
    BY <1>1, NumbersBelow
  <2>2. Numbers(inputs) /\ inputs \subseteq given /\ Cardinality(inputs) = k
    BY <1>2, <2>1, FirstIs
  <2>3. \A i \in 0 .. k-1 : Ith(inputs, i) \in inputs
    BY <2>2, IthIs
  <2>4. QED
    BY <2>2, <2>3
<1>8. \A s \in 0 .. n-1 : At(bufs, s) \in Byte
  BY <1>1, BuffersAre
<1>9. Bytes(y, k)
  BY <1>5, <1>7, <1>8 DEF Bytes
<1>10. ASSUME NEW s \in outputs
       PROVE  s \in 0 .. n-1 /\ f[s] = Dot(a, s, y, k) /\ Dot(a, s, y, k) \in Byte
  <2>1. s \in 0 .. k-1 /\ s \in 0 .. n-1
    BY <1>1, <1>2
  <2>2. RowOfBytes(a, s, k)
    BY <2>1, MatrixHas DEF RowOfBytes
  <2>3. \A c \in 0 .. k-1 : At(At(a, s), c) = Elem(a, s, c)
    BY DEF Elem
  <2>4. OutputOf(At(a, s), ins, k) = Dot(a, s, y, k)
    BY <1>6, <1>9, <2>2, <2>3, OutputIs
  <2>5. Dot(a, s, y, k) \in Byte
    BY <1>9, <2>2, DotIsByte
  <2>6. QED
    BY <1>3, <1>5, <2>1, <2>4, <2>5
<1>11. \A s \in 0 .. n-1 : f[s] \in Byte
  BY <1>5, <1>8, <1>10
<1>12. Tabulated(f, n) \in [1 .. n -> Byte] /\ \A s \in 0 .. n-1 : At(Tabulated(f, n), s) = f[s]
  BY <1>1, <1>11, TabulatedIn
<1>13. /\ after \in [1 .. n -> Byte]
       /\ \A s \in 0 .. n-1 : s \notin outputs => At(after, s) = At(bufs, s)
  BY <1>4, <1>5, <1>12
<1>14. ASSUME NEW w, Codeword(w, n, k), \A s \in inputs : At(bufs, s) = At(w, s), NEW s \in outputs
       PROVE  At(after, s) = At(w, s)
  <2> DEFINE v == Front(w, k)
  <2>1. /\ \A r \in 0 .. n-1 : At(w, r) = Dot(C, r, v, k)
        /\ w \in [1 .. n -> Byte]
    BY <1>14 DEF Codeword, C
  <2>2. Bytes(v, k)
    BY <1>1, <2>1, BuffersAre
  <2>3. v[s] = At(w, s) /\ s \in 0 .. k-1
    BY <1>2 DEF Front
  <2> HIDE DEF v
  <2>4. \A i \in 0 .. k-1 : Dot(C, Ith(inputs, i), v, k) = y[i]
    BY <1>5, <1>7, <1>14, <2>1
  <2>5. Dot(a, s, y, k) = v[s]
    BY <1>3, <1>9, <2>2, <2>3, <2>4
  <2>6. QED
    BY <1>4, <1>10, <1>12, <2>3, <2>5
<1>15. QED
  BY <1>13, <1>14 DEF after, outputs, inputs

-----------------------------------------------------------------------------
(* What a call does to the buffers.                                        *)

IsCode(n, k) == n \in Byte \ {0} /\ k \in Nat \ {0} /\ k < n

\* The buffers sh of n shards, those in pr as the last encode left them in ed.
Buffers(n, k, sh, pr, ed) ==
  /\ Codeword(ed, n, k)
  /\ sh \in [1 .. n -> Byte] /\ pr \in SUBSET (0 .. n-1)
  /\ \A s \in pr : At(sh, s) = At(ed, s)

\* A call makes the buffers sh2 of sh: it writes those in written, as they were encoded
\* if ok, and no other.
Writes(n, sh2, sh, ed, written, ok) ==
  /\ sh2 \in [1 .. n -> Byte] /\ written \in SUBSET (0 .. n-1)
  /\ \A s \in 0 .. n-1 : IF s \notin written THEN At(sh2, s) = At(sh, s)
                         ELSE ok => At(sh2, s) = At(ed, s)

LEMMA WritesKeep ==
  ASSUME NEW n, NEW k, NEW sh, NEW pr, NEW ed, Buffers(n, k, sh, pr, ed),
         NEW sh2, NEW written, NEW ok, Writes(n, sh2, sh, ed, written, ok),
         NEW pr2, pr2 = IF ok THEN pr \cup written ELSE pr \ written
  PROVE  Buffers(n, k, sh2, pr2, ed)
<1>1. pr2 \in SUBSET (0 .. n-1)
  BY DEF Buffers, Writes
<1>2. ASSUME NEW s \in pr2 PROVE At(sh2, s) = At(ed, s)
  <2>1. s \in 0 .. n-1 /\ (s \in written => ok) /\ (s \notin written => s \in pr)
    BY <1>1, <1>2
  <2>2. QED
    BY <2>1 DEF Buffers, Writes
<1>3. QED
  BY <1>1, <1>2 DEF Buffers, Writes

Parity(k, chosen) == { s + k : s \in chosen }

LEMMA ParityIs ==
  ASSUME NEW n, NEW k, IsCode(n, k), NEW chosen \in SUBSET (0 .. n-k-1)
  PROVE  /\ Parity(k, chosen) \in SUBSET (0 .. n-1)
         /\ \A s \in 0 .. n-1 : s \in Parity(k, chosen) <=> s - k \in chosen
<1>1. n \in Nat /\ k \in Nat /\ k < n
  BY DEF IsCode, Byte
<1>2. \A t \in chosen : t \in Nat /\ t + k \in 0 .. n-1 /\ (t + k) - k = t
  BY <1>1
<1>3. \A s \in 0 .. n-1 : (s - k) + k = s
  BY <1>1
<1>4. Parity(k, chosen) \in SUBSET (0 .. n-1)
  BY <1>2 DEF Parity
<1>5. ASSUME NEW s \in 0 .. n-1, s \in Parity(k, chosen) PROVE s - k \in chosen
  <2>1. PICK t \in chosen : s = t + k
    BY <1>5 DEF Parity
  <2>2. s - k = t
    BY <1>2, <2>1
  <2>3. QED
    BY <2>2
<1>6. ASSUME NEW s \in 0 .. n-1, s - k \in chosen PROVE s \in Parity(k, chosen)
  <2>1. (s - k) + k = s
    BY <1>3
  <2>2. QED
    BY <1>6, <2>1 DEF Parity
<1>7. QED
  BY <1>4, <1>5, <1>6

\* An encode writes the parity shards it is asked for.
LEMMA EncodeWrites ==
  ASSUME NEW n, NEW k, IsCode(n, k), NEW sh, NEW pr, NEW ed, Buffers(n, k, sh, pr, ed),
         NEW chosen \in SUBSET (0 .. n-k-1)
  PROVE  Writes(n, StreamEncode(EncodeStream(Enc(n, k), chosen), sh), sh, ed,
                Parity(k, chosen), 0 .. k-1 \subseteq pr)
<1> DEFINE sh2 == StreamEncode(EncodeStream(Enc(n, k), chosen), sh)
<1>1. n \in Byte \ {0} /\ k \in Nat \ {0} /\ k < n
  BY DEF IsCode
<1>2. sh \in [1 .. n -> Byte] /\ Codeword(ed, n, k)
  BY DEF Buffers
<1>3. /\ sh2 \in [1 .. n -> Byte]
      /\ \A s \in 0 .. n-1 : s - k \notin chosen => At(sh2, s) = At(sh, s)
  BY <1>1, <1>2, EncodedIs
<1>4. ASSUME 0 .. k-1 \subseteq pr, NEW s \in 0 .. n-1, s - k \in chosen
      PROVE  At(sh2, s) = At(ed, s)
  <2>1. \A c \in 0 .. k-1 : At(sh, c) = At(ed, c)
    BY <1>4 DEF Buffers
  <2>2. QED
    BY <1>1, <1>2, <1>4, <2>1, EncodeIsExact
<1> HIDE DEF sh2
<1>5. Writes(n, sh2, sh, ed, Parity(k, chosen), 0 .. k-1 \subseteq pr)
  BY <1>3, <1>4, ParityIs DEF Writes
<1>6. QED
  BY <1>5 DEF sh2

\* A recovery of data writes the data shards that were lost when its stream was made.
LEMMA RecoverWrites ==
  ASSUME NEW n, NEW k, IsCode(n, k), NEW sh, NEW pr, NEW ed, Buffers(n, k, sh, pr, ed),
         NEW given \in SUBSET (0 .. n-1), k <= Cardinality(given),
         NEW stream, stream = RecoverStream(Enc(n, k), given)
  PROVE  /\ Writes(n, StreamRecoverData(stream, sh), sh, ed, stream.outputs,
                   stream.inputs \subseteq pr)
         /\ stream # NoStream /\ stream.outputs = (0 .. k-1) \ given
         /\ stream.inputs \subseteq given
<1> DEFINE sh2 == StreamRecoverData(stream, sh)
<1>1. n \in Byte \ {0} /\ k \in Nat \ {0} /\ k < n /\ 0 .. k-1 \subseteq 0 .. n-1
  BY DEF IsCode, Byte
<1>2. sh \in [1 .. n -> Byte] /\ Codeword(ed, n, k)
  BY DEF Buffers
<1>3. Decodes(stream, n, k, given)
  BY <1>1, RecoverStreamIs
<1>4. stream # NoStream /\ stream.outputs = (0 .. k-1) \ given /\ stream.inputs = First(given, k)
  BY <1>3 DEF Decodes
<1>5. stream.inputs \subseteq given
  BY <1>4 DEF First
<1>6. /\ sh2 \in [1 .. n -> Byte]
      /\ \A s \in 0 .. n-1 : s \notin stream.outputs => At(sh2, s) = At(sh, s)
      /\ \A w : (Codeword(w, n, k) /\ \A s \in stream.inputs : At(sh, s) = At(w, s))
              => \A s \in stream.outputs : At(sh2, s) = At(w, s)
  BY <1>1, <1>2, <1>3, RecoveredIs
<1>7. stream.inputs \subseteq pr => \A s \in stream.outputs : At(sh2, s) = At(ed, s)
  BY <1>2, <1>6 DEF Buffers
<1>8. stream.outputs \in SUBSET (0 .. n-1)
  BY <1>1, <1>4
<1> HIDE DEF sh2
<1>9. Writes(n, sh2, sh, ed, stream.outputs, stream.inputs \subseteq pr)
  BY <1>6, <1>7, <1>8 DEF Writes
<1>10. QED
  BY <1>4, <1>5, <1>9 DEF sh2

\* recover_data and recover, from enough shards.
RecoveredData(n, k, sh, pr) == StreamRecoverData(RecoverStream(Enc(n, k), pr), sh)
RecoveredAll(n, k, sh, pr) ==
  EncodePartial(Enc(n, k), RecoveredData(n, k, sh, pr), { s - k : s \in (k .. n-1) \ pr })

LEMMA RecoverCompletes ==
  ASSUME NEW n, NEW k, IsCode(n, k), NEW sh, NEW pr, NEW ed, Buffers(n, k, sh, pr, ed),
         k <= Cardinality(pr)
  PROVE  /\ Buffers(n, k, RecoveredData(n, k, sh, pr), pr \cup (0 .. k-1), ed)
         /\ Buffers(n, k, RecoveredAll(n, k, sh, pr), pr \cup (0 .. n-1), ed)
<1> DEFINE stream == RecoverStream(Enc(n, k), pr)
           sh2 == RecoveredData(n, k, sh, pr)
           sh3 == RecoveredAll(n, k, sh, pr)
           missing == { s - k : s \in (k .. n-1) \ pr }
           pr2 == pr \cup (0 .. k-1)
           pr3 == pr \cup (0 .. n-1)
<1>1. n \in Nat /\ k \in Nat /\ k < n /\ pr \in SUBSET (0 .. n-1)
  BY DEF IsCode, Byte, Buffers
<1>2. /\ Writes(n, sh2, sh, ed, stream.outputs, stream.inputs \subseteq pr)
      /\ stream.outputs = (0 .. k-1) \ pr /\ stream.inputs \subseteq pr
  BY <1>1, RecoverWrites DEF RecoveredData
<1>3. Buffers(n, k, sh2, pr2, ed)
  <2>1. pr2 = IF stream.inputs \subseteq pr THEN pr \cup stream.outputs ELSE pr \ stream.outputs
    BY <1>2
  <2> HIDE DEF sh2, pr2, stream
  <2>2. QED
    BY <1>2, <2>1, WritesKeep
<1>4. missing \in SUBSET (0 .. n-k-1)
  BY <1>1
<1>5. sh3 = StreamEncode(EncodeStream(Enc(n, k), missing), sh2)
  BY DEF RecoveredAll, EncodePartial
<1>6. pr3 = pr2 \cup Parity(k, missing)
  <2>1. \A s \in 0 .. n-1 : s \notin pr /\ s >= k => s - k \in missing
    BY <1>1
  <2> HIDE DEF missing
  <2>2. \A s \in 0 .. n-1 : s \notin pr2 => s \in Parity(k, missing)
    BY <1>1, <1>4, <2>1, ParityIs
  <2>3. Parity(k, missing) \subseteq 0 .. n-1 /\ 0 .. k-1 \subseteq 0 .. n-1
    BY <1>1, <1>4, ParityIs
  <2>4. QED
    BY <2>2, <2>3
<1> HIDE DEF sh2, sh3, pr2, pr3, missing
<1>7. Writes(n, sh3, sh2, ed, Parity(k, missing), 0 .. k-1 \subseteq pr2)
  BY <1>3, <1>4, <1>5, EncodeWrites
<1>8. Buffers(n, k, sh3, pr3, ed)
  <2>1. pr3 = IF 0 .. k-1 \subseteq pr2 THEN pr2 \cup Parity(k, missing)
              ELSE pr2 \ Parity(k, missing)
    BY <1>6 DEF pr2
  <2>2. QED
    BY <1>3, <1>7, <2>1, WritesKeep
<1>9. QED
  BY <1>3, <1>8 DEF sh2, sh3, pr2, pr3

\* The buffers of a full encode.
LEMMA DataThenGarbage ==
  ASSUME NEW n \in Nat, NEW k \in Nat, k < n, NEW d \in Seq(Byte), Len(d) = k,
         NEW rest \in [1 .. n-k -> Byte]
  PROVE  d \o rest \in [1 .. n -> Byte]
<1>1. rest \in Seq(Byte) /\ Len(rest) = n - k
  <2>1. n - k \in Nat
    OBVIOUS
  <2>2. rest \in Seq(Byte)
    BY <2>1
  <2>3. DOMAIN rest = 1 .. n-k
    OBVIOUS
  <2>4. QED
    BY <2>1, <2>2, <2>3, LenProperties
<1> DEFINE e == d \o rest
<1>2. e \in Seq(Byte) /\ Len(e) = n
  <2>1. e \in Seq(Byte) /\ Len(e) = Len(d) + Len(rest)
    BY <1>1, ConcatProperties
  <2>2. k + (n - k) = n
    OBVIOUS
  <2>3. QED
    BY <1>1, <2>1, <2>2
<1> HIDE DEF e
<1>3. e \in [1 .. n -> Byte]
  BY <1>2, LenProperties
<1>4. QED
  BY <1>3 DEF e

LEMMA EncodeFills ==
  ASSUME NEW n, NEW k, IsCode(n, k), NEW bufs \in [1 .. n -> Byte],
         NEW sh, sh = EncodePartial(Enc(n, k), bufs, 0 .. n-k-1)
  PROVE  Buffers(n, k, sh, 0 .. n-1, sh)
<1>1. n \in Byte \ {0} /\ k \in Nat \ {0} /\ k < n
  BY DEF IsCode
<1>2. Codeword(sh, n, k)
  BY <1>1, EncodeMakesCodeword DEF EncodePartial
<1>3. QED
  BY <1>2 DEF Buffers, Codeword

-----------------------------------------------------------------------------
(* The inductive invariant.                                                *)

\* The streams of a code are those of an encoder of the code, for some of its shards.
Streams(n, k, es, rs) ==
  /\ \/ es = NoStream
     \/ \E chosen \in SUBSET (0 .. n-k-1) : es = EncodeStream(Enc(n, k), chosen)
  /\ \/ rs = NoStream
     \/ \E given \in SUBSET (0 .. n-1) :
          k <= Cardinality(given) /\ rs = RecoverStream(Enc(n, k), given)

Unused == /\ encoded = <<>> /\ shards = <<>> /\ present = {} /\ code = <<0, 0>>
          /\ encode_stream = NoStream /\ recover_stream = NoStream

InUse(n, k) == /\ IsCode(n, k) /\ code = <<n, k>>
               /\ encoder = NoEncoder \/ encoder = Enc(n, k)
               /\ Buffers(n, k, shards, present, encoded)
               /\ Streams(n, k, encode_stream, recover_stream)

MadeEncoder == encoder = NoEncoder
               \/ \E p \in Params : IsCode(p[1], p[2]) /\ encoder = Enc(p[1], p[2])

\* The encoder is that of a code; the buffers hold a codeword where they are present;
\* and encoder and streams are of the code that the buffers were encoded with.
RSInv == MadeEncoder /\ (Unused \/ InUse(code[1], code[2]))

\* What the action properties say of a step.
TooFewStep ==
  (result'.op \in {"recover", "recover_data"} /\ Cardinality(result'.given) < encoder.k)
    => result'.code = "RECOVER_FAILED" /\ shards' = shards

PartialStep ==
  result'.op = "encode_partial" =>
    WritesExactly(IF result'.code = "SUCCESS" THEN ParityShards(result'.given) ELSE {}, DataShards)

StreamStep ==
  result'.code = "SUCCESS" =>
    /\ result'.op = "stream_encode" => WritesExactly(ParityShards(result'.given), DataShards)
    /\ result'.op = "stream_recover_data" => WritesExactly(result'.given, recover_stream.inputs)

StepExact == TooFewStep /\ PartialStep /\ StreamStep /\ RecoveryIsExact'

\* They are about five of the calls.
LEMMA OtherCalls ==
  ASSUME result'.op \notin {"recover", "recover_data", "encode_partial", "stream_encode",
                            "stream_recover_data"}
  PROVE  StepExact
BY DEF StepExact, TooFewStep, PartialStep, StreamStep, RecoveryIsExact

LEMMA InUseHas ==
  ASSUME NEW n, NEW k, InUse(n, k)
  PROVE  /\ IsCode(n, k) /\ n \in Nat /\ k \in Nat \ {0} /\ k < n
         /\ code[1] = n /\ code[2] = k /\ code = <<n, k>>
         /\ encoded # <<>> /\ DOMAIN shards = 1 .. n
         /\ encoder = NoEncoder => encoder.k = 0
         /\ encoder # NoEncoder => encoder = Enc(n, k) /\ encoder.n = n /\ encoder.k = k
<1>1. IsCode(n, k) /\ code = <<n, k>> /\ (encoder = NoEncoder \/ encoder = Enc(n, k))
  BY DEF InUse
<1>2. encoded \in [1 .. n -> Byte] /\ shards \in [1 .. n -> Byte]
  BY DEF InUse, Buffers, Codeword
<1>3. n \in Nat /\ k \in Nat \ {0} /\ k < n /\ 1 \in 1 .. n
  BY <1>1 DEF IsCode, Byte
<1>4. encoded # <<>>
  <2>1. 1 \in DOMAIN encoded
    BY <1>2, <1>3
  <2>2. DOMAIN <<>> = {}
    OBVIOUS
  <2>3. QED
    BY <2>1, <2>2
<1>5. NoEncoder.k = 0 /\ Enc(n, k).n = n /\ Enc(n, k).k = k
  BY DEF NoEncoder, Enc
<1>6. QED
  BY <1>1, <1>2, <1>3, <1>4, <1>5

\* With something encoded, or with a code to stream with, the buffers are in use.
LEMMA NowInUse ==
  ASSUME RSInv, encoded # <<>> \/ code \in Streamed \/ encode_stream # NoStream
                 \/ recover_stream # NoStream
  PROVE  MadeEncoder /\ \E n, k : InUse(n, k)
BY RSCodeAssumption DEF RSInv, Unused

LEMMA StillInUse ==
  ASSUME NEW n, NEW k, InUse(n, k)', MadeEncoder'
  PROVE  RSInv'
<1>1. code' = <<n, k>>
  BY DEF InUse
<1>2. code'[1] = n /\ code'[2] = k
  BY <1>1
<1>3. QED
  BY <1>2 DEF RSInv

\* A call that leaves encoder and streams alone, and the buffers as they have to be.
LEMMA BufferCall ==
  ASSUME MadeEncoder, NEW n, NEW k, InUse(n, k), UNCHANGED <<encoder, streams, encoded, code>>,
         Buffers(n, k, shards', present', encoded)
  PROVE  RSInv'
<1>1. InUse(n, k)' /\ MadeEncoder'
  BY DEF InUse, MadeEncoder, streams
<1>2. QED
  BY <1>1, StillInUse

LEMMA SameBuffers ==
  ASSUME MadeEncoder, NEW n, NEW k, InUse(n, k), UNCHANGED <<encoder, streams, buffers>>
  PROVE  RSInv'
<1>1. Buffers(n, k, shards', present', encoded)
  BY DEF InUse, buffers
<1>2. QED
  BY <1>1, BufferCall DEF buffers

\* What a call writes, in the words of the properties.
LEMMA WritesAre ==
  ASSUME NEW n, NEW k, InUse(n, k), NEW written, NEW inputs,
         NEW ok, ok = (inputs \subseteq present),
         Writes(n, shards', shards, encoded, written, ok)
  PROVE  WritesExactly(written, inputs)
BY InUseHas DEF Writes, WritesExactly

-----------------------------------------------------------------------------
(* The steps.                                                              *)

LEMMA RSInit == Init => RSInv /\ RecoveryIsExact
BY DEF Init, RSInv, MadeEncoder, Unused, RecoveryIsExact, NoCall

LEMMA CreateEncoderStep ==
  ASSUME RSInv, NEW p \in Params, CreateEncoder(p)
  PROVE  RSInv' /\ StepExact
<1>1. p \in Byte \X Byte \X Nat
  BY RSCodeAssumption
<1>2. result'.op = "create"
  BY DEF CreateEncoder, Returned
<1>3. CASE Refused(p[1], p[2], p[3])
  <2>1. encoder = NoEncoder /\ encoder' = NoEncoder /\ UNCHANGED <<streams, buffers>>
    BY <1>3 DEF CreateEncoder
  <2>2. MadeEncoder'
    BY <2>1 DEF MadeEncoder
  <2>3. (Unused \/ InUse(code[1], code[2])) /\ (Unused => Unused')
    BY <2>1 DEF RSInv, Unused, streams, buffers
  <2>4. InUse(code[1], code[2]) => InUse(code[1], code[2])'
    BY <2>1 DEF InUse, streams, buffers
  <2>5. QED
    BY <1>2, <2>2, <2>3, <2>4, OtherCalls DEF RSInv
<1>4. CASE ~ Refused(p[1], p[2], p[3])
  <2> DEFINE n == p[1]
             k == p[2]
  <2>1. IsCode(n, k)
    <3>1. n \in Byte /\ k \in Byte
      BY <1>1
    <3>2. n # 0 /\ k # 0 /\ ~ (k >= n)
      BY <1>4 DEF Refused
    <3> HIDE DEF n, k
    <3>3. QED
      BY <3>1, <3>2 DEF IsCode, Byte
  <2>2. encoder' = Enc(n, k)
    <3>1. coding_mats[p] = BuildMatrix(p[1], p[2])
      BY <1>4 DEF coding_mats
    <3>2. QED
      BY <1>4, <3>1 DEF CreateEncoder, Enc
  <2>3. MadeEncoder'
    BY <2>1, <2>2 DEF MadeEncoder
  <2>4. UNCHANGED <<streams, buffers>> /\ (encoded = <<>> \/ code = <<n, k>>)
    BY DEF CreateEncoder
  <2>5. CASE Unused
    <3>1. Unused'
      BY <2>4, <2>5 DEF Unused, streams, buffers
    <3>2. QED
      BY <1>2, <2>3, <3>1, OtherCalls DEF RSInv
  <2>6. CASE ~ Unused
    <3>1. PICK n1, k1 : InUse(n1, k1)
      BY <2>6 DEF RSInv
    <3>2. n1 = n /\ k1 = k
      BY <2>4, <3>1, InUseHas
    <3>3. InUse(n1, k1)'
      BY <2>2, <2>4, <3>1, <3>2 DEF InUse, streams, buffers
    <3>4. QED
      BY <1>2, <2>3, <3>3, OtherCalls, StillInUse
  <2>7. QED
    BY <2>5, <2>6
<1>5. QED
  BY <1>3, <1>4

LEMMA DestroyEncoderStep ==
  ASSUME RSInv, DestroyEncoder
  PROVE  RSInv' /\ StepExact
<1>1. /\ code \in Streamed /\ encoder' = NoEncoder /\ result'.op = "destroy"
      /\ UNCHANGED <<streams, buffers>>
  BY DEF DestroyEncoder, Returned
<1>2. PICK n, k : InUse(n, k)
  BY <1>1, NowInUse
<1>3. InUse(n, k)' /\ MadeEncoder'
  BY <1>1, <1>2 DEF InUse, MadeEncoder, streams, buffers
<1>4. QED
  BY <1>1, <1>3, OtherCalls, StillInUse

LEMMA EncodeStep ==
  ASSUME RSInv, Encode
  PROVE  RSInv' /\ StepExact
<1>1. result'.op = "encode" /\ UNCHANGED <<encoder, streams>>
  BY DEF Encode, Returned
<1>2. MadeEncoder /\ MadeEncoder'
  BY <1>1 DEF RSInv, MadeEncoder
<1>3. CASE encoder = NoEncoder
  <2>1. UNCHANGED buffers
    BY <1>3 DEF Encode
  <2>2. CASE Unused
    <3>1. Unused'
      BY <1>1, <2>1, <2>2 DEF Unused, streams, buffers
    <3>2. QED
      BY <1>1, <1>2, <3>1, OtherCalls DEF RSInv
  <2>3. CASE ~ Unused
    <3>1. PICK n, k : InUse(n, k)
      BY <2>3 DEF RSInv
    <3>2. QED
      BY <1>1, <1>2, <2>1, <3>1, OtherCalls, SameBuffers
  <2>4. QED
    BY <2>2, <2>3
<1>4. CASE encoder # NoEncoder
  <2>1. PICK p \in Params : IsCode(p[1], p[2]) /\ encoder = Enc(p[1], p[2])
    BY <1>2, <1>4 DEF MadeEncoder
  <2> DEFINE n == p[1]
             k == p[2]
  <2>2. IsCode(n, k) /\ encoder = Enc(n, k) /\ encoder.n = n /\ encoder.k = k
    BY <2>1 DEF Enc
  <2>3. /\ \E d \in Data(k), g \in Garbage :
             shards' = EncodePartial(encoder, d \o [i \in 1 .. n - k |-> g], 0 .. n - k - 1)
        /\ encoded' = shards' /\ code' = <<n, k>> /\ present' = 0 .. n - 1
    BY <1>4, <2>2 DEF Encode
  <2>4. \A d \in Data(k) : d \in Seq(Byte) /\ Len(d) = k
    BY <2>1, RSCodeAssumption
  <2> HIDE DEF n, k
  <2>5. PICK d \in Data(k), g \in Garbage :
          shards' = EncodePartial(encoder, d \o [i \in 1 .. n - k |-> g], 0 .. n - k - 1)
    BY <2>3
  <2>6. n \in Nat /\ k \in Nat /\ k < n /\ g \in Byte /\ d \in Seq(Byte) /\ Len(d) = k
    BY <2>2, <2>4, RSCodeAssumption DEF IsCode, Byte
  <2> DEFINE rest == [i \in 1 .. n - k |-> g]
             bufs == d \o rest
  <2>7. bufs \in [1 .. n -> Byte]
    <3>1. rest \in [1 .. n - k -> Byte]
      BY <2>6
    <3> HIDE DEF rest
    <3>2. QED
      BY <2>6, <3>1, DataThenGarbage
  <2>8. shards' = EncodePartial(Enc(n, k), bufs, 0 .. n-k-1)
    BY <2>2, <2>5
  <2> HIDE DEF bufs
  <2>9. Buffers(n, k, shards', present', encoded')
    BY <2>2, <2>3, <2>7, <2>8, EncodeFills
  <2>10. Streams(n, k, encode_stream, recover_stream)
    <3>1. CASE Unused
      BY <3>1 DEF Unused, Streams
    <3>2. CASE ~ Unused
      <4>1. PICK n1, k1 : InUse(n1, k1)
        BY <3>2 DEF RSInv
      <4>2. n1 = n /\ k1 = k
        BY <1>4, <2>2, <4>1, InUseHas
      <4>3. QED
        BY <4>1, <4>2 DEF InUse
    <3>3. QED
      BY <3>1, <3>2
  <2>11. InUse(n, k)'
    BY <1>1, <2>2, <2>3, <2>9, <2>10 DEF InUse, streams
  <2>12. QED
    BY <1>1, <1>2, <2>11, OtherCalls, StillInUse
<1>5. QED
  BY <1>3, <1>4

LEMMA LoseStep ==
  ASSUME RSInv, Lose
  PROVE  RSInv' /\ StepExact
<1>1. encoded # <<>> /\ UNCHANGED <<encoder, streams, encoded, code>> /\ result'.op = "none"
  BY DEF Lose, NoCall
<1>2. MadeEncoder /\ \E n, k : InUse(n, k)
  BY <1>1, NowInUse
<1>3. PICK n, k : InUse(n, k)
  BY <1>2
<1>4. PICK S \in SUBSET present, g \in Garbage :
       /\ present' = present \ S
       /\ shards' = [i \in DOMAIN shards |-> IF i - 1 \in S THEN g ELSE shards[i]]
  BY DEF Lose
<1>5. /\ shards \in [1 .. n -> Byte] /\ present \in SUBSET (0 .. n-1)
      /\ \A s \in present : At(shards, s) = At(encoded, s)
      /\ Codeword(encoded, n, k) /\ g \in Byte /\ n \in Nat
  BY <1>3, InUseHas, RSCodeAssumption DEF InUse, Buffers
<1>6. shards' \in [1 .. n -> Byte]
  BY <1>4, <1>5
<1>7. ASSUME NEW s \in present' PROVE At(shards', s) = At(encoded, s)
  <2>1. s \in present /\ s \notin S /\ s \in 0 .. n-1
    BY <1>4, <1>5
  <2>2. s + 1 \in 1 .. n /\ (s + 1) - 1 = s
    BY <1>5, <2>1
  <2>3. shards'[s + 1] = shards[s + 1]
    BY <1>4, <1>5, <2>1, <2>2
  <2>4. QED
    BY <1>5, <2>1, <2>3 DEF At
<1>8. Buffers(n, k, shards', present', encoded)
  BY <1>4, <1>5, <1>6, <1>7 DEF Buffers
<1>9. QED
  BY <1>1, <1>2, <1>3, <1>8, BufferCall, OtherCalls

LEMMA EncodeSomeStep ==
  ASSUME RSInv, NEW chosen \in SUBSET ParityNumbers, NEW nulls, EncodeSome(chosen, nulls)
  PROVE  RSInv' /\ StepExact
<1>1. encoded # <<>> /\ UNCHANGED <<encoder, streams>>
  BY DEF EncodeSome
<1>2. MadeEncoder /\ \E n, k : InUse(n, k)
  BY <1>1, NowInUse
<1>3. PICK n, k : InUse(n, k)
  BY <1>2
<1>4. result'.op = "encode_partial" /\ result'.given = chosen
  BY DEF EncodeSome, Returned
<1>5. TooFewStep /\ StreamStep /\ RecoveryIsExact'
  BY <1>4 DEF TooFewStep, StreamStep, RecoveryIsExact
<1>6. CASE encoder = NoEncoder \/ nulls # {}
  <2>1. UNCHANGED buffers /\ result'.code = "INVALID_ARGUMENTS"
    BY <1>6 DEF EncodeSome, Returned
  <2>2. PartialStep
    BY <2>1 DEF PartialStep, WritesExactly, buffers
  <2>3. RSInv'
    BY <1>1, <1>2, <1>3, <2>1, SameBuffers
  <2>4. QED
    BY <1>5, <2>2, <2>3 DEF StepExact
<1>7. CASE encoder # NoEncoder /\ nulls = {}
  <2>1. /\ encoder = Enc(n, k) /\ IsCode(n, k) /\ code[1] = n /\ code[2] = k
    BY <1>3, <1>7, InUseHas
  <2>2. /\ chosen \in SUBSET (0 .. n-k-1) /\ DataShards = 0 .. k-1
        /\ ParityShards(chosen) = Parity(k, chosen)
    BY <2>1 DEF ParityNumbers, DataShards, ParityShards, Parity
  <2>3. /\ shards' = StreamEncode(EncodeStream(Enc(n, k), chosen), shards)
        /\ present' = PresentAfter(0 .. k-1, Parity(k, chosen))
        /\ result'.code = "SUCCESS" /\ UNCHANGED <<encoded, code>>
    BY <1>7, <2>1, <2>2 DEF EncodeSome, EncodePartial, Returned
  <2>4. Writes(n, shards', shards, encoded, Parity(k, chosen), 0 .. k-1 \subseteq present)
    BY <1>3, <2>1, <2>2, <2>3, EncodeWrites DEF InUse
  <2>5. Buffers(n, k, shards', present', encoded)
    BY <1>3, <2>3, <2>4, WritesKeep DEF InUse, PresentAfter
  <2>6. WritesExactly(Parity(k, chosen), 0 .. k-1)
    BY <1>3, <2>4, WritesAre
  <2>7. PartialStep
    BY <1>4, <2>2, <2>3, <2>6 DEF PartialStep
  <2>8. RSInv'
    BY <1>1, <1>2, <1>3, <2>3, <2>5, BufferCall
  <2>9. QED
    BY <1>5, <2>7, <2>8 DEF StepExact
<1>8. QED
  BY <1>6, <1>7

\* recover_data and recover succeed with k shards and say so with fewer.
LEMMA RecoverCallStep ==
  ASSUME RSInv, NEW op \in {"recover", "recover_data"}, RecoverCall(op)
  PROVE  RSInv' /\ StepExact
<1>1. /\ encoded # <<>> /\ UNCHANGED <<encoder, streams, encoded, code>>
      /\ result'.op = op /\ result'.given = present
  BY DEF RecoverCall, Returned
<1>2. MadeEncoder /\ \E n, k : InUse(n, k)
  BY <1>1, NowInUse
<1>3. PICK n, k : InUse(n, k)
  BY <1>2
<1>4. PartialStep /\ StreamStep
  BY <1>1 DEF PartialStep, StreamStep
<1>5. /\ IsCode(n, k) /\ n \in Nat /\ k \in Nat \ {0} /\ k < n
      /\ Buffers(n, k, shards, present, encoded)
      /\ present \in SUBSET (0 .. n-1) /\ Cardinality(present) \in Nat
  <2>1. /\ IsCode(n, k) /\ n \in Nat /\ k \in Nat \ {0} /\ k < n
        /\ Buffers(n, k, shards, present, encoded)
        /\ present \in SUBSET (0 .. n-1)
    BY <1>3, InUseHas DEF InUse, Buffers
  <2>2. Numbers(present)
    BY <2>1, NumbersBelow
  <2>3. QED
    BY <2>1, <2>2, RankIs
<1>6. CASE encoder = NoEncoder
  <2>1. encoder.k = 0 /\ encoder' = NoEncoder
    BY <1>1, <1>3, <1>6, InUseHas
  <2>2. UNCHANGED buffers
    BY <1>1, <1>6 DEF RecoverCall, buffers
  <2>3. RSInv'
    BY <1>1, <1>2, <1>3, <2>2, SameBuffers
  <2>4. TooFewStep
    BY <1>1, <1>5, <2>1 DEF TooFewStep
  <2>5. RecoveryIsExact'
    BY <2>1 DEF RecoveryIsExact
  <2>6. QED
    BY <1>4, <2>3, <2>4, <2>5 DEF StepExact
<1>7. CASE encoder # NoEncoder /\ Cardinality(present) < k
  <2>1. encoder.k = k /\ encoder'.k = k
    BY <1>1, <1>3, <1>7, InUseHas
  <2>2. result'.code = "RECOVER_FAILED" /\ UNCHANGED buffers
    BY <1>1, <1>7, <2>1 DEF RecoverCall, TooFew, Returned, buffers
  <2>3. RSInv'
    BY <1>1, <1>2, <1>3, <2>2, SameBuffers
  <2>4. TooFewStep
    BY <2>2 DEF TooFewStep, buffers
  <2>5. ~ (Cardinality(present) >= k)
    BY <1>5, <1>7
  <2>6. RecoveryIsExact'
    BY <1>1, <2>1, <2>5 DEF RecoveryIsExact
  <2>7. QED
    BY <1>4, <2>3, <2>4, <2>6 DEF StepExact
<1>8. CASE encoder # NoEncoder /\ ~ (Cardinality(present) < k)
  <2>1. encoder = Enc(n, k) /\ encoder.k = k /\ encoder.n = n
    BY <1>3, <1>8, InUseHas
  <2>2. k <= Cardinality(present)
    BY <1>5, <1>8
  <2>3. RecoverStream(Enc(n, k), present) # NoStream
    BY <1>5, <2>2, RecoverWrites
  <2>4. /\ result'.code = "SUCCESS"
        /\ shards' = IF op = "recover_data" THEN RecoveredData(n, k, shards, present)
                     ELSE RecoveredAll(n, k, shards, present)
        /\ present' = present \cup (0 .. (IF op = "recover" THEN n ELSE k) - 1)
    <3>1. Enc(n, k).n = n /\ Enc(n, k).k = k /\ Enc(n, k) # NoEncoder
      BY <1>8, <2>1
    <3>2. ~ TooFew(Enc(n, k), present)
      BY <1>8, <3>1 DEF TooFew
    <3>3. QED
      BY <2>1, <2>3, <3>1, <3>2 DEF RecoverCall, Returned, RecoveredData, RecoveredAll
  <2>5. /\ Buffers(n, k, RecoveredData(n, k, shards, present), present \cup (0 .. k-1), encoded)
        /\ Buffers(n, k, RecoveredAll(n, k, shards, present), present \cup (0 .. n-1), encoded)
    BY <1>5, <2>2, RecoverCompletes
  <2>6. Buffers(n, k, shards', present', encoded)
    BY <2>4, <2>5
  <2>7. RSInv'
    BY <1>1, <1>2, <1>3, <2>6, BufferCall
  <2>8. TooFewStep
    BY <1>1, <1>8, <2>1 DEF TooFewStep
  <2>9. ASSUME NEW i \in DOMAIN shards', op = "recover" \/ i <= k PROVE shards'[i] = encoded[i]
    <3>1. i \in 1 .. n
      BY <2>6 DEF Buffers
    <3>2. i - 1 \in present' /\ (i - 1) + 1 = i
      BY <1>5, <2>4, <2>9, <3>1
    <3>3. At(shards', i - 1) = At(encoded, i - 1)
      BY <2>6, <3>2 DEF Buffers
    <3>4. QED
      BY <3>2, <3>3 DEF At
  <2>10. RecoveryIsExact'
    BY <1>1, <2>1, <2>4, <2>9 DEF RecoveryIsExact
  <2>11. QED
    BY <1>4, <2>7, <2>8, <2>10 DEF StepExact
<1>9. QED
  BY <1>6, <1>7, <1>8

LEMMA CreateEncodeStreamStep ==
  ASSUME RSInv, NEW chosen \in SUBSET ParityNumbers, CreateEncodeStream(chosen)
  PROVE  RSInv' /\ StepExact
<1>1. /\ code \in Streamed /\ UNCHANGED <<encoder, recover_stream, buffers>>
      /\ encode_stream' = IF encoder = NoEncoder THEN NoStream ELSE EncodeStream(encoder, chosen)
      /\ result'.op = "create_encode_stream"
  BY DEF CreateEncodeStream, Returned
<1>2. MadeEncoder /\ \E n, k : InUse(n, k)
  BY <1>1, NowInUse
<1>3. PICK n, k : InUse(n, k)
  BY <1>2
<1>4. chosen \in SUBSET (0 .. n-k-1) /\ (encoder # NoEncoder => encoder = Enc(n, k))
  BY <1>3, InUseHas DEF ParityNumbers
<1>5. Streams(n, k, encode_stream', recover_stream')
  BY <1>1, <1>3, <1>4 DEF InUse, Streams
<1>6. InUse(n, k)' /\ MadeEncoder'
  BY <1>1, <1>2, <1>3, <1>5 DEF InUse, MadeEncoder, buffers
<1>7. QED
  BY <1>1, <1>6, OtherCalls, StillInUse

LEMMA CreateRecoverStreamStep ==
  ASSUME RSInv, CreateRecoverStream
  PROVE  RSInv' /\ StepExact
<1>1. /\ code \in Streamed /\ UNCHANGED <<encoder, encode_stream, buffers>>
      /\ recover_stream' = IF encoder = NoEncoder THEN NoStream ELSE RecoverStream(encoder, present)
      /\ result'.op = "create_recover_stream"
  BY DEF CreateRecoverStream, Returned
<1>2. MadeEncoder /\ \E n, k : InUse(n, k)
  BY <1>1, NowInUse
<1>3. PICK n, k : InUse(n, k)
  BY <1>2
<1>4. /\ present \in SUBSET (0 .. n-1) /\ Enc(n, k).k = k
      /\ encoder # NoEncoder => encoder = Enc(n, k)
  BY <1>3, InUseHas DEF InUse, Buffers, Enc
<1>5. \/ recover_stream' = NoStream
      \/ ~ (Cardinality(present) < k) /\ recover_stream' = RecoverStream(Enc(n, k), present)
  BY <1>1, <1>4 DEF RecoverStream
<1>6. k <= Cardinality(present) <=> ~ (Cardinality(present) < k)
  <2>1. n \in Nat /\ k \in Nat
    BY <1>3, InUseHas
  <2>2. Numbers(present)
    BY <1>4, <2>1, NumbersBelow
  <2>3. QED
    BY <2>1, <2>2, RankIs
<1>7. Streams(n, k, encode_stream', recover_stream')
  BY <1>1, <1>3, <1>4, <1>5, <1>6 DEF InUse, Streams
<1>8. InUse(n, k)' /\ MadeEncoder'
  BY <1>1, <1>2, <1>3, <1>7 DEF InUse, MadeEncoder, buffers
<1>9. QED
  BY <1>1, <1>8, OtherCalls, StillInUse

LEMMA EncodeByStreamStep ==
  ASSUME RSInv, EncodeByStream
  PROVE  RSInv' /\ StepExact
<1>1. code \in Streamed /\ UNCHANGED <<encoder, streams>> /\ result'.op = "stream_encode"
  BY DEF EncodeByStream, Returned
<1>2. MadeEncoder /\ \E n, k : InUse(n, k)
  BY <1>1, NowInUse
<1>3. PICK n, k : InUse(n, k)
  BY <1>2
<1>4. TooFewStep /\ PartialStep /\ RecoveryIsExact'
  BY <1>1 DEF TooFewStep, PartialStep, RecoveryIsExact
<1>5. CASE encode_stream = NoStream
  <2>1. UNCHANGED buffers /\ result'.code = "INVALID_ARGUMENTS"
    BY <1>5 DEF EncodeByStream, Returned
  <2>2. StreamStep
    BY <2>1 DEF StreamStep
  <2>3. RSInv'
    BY <1>1, <1>2, <1>3, <2>1, SameBuffers
  <2>4. QED
    BY <1>4, <2>2, <2>3 DEF StepExact
<1>6. CASE encode_stream # NoStream
  <2>1. PICK chosen \in SUBSET (0 .. n-k-1) : encode_stream = EncodeStream(Enc(n, k), chosen)
    BY <1>3, <1>6 DEF InUse, Streams
  <2>2. IsCode(n, k) /\ code[1] = n /\ code[2] = k /\ encode_stream.outputs = chosen
    BY <1>3, <2>1, InUseHas DEF EncodeStream
  <2>3. DataShards = 0 .. k-1 /\ ParityShards(chosen) = Parity(k, chosen)
    BY <2>2 DEF DataShards, ParityShards, Parity
  <2>4. /\ shards' = StreamEncode(EncodeStream(Enc(n, k), chosen), shards)
        /\ present' = PresentAfter(0 .. k-1, Parity(k, chosen))
        /\ result'.given = chosen /\ UNCHANGED <<encoded, code>>
    BY <1>6, <2>1, <2>2, <2>3 DEF EncodeByStream, Returned
  <2>5. Writes(n, shards', shards, encoded, Parity(k, chosen), 0 .. k-1 \subseteq present)
    BY <1>3, <2>2, <2>4, EncodeWrites DEF InUse
  <2>6. Buffers(n, k, shards', present', encoded)
    BY <1>3, <2>4, <2>5, WritesKeep DEF InUse, PresentAfter
  <2>7. WritesExactly(Parity(k, chosen), 0 .. k-1)
    BY <1>3, <2>5, WritesAre
  <2>8. StreamStep
    BY <1>1, <2>3, <2>4, <2>7 DEF StreamStep
  <2>9. RSInv'
    BY <1>1, <1>2, <1>3, <2>4, <2>6, BufferCall
  <2>10. QED
    BY <1>4, <2>8, <2>9 DEF StepExact
<1>7. QED
  BY <1>5, <1>6

LEMMA RecoverByStreamStep ==
  ASSUME RSInv, RecoverByStream
  PROVE  RSInv' /\ StepExact
<1>1. code \in Streamed /\ UNCHANGED <<encoder, streams>> /\ result'.op = "stream_recover_data"
  BY DEF RecoverByStream, Returned
<1>2. MadeEncoder /\ \E n, k : InUse(n, k)
  BY <1>1, NowInUse
<1>3. PICK n, k : InUse(n, k)
  BY <1>2
<1>4. TooFewStep /\ PartialStep /\ RecoveryIsExact'
  BY <1>1 DEF TooFewStep, PartialStep, RecoveryIsExact
<1>5. CASE recover_stream = NoStream
  <2>1. UNCHANGED buffers /\ result'.code = "INVALID_ARGUMENTS"
    BY <1>5 DEF RecoverByStream, Returned
  <2>2. StreamStep
    BY <2>1 DEF StreamStep
  <2>3. RSInv'
    BY <1>1, <1>2, <1>3, <2>1, SameBuffers
  <2>4. QED
    BY <1>4, <2>2, <2>3 DEF StepExact
<1>6. CASE recover_stream # NoStream
  <2>1. PICK given \in SUBSET (0 .. n-1) :
          k <= Cardinality(given) /\ recover_stream = RecoverStream(Enc(n, k), given)
    BY <1>3, <1>6 DEF InUse, Streams
  <2>2. IsCode(n, k) /\ Buffers(n, k, shards, present, encoded)
    BY <1>3 DEF InUse
  <2>3. /\ shards' = StreamRecoverData(recover_stream, shards)
        /\ present' = PresentAfter(recover_stream.inputs, recover_stream.outputs)
        /\ result'.given = recover_stream.outputs /\ UNCHANGED <<encoded, code>>
    BY <1>6 DEF RecoverByStream, Returned
  <2>4. Writes(n, shards', shards, encoded, recover_stream.outputs,
               recover_stream.inputs \subseteq present)
    BY <2>1, <2>2, <2>3, RecoverWrites
  <2>5. Buffers(n, k, shards', present', encoded)
    BY <2>2, <2>3, <2>4, WritesKeep DEF PresentAfter
  <2>6. WritesExactly(recover_stream.outputs, recover_stream.inputs)
    BY <1>3, <2>4, WritesAre
  <2>7. StreamStep
    BY <1>1, <2>3, <2>6 DEF StreamStep
  <2>8. RSInv'
    BY <1>1, <1>2, <1>3, <2>3, <2>5, BufferCall
  <2>9. QED
    BY <1>4, <2>7, <2>8 DEF StepExact
<1>7. QED
  BY <1>5, <1>6

LEMMA DestroyStreamsStep ==
  ASSUME RSInv, DestroyStreams
  PROVE  RSInv' /\ StepExact
<1>1. /\ encode_stream # NoStream \/ recover_stream # NoStream
      /\ encode_stream' \in {encode_stream, NoStream}
      /\ recover_stream' \in {recover_stream, NoStream}
      /\ UNCHANGED <<encoder, buffers>> /\ result'.op = "destroy_stream"
  BY DEF DestroyStreams, Returned
<1>2. MadeEncoder /\ \E n, k : InUse(n, k)
  BY <1>1, NowInUse
<1>3. PICK n, k : InUse(n, k)
  BY <1>2
<1>4. Streams(n, k, encode_stream', recover_stream')
  BY <1>1, <1>3 DEF InUse, Streams
<1>5. InUse(n, k)' /\ MadeEncoder'
  BY <1>1, <1>2, <1>3, <1>4 DEF InUse, MadeEncoder, buffers
<1>6. QED
  BY <1>1, <1>5, OtherCalls, StillInUse

LEMMA RSNext == RSInv /\ Next => RSInv' /\ StepExact
<1> SUFFICES ASSUME RSInv, Next PROVE RSInv' /\ StepExact
  OBVIOUS
<1>1. ASSUME NEW p \in Params, CreateEncoder(p) PROVE RSInv' /\ StepExact
  BY <1>1, CreateEncoderStep
<1>2. CASE DestroyEncoder
  BY <1>2, DestroyEncoderStep
<1>3. CASE Encode
  BY <1>3, EncodeStep
<1>4. ASSUME NEW chosen \in SUBSET ParityNumbers, NEW nulls, EncodeSome(chosen, nulls)
      PROVE  RSInv' /\ StepExact
  BY <1>4, EncodeSomeStep
<1>5. ASSUME NEW chosen \in SUBSET ParityNumbers, CreateEncodeStream(chosen)
      PROVE  RSInv' /\ StepExact
  BY <1>5, CreateEncodeStreamStep
<1>6. CASE Lose
  BY <1>6, LoseStep
<1>7. CASE RecoverData \/ Recover
  BY <1>7, RecoverCallStep DEF RecoverData, Recover
<1>8. CASE CreateRecoverStream
  BY <1>8, CreateRecoverStreamStep
<1>9. CASE EncodeByStream
  BY <1>9, EncodeByStreamStep
<1>10. CASE RecoverByStream
  BY <1>10, RecoverByStreamStep
<1>11. CASE DestroyStreams
  BY <1>11, DestroyStreamsStep
<1>12. QED
  BY <1>1, <1>2, <1>3, <1>4, <1>5, <1>6, <1>7, <1>8, <1>9, <1>10, <1>11 DEF Next

-----------------------------------------------------------------------------
(* The theorems.                                                           *)

\* The invariant holds, and every step is what the properties say of it.
THEOREM RSInvariant == Spec => []RSInv
<1>1. RSInv /\ UNCHANGED vars => RSInv'
  BY DEF RSInv, MadeEncoder, Unused, InUse, vars, streams, buffers
<1>2. QED
  BY <1>1, RSInit, RSNext, PTL DEF Spec

\* Any k rows of the coding matrix have an inverse, for every n and k: what
\* create_recover_stream does not look at and what build_matrix asserts is always true.
THEOREM RowsHaveInverse == Spec => []AnyRowsInvert
<1>1. RSInv => AnyRowsInvert
  <2> SUFFICES ASSUME MadeEncoder, encoder # NoEncoder,
                      NEW S \in SUBSET (0 .. encoder.n-1), Cardinality(S) = encoder.k
               PROVE  InverseMatrix([i \in 1 .. encoder.k |-> At(encoder.coding_mat, Ith(S, i-1))],
                                    encoder.k) # Null
    BY DEF RSInv, AnyRowsInvert
  <2>1. PICK n, k : IsCode(n, k) /\ encoder = Enc(n, k)
    BY DEF MadeEncoder
  <2>2. encoder.n = n /\ encoder.k = k /\ encoder.coding_mat = BuildMatrix(n, k)
    BY <2>1 DEF Enc
  <2>3. n \in Byte \ {0} /\ n \in Nat /\ k \in Nat \ {0} /\ k < n
    BY <2>1 DEF IsCode, Byte
  <2> DEFINE C == BuildMatrix(n, k)
             rows == [i \in 1 .. k |-> At(C, Ith(S, i-1))]
             X == [i \in 0 .. k-1 |-> Ith(S, i)]
  <2>4. \A i \in 0 .. k-1 : i + 1 \in 1 .. k /\ (i + 1) - 1 = i
    BY <2>3
  <2>5. \A i \in 0 .. k-1 : At(rows, i) = At(C, X[i])
    BY <2>4 DEF At
  <2>6. \A i \in 0 .. k-1 : X[i] = Ith(S, i)
    OBVIOUS
  <2> HIDE DEF C, rows, X
  <2>7. \A i, c \in 0 .. k-1 : Elem(rows, i, c) = Elem(C, X[i], c)
    BY <2>5 DEF Elem
  <2>8. Chosen(X, k, n)
    BY <2>2, <2>3, <2>6, IthChoose
  <2>9. InverseMatrix(rows, k) # Null
    BY <2>3, <2>7, <2>8, RowsInvert DEF C
  <2>10. QED
    BY <2>2, <2>9 DEF rows, C
<1>2. QED
  BY <1>1, RSInvariant, PTL

\* Recovery from any k shards or more succeeds and leaves what was encoded, for every
\* n, k and data, whatever the lost buffers held and whatever was called before.
THEOREM RecoveryExact == Spec => []RecoveryIsExact
<1>1. RSInv /\ RecoveryIsExact /\ [Next]_vars => RSInv' /\ RecoveryIsExact'
  <2>1. RSInv /\ RecoveryIsExact /\ UNCHANGED vars => RSInv' /\ RecoveryIsExact'
    BY DEF RSInv, MadeEncoder, Unused, InUse, RecoveryIsExact, vars, streams, buffers
  <2>2. QED
    BY <2>1, RSNext DEF StepExact
<1>2. QED
  BY <1>1, RSInit, PTL DEF Spec

\* With fewer than k shards recovery fails, says so and writes no buffer.
THEOREM TooFewReported == Spec => TooFewIsReported
<1>1. RSInv /\ [Next]_vars => [TooFewStep]_vars
  BY RSNext DEF StepExact
<1>2. QED
  BY <1>1, RSInvariant, PTL DEF Spec, TooFewIsReported, TooFewStep

\* A partial encode writes the parity it is asked for, right if the data is there, and
\* touches nothing else.
THEOREM PartialEncodeExact == Spec => PartialEncodeIsExact
<1>1. RSInv /\ [Next]_vars => [PartialStep]_vars
  BY RSNext DEF StepExact
<1>2. QED
  BY <1>1, RSInvariant, PTL DEF Spec, PartialEncodeIsExact, PartialStep

\* A stream does what its encoder would have done, for other data, beyond other losses
\* and beyond the life of its encoder.
THEOREM StreamsExact == Spec => StreamsStayExact
<1>1. RSInv /\ [Next]_vars => [StreamStep]_vars
  BY RSNext DEF StepExact
<1>2. QED
  BY <1>1, RSInvariant, PTL DEF Spec, StreamsStayExact, StreamStep
=============================================================================
