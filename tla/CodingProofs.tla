----------------------------- MODULE CodingProofs -----------------------------
(***************************************************************************)
(* Theorems about ReedSolomon, Fpcc and Damage, for every shape of cluster *)
(* and every content.                                                      *)
(***************************************************************************)
EXTENDS Damage, GF256Proofs, FiniteSetTheorems

-----------------------------------------------------------------------------
(***************************************************************************)
(* The erasure code: the elimination inverts, it fails only on a fragment  *)
(* received twice, the code is systematic, and what is decoded is what was *)
(* encoded.                                                                *)
(***************************************************************************)

-----------------------------------------------------------------------------
(* Vectors of m bytes                                                      *)

Vector(size) == [Below(size) -> Element]
Matrix(size) == [Below(size) -> Vector(size)]

Dot(size, a, b) == _gf_mat_mul_row_vec(a, b, size)
Unit(size, j) == [k \in Below(size) |-> IF k = j THEN One ELSE Zero]
ColumnOf(size, a, j) == [k \in Below(size) |-> a[k][j]]
Origin(size) == [k \in Below(size) |-> Zero]

LEMMA VectorType ==
  /\ \A j \in Below(m) : Unit(m, j) \in Vector(m)
  /\ \A j \in Below(m), a \in Matrix(m) : ColumnOf(m, a, j) \in Vector(m)
  /\ Origin(m) \in Vector(m)
  <1>1. One \in Element /\ Zero \in Element
    BY MulOne DEF Zero, Element
  <1> QED
    BY <1>1 DEF Vector, Matrix, Unit, ColumnOf, Origin

LEMMA DotType ==
  ASSUME m \in Nat, NEW a \in Vector(m), NEW b \in Vector(m)
  PROVE  Dot(m, a, b) \in Element
  <1> DEFINE t == [j \in Below(m) |-> gf_mul(a[j], b[j])]
  <1>1. \A j \in 0..(m - 1) : t[j] \in Element
    BY MulType DEF Below, Vector
  <1>2. GfSum(t, m) \in Element
    BY <1>1, SumType
  <1> QED
    BY <1>2 DEF Dot, _gf_mat_mul_row_vec

LEMMA DotCommutes ==
  ASSUME m \in Nat, NEW a \in Vector(m), NEW b \in Vector(m)
  PROVE  Dot(m, a, b) = Dot(m, b, a)
  <1>1. [j \in Below(m) |-> gf_mul(a[j], b[j])] = [j \in Below(m) |-> gf_mul(b[j], a[j])]
    BY MulCommutes DEF Vector
  <1> QED
    BY <1>1 DEF Dot, _gf_mat_mul_row_vec

LEMMA DotUnit ==
  ASSUME m \in Nat, NEW j \in Below(m), NEW a \in Vector(m)
  PROVE  Dot(m, a, Unit(m, j)) = a[j] /\ Dot(m, Unit(m, j), a) = a[j]
  <1> DEFINE t == [k \in Below(m) |-> gf_mul(a[k], Unit(m, j)[k])]
  <1>1. t[j] = a[j] /\ a[j] \in Element
    BY MulOne DEF Unit, Vector
  <1>2. \A k \in 0..(m - 1) : k # j => t[k] = Zero
    BY MulZero DEF Unit, Below
  <1>3. GfSum(t, m) = a[j]
    <2>1. j \in 0..(m - 1)
      BY DEF Below
    <2> HIDE DEF t
    <2> QED
      BY <1>1, <1>2, <2>1, SumSingle
  <1>4. Dot(m, a, Unit(m, j)) = a[j]
    BY <1>3 DEF Dot, _gf_mat_mul_row_vec
  <1> QED
    BY <1>4, DotCommutes, VectorType

LEMMA DotScales ==
  ASSUME m \in Nat, NEW a \in Vector(m), NEW u \in Vector(m), NEW c \in Element
  PROVE  Dot(m, [k \in Below(m) |-> gf_mul(a[k], c)], u) = gf_mul(c, Dot(m, a, u))
  <1> DEFINE b == [k \in Below(m) |-> gf_mul(a[k], c)]
             t == [k \in Below(m) |-> gf_mul(a[k], u[k])]
             s == [k \in Below(m) |-> gf_mul(b[k], u[k])]
  <1>1. ASSUME NEW k \in 0..(m - 1) PROVE t[k] \in Element /\ s[k] = gf_mul(c, t[k])
    <2>1. k \in Below(m) /\ a[k] \in Element /\ u[k] \in Element
      BY DEF Below, Vector
    <2>2. gf_mul(gf_mul(a[k], c), u[k]) = gf_mul(c, gf_mul(a[k], u[k]))
      BY <2>1, MulCommutes, MulAssociates
    <2> QED
      BY <2>1, <2>2, MulType
  <1>2. GfSum(s, m) = gf_mul(c, GfSum(t, m))
    <2> HIDE DEF s, t
    <2> QED
      BY <1>1, SumScales
  <1> QED
    BY <1>2 DEF Dot, _gf_mat_mul_row_vec

LEMMA DotAdds ==
  ASSUME m \in Nat, NEW a \in Vector(m), NEW b \in Vector(m), NEW u \in Vector(m)
  PROVE  Dot(m, [k \in Below(m) |-> gf_add(a[k], b[k])], u) = gf_add(Dot(m, a, u), Dot(m, b, u))
  <1> DEFINE d == [k \in Below(m) |-> gf_add(a[k], b[k])]
             t == [k \in Below(m) |-> gf_mul(a[k], u[k])]
             w == [k \in Below(m) |-> gf_mul(b[k], u[k])]
             s == [k \in Below(m) |-> gf_mul(d[k], u[k])]
  <1>1. ASSUME NEW k \in 0..(m - 1)
        PROVE  t[k] \in Element /\ w[k] \in Element /\ s[k] = gf_add(t[k], w[k])
    <2>1. k \in Below(m) /\ a[k] \in Element /\ b[k] \in Element /\ u[k] \in Element
      BY DEF Below, Vector
    <2>2. gf_mul(gf_add(a[k], b[k]), u[k]) = gf_add(gf_mul(a[k], u[k]), gf_mul(b[k], u[k]))
      BY <2>1, MulDistributes
    <2> QED
      BY <2>1, <2>2, MulType
  <1>2. GfSum(s, m) = gf_add(GfSum(t, m), GfSum(w, m))
    <2> HIDE DEF s, t, w
    <2> QED
      BY <1>1, SumAdds
  <1> QED
    BY <1>2 DEF Dot, _gf_mat_mul_row_vec

LEMMA DotOrigin ==
  ASSUME m \in Nat, NEW a \in Vector(m)
  PROVE  Dot(m, a, Origin(m)) = Zero
  <1> DEFINE t == [k \in Below(m) |-> gf_mul(a[k], Origin(m)[k])]
  <1>1. \A k \in 0..(m - 1) : t[k] = Zero
    BY MulZero DEF Origin, Below
  <1>2. GfSum(t, m) = Zero
    BY <1>1, SumZero
  <1> QED
    BY <1>2 DEF Dot, _gf_mat_mul_row_vec

(* A row times a matrix times a column.                                    *)
LEMMA DotAssociates ==
  ASSUME m \in Nat, NEW a \in Vector(m), NEW b \in Matrix(m), NEW u \in Vector(m)
  PROVE  /\ Dot(m, [j \in Below(m) |-> Dot(m, a, ColumnOf(m, b, j))], u)
                = Dot(m, a, [k \in Below(m) |-> Dot(m, b[k], u)])
         /\ [j \in Below(m) |-> Dot(m, a, ColumnOf(m, b, j))] \in Vector(m)
         /\ [k \in Below(m) |-> Dot(m, b[k], u)] \in Vector(m)
  <1> DEFINE product == [j \in Below(m) |-> Dot(m, a, ColumnOf(m, b, j))]
             image == [k \in Below(m) |-> Dot(m, b[k], u)]
             term == [k \in Below(m) |-> [j \in Below(m) |->
                        gf_mul(a[k], gf_mul(b[k][j], u[j]))]]
             rows == [k \in 0..(m - 1) |-> GfSum([j \in 0..(m - 1) |-> term[k][j]], m)]
             cols == [j \in 0..(m - 1) |-> GfSum([k \in 0..(m - 1) |-> term[k][j]], m)]
  <1>1. product \in Vector(m) /\ image \in Vector(m)
    BY VectorType, DotType DEF Vector, Matrix
  <1>2. \A k, j \in Below(m) : a[k] \in Element /\ b[k][j] \in Element /\ u[j] \in Element
    BY DEF Vector, Matrix
  <1>3. \A k, j \in 0..(m - 1) : term[k][j] \in Element
    BY <1>2, MulType DEF Below
  <1>4. GfSum(rows, m) = GfSum(cols, m)
    <2> HIDE DEF term
    <2> QED
      BY <1>3, SumSwaps
  <1>5. ASSUME NEW k \in 0..(m - 1) PROVE rows[k] = gf_mul(a[k], image[k])
    <2>1. k \in Below(m)
      BY DEF Below
    <2> DEFINE t == [j \in Below(m) |-> gf_mul(b[k][j], u[j])]
               s == [j \in 0..(m - 1) |-> term[k][j]]
    <2>2. \A j \in 0..(m - 1) : t[j] \in Element /\ s[j] = gf_mul(a[k], t[j])
      BY <1>2, <2>1, MulType DEF Below
    <2>3. GfSum(s, m) = gf_mul(a[k], GfSum(t, m))
      <3> HIDE DEF s, t
      <3> QED
        BY <1>2, <2>1, <2>2, SumScales
    <2>4. image[k] = GfSum(t, m)
      BY <2>1 DEF Dot, _gf_mat_mul_row_vec
    <2> QED
      BY <2>3, <2>4
  <1>6. ASSUME NEW j \in 0..(m - 1) PROVE cols[j] = gf_mul(product[j], u[j])
    <2>1. j \in Below(m)
      BY DEF Below
    <2> DEFINE t == [k \in Below(m) |-> gf_mul(a[k], ColumnOf(m, b, j)[k])]
               s == [k \in 0..(m - 1) |-> term[k][j]]
    <2>2. ASSUME NEW k \in 0..(m - 1)
          PROVE  t[k] \in Element /\ s[k] = gf_mul(u[j], t[k])
      <3>1. k \in Below(m)
        BY DEF Below
      <3>2. t[k] = gf_mul(a[k], b[k][j]) /\ s[k] = gf_mul(a[k], gf_mul(b[k][j], u[j]))
        BY <2>1, <3>1 DEF ColumnOf
      <3>3. a[k] \in Element /\ b[k][j] \in Element /\ u[j] \in Element
        BY <1>2, <2>1, <3>1
      <3> HIDE DEF t, s
      <3>4. gf_mul(a[k], gf_mul(b[k][j], u[j])) = gf_mul(gf_mul(a[k], b[k][j]), u[j])
        BY <3>3, MulAssociates
      <3> QED
        BY <3>2, <3>3, <3>4, MulType, MulCommutes
    <2>3. GfSum(s, m) = gf_mul(u[j], GfSum(t, m))
      <3> HIDE DEF s, t
      <3> QED
        BY <1>2, <2>1, <2>2, SumScales
    <2>4. product[j] = GfSum(t, m)
      BY <2>1 DEF Dot, _gf_mat_mul_row_vec
    <2>5. GfSum(t, m) \in Element /\ u[j] \in Element
      BY <1>1, <1>2, <2>1, <2>4 DEF Vector
    <2> QED
      BY <2>3, <2>4, <2>5, MulCommutes
  <1>7. Dot(m, a, image) = GfSum(rows, m)
    <2>1. [k \in Below(m) |-> gf_mul(a[k], image[k])] = rows
      <3> HIDE DEF image
      <3> QED
        BY <1>5 DEF Below
    <2> QED
      BY <2>1 DEF Dot, _gf_mat_mul_row_vec
  <1>8. Dot(m, product, u) = GfSum(cols, m)
    <2>1. [j \in Below(m) |-> gf_mul(product[j], u[j])] = cols
      <3> HIDE DEF product
      <3> QED
        BY <1>6 DEF Below
    <2> QED
      BY <2>1 DEF Dot, _gf_mat_mul_row_vec
  <1> QED
    BY <1>1, <1>4, <1>7, <1>8

-----------------------------------------------------------------------------
(* Elimination. A row of the augmented matrix is an equation between the   *)
(* unknowns u and the results v; no step changes which u and v solve all.  *)

Row(size) == [Below(2 * size) -> Element]
LeftOf(size, row) == [k \in Below(size) |-> row[k]]
RightOf(size, row) == [k \in Below(size) |-> row[size + k]]
Solves(size, row, u, v) == Dot(size, LeftOf(size, row), u) = Dot(size, RightOf(size, row), v)

ScaledRow(size, row, c) == [k \in Below(2 * size) |-> gf_mul(row[k], c)]
AddedRow(size, row, c, other) == [k \in Below(2 * size) |-> gf_add(row[k], gf_mul(c, other[k]))]

LEMMA HalvesType ==
  ASSUME m \in Nat, NEW row \in Row(m)
  PROVE  LeftOf(m, row) \in Vector(m) /\ RightOf(m, row) \in Vector(m)
  <1>1. \A k \in Below(m) : k \in Below(2 * m) /\ m + k \in Below(2 * m)
    BY DEF Below
  <1> QED
    BY <1>1 DEF Row, Vector, LeftOf, RightOf

LEMMA ScaledRowType ==
  ASSUME m \in Nat, NEW row \in Row(m), NEW c \in Element
  PROVE  ScaledRow(m, row, c) \in Row(m)
  BY MulType DEF Row, ScaledRow

LEMMA AddedRowType ==
  ASSUME m \in Nat, NEW row \in Row(m), NEW c \in Element, NEW other \in Row(m)
  PROVE  AddedRow(m, row, c, other) \in Row(m)
  BY MulType, AddType DEF Row, AddedRow

LEMMA SolvesScaled ==
  ASSUME m \in Nat, NEW row \in Row(m), NEW c \in Element, c # Zero,
         NEW u \in Vector(m), NEW v \in Vector(m)
  PROVE  Solves(m, ScaledRow(m, row, c), u, v) <=> Solves(m, row, u, v)
  <1> DEFINE l == LeftOf(m, row)
             r == RightOf(m, row)
  <1>1. l \in Vector(m) /\ r \in Vector(m)
    BY HalvesType
  <1>2. /\ LeftOf(m, ScaledRow(m, row, c)) = [k \in Below(m) |-> gf_mul(l[k], c)]
        /\ RightOf(m, ScaledRow(m, row, c)) = [k \in Below(m) |-> gf_mul(r[k], c)]
    <2>1. \A k \in Below(m) : k \in Below(2 * m) /\ m + k \in Below(2 * m)
      BY DEF Below
    <2> QED
      BY <2>1 DEF LeftOf, RightOf, ScaledRow
  <1> HIDE DEF l, r
  <1>3. /\ Dot(m, LeftOf(m, ScaledRow(m, row, c)), u) = gf_mul(c, Dot(m, l, u))
        /\ Dot(m, RightOf(m, ScaledRow(m, row, c)), v) = gf_mul(c, Dot(m, r, v))
    BY <1>1, <1>2, DotScales
  <1>4. Dot(m, l, u) \in Element /\ Dot(m, r, v) \in Element
    BY <1>1, DotType
  <1>5. gf_mul(c, Dot(m, l, u)) = gf_mul(c, Dot(m, r, v)) => Dot(m, l, u) = Dot(m, r, v)
    BY <1>4, MulCancels
  <1> QED
    BY <1>3, <1>5 DEF Solves, l, r

LEMMA SolvesAdded ==
  ASSUME m \in Nat, NEW row \in Row(m), NEW c \in Element, NEW other \in Row(m),
         NEW u \in Vector(m), NEW v \in Vector(m), Solves(m, other, u, v)
  PROVE  Solves(m, AddedRow(m, row, c, other), u, v) <=> Solves(m, row, u, v)
  <1> DEFINE l == LeftOf(m, row)
             r == RightOf(m, row)
             x == LeftOf(m, ScaledRow(m, other, c))
             y == RightOf(m, ScaledRow(m, other, c))
  <1>1. ScaledRow(m, other, c) \in Row(m)
    BY ScaledRowType
  <1>2. l \in Vector(m) /\ r \in Vector(m) /\ x \in Vector(m) /\ y \in Vector(m)
    BY <1>1, HalvesType
  <1>3. /\ LeftOf(m, AddedRow(m, row, c, other)) = [k \in Below(m) |-> gf_add(l[k], x[k])]
        /\ RightOf(m, AddedRow(m, row, c, other)) = [k \in Below(m) |-> gf_add(r[k], y[k])]
    <2>1. \A k \in Below(m) : k \in Below(2 * m) /\ m + k \in Below(2 * m)
      BY DEF Below
    <2>2. \A k \in Below(2 * m) : gf_mul(c, other[k]) = gf_mul(other[k], c)
      BY MulCommutes DEF Row
    <2> QED
      BY <2>1, <2>2 DEF LeftOf, RightOf, ScaledRow, AddedRow
  <1>4. Dot(m, x, u) = Dot(m, y, v)
    <2>1. CASE c = Zero
      <3>1. x = Origin(m) /\ y = Origin(m)
        <4>1. \A k \in Below(m) : k \in Below(2 * m) /\ m + k \in Below(2 * m)
          BY DEF Below
        <4> QED
          BY <2>1, <4>1, MulZero DEF LeftOf, RightOf, ScaledRow, Origin
      <3>2. Dot(m, Origin(m), u) = Zero /\ Dot(m, Origin(m), v) = Zero
        BY DotOrigin, DotCommutes, VectorType
      <3> HIDE DEF x, y
      <3> QED
        BY <3>1, <3>2
    <2>2. CASE c # Zero
      BY <2>2, SolvesScaled DEF Solves
    <2> QED
      BY <2>1, <2>2
  <1> HIDE DEF l, r, x, y
  <1>5. /\ Dot(m, LeftOf(m, AddedRow(m, row, c, other)), u) = gf_add(Dot(m, l, u), Dot(m, x, u))
        /\ Dot(m, RightOf(m, AddedRow(m, row, c, other)), v) = gf_add(Dot(m, r, v), Dot(m, x, u))
    BY <1>2, <1>3, <1>4, DotAdds
  <1>6. Dot(m, l, u) \in Element /\ Dot(m, r, v) \in Element /\ Dot(m, x, u) \in Element
    BY <1>2, DotType
  <1>7. gf_add(Dot(m, l, u), Dot(m, x, u)) = gf_add(Dot(m, r, v), Dot(m, x, u)) <=> Dot(m, l, u) = Dot(m, r, v)
    BY <1>6, AddCancels
  <1> QED
    BY <1>5, <1>7 DEF Solves, l, r

(* The augmented matrix a after the first c columns.                       *)
Rows(size) == [Below(size) -> Row(size)]
SolvesAll(size, a, u, v) == \A i \in Below(size) : Solves(size, a[i], u, v)
ColumnsDone(size, a, c) ==
    \A j \in Below(c), i \in Below(size) : a[i][j] = IF i = j THEN One ELSE Zero

LEMMA SwappedKeeps ==
  ASSUME m \in Nat, aug \in Rows(m), NEW c \in Below(m), NEW pivot \in c..(m - 1),
         aug[pivot][c] # Zero, ColumnsDone(m, aug, c)
  PROVE  /\ Swapped(c, pivot) \in Rows(m)
         /\ Swapped(c, pivot)[c][c] # Zero
         /\ ColumnsDone(m, Swapped(c, pivot), c)
         /\ \A u, v \in Vector(m) : SolvesAll(m, Swapped(c, pivot), u, v) <=> SolvesAll(m, aug, u, v)
  <1> DEFINE a == Swapped(c, pivot)
  <1>1. c \in Below(m) /\ pivot \in Below(m)
    BY DEF Below
  <1>2. /\ a \in Rows(m)
        /\ \A i \in Below(m) :
               a[i] = IF i = pivot THEN aug[c] ELSE IF i = c THEN aug[pivot] ELSE aug[i]
    BY <1>1 DEF Swapped, Rows
  <1>3. a[c] = aug[pivot]
    BY <1>1, <1>2
  <1>4. ColumnsDone(m, a, c)
    <2> SUFFICES ASSUME NEW j \in Below(c), NEW i \in Below(m)
                 PROVE  a[i][j] = IF i = j THEN One ELSE Zero
      BY DEF ColumnsDone
    <2>1. j # c /\ j # pivot
      BY DEF Below
    <2>2. \A k \in Below(m) : aug[k][j] = IF k = j THEN One ELSE Zero
      BY DEF ColumnsDone
    <2> QED
      BY <1>1, <1>2, <2>1, <2>2
  <1>5. ASSUME NEW u \in Vector(m), NEW v \in Vector(m)
        PROVE  SolvesAll(m, a, u, v) <=> SolvesAll(m, aug, u, v)
    <2>1. SolvesAll(m, aug, u, v) => SolvesAll(m, a, u, v)
      BY <1>1, <1>2 DEF SolvesAll
    <2>2. ASSUME SolvesAll(m, a, u, v), NEW i \in Below(m) PROVE Solves(m, aug[i], u, v)
      <3>1. \E k \in Below(m) : aug[i] = a[k]
        BY <1>1, <1>2
      <3> QED
        BY <2>2, <3>1 DEF SolvesAll
    <2> QED
      BY <2>1, <2>2 DEF SolvesAll
  <1> QED
    BY <1>2, <1>3, <1>4, <1>5

LEMMA ScaledKeeps ==
  ASSUME m \in Nat, NEW a \in Rows(m), NEW c \in Below(m), a[c][c] # Zero, ColumnsDone(m, a, c)
  PROVE  /\ Scaled(a, c) \in Rows(m)
         /\ Scaled(a, c)[c][c] = One
         /\ ColumnsDone(m, Scaled(a, c), c)
         /\ \A u, v \in Vector(m) : SolvesAll(m, Scaled(a, c), u, v) <=> SolvesAll(m, a, u, v)
  <1> DEFINE inv == gf_inv(a[c][c])
             b == Scaled(a, c)
  <1>1. c \in Below(2 * m)
    BY DEF Below
  <1>2. a[c] \in Row(m) /\ a[c][c] \in Element
    BY <1>1 DEF Rows, Row
  <1>3. inv \in Element /\ gf_mul(a[c][c], inv) = One /\ inv # Zero
    BY <1>2, MulInverse, MulZero, MulOne
  <1>4. b = [a EXCEPT ![c] = ScaledRow(m, a[c], inv)]
    BY DEF Scaled, ScaledRow
  <1> HIDE DEF inv, b
  <1>5. b \in Rows(m) /\ \A i \in Below(m) : b[i] = IF i = c THEN ScaledRow(m, a[c], inv) ELSE a[i]
    BY <1>2, <1>3, <1>4, ScaledRowType DEF Rows
  <1>6. b[c][c] = One
    BY <1>1, <1>3, <1>5 DEF ScaledRow
  <1>7. ColumnsDone(m, b, c)
    <2> SUFFICES ASSUME NEW j \in Below(c), NEW i \in Below(m)
                 PROVE  b[i][j] = IF i = j THEN One ELSE Zero
      BY DEF ColumnsDone
    <2>1. j # c /\ j \in Below(2 * m)
      BY DEF Below
    <2>2. \A k \in Below(m) : a[k][j] = IF k = j THEN One ELSE Zero
      BY DEF ColumnsDone
    <2>3. ScaledRow(m, a[c], inv)[j] = Zero
      BY <2>1, <2>2, MulZero DEF ScaledRow
    <2> QED
      BY <1>5, <2>1, <2>2, <2>3
  <1>8. ASSUME NEW u \in Vector(m), NEW v \in Vector(m)
        PROVE  SolvesAll(m, b, u, v) <=> SolvesAll(m, a, u, v)
    <2>1. Solves(m, ScaledRow(m, a[c], inv), u, v) <=> Solves(m, a[c], u, v)
      BY <1>2, <1>3, SolvesScaled
    <2> QED
      BY <1>5, <2>1 DEF SolvesAll
  <1> QED
    BY <1>5, <1>6, <1>7, <1>8 DEF b

LEMMA EliminatedKeeps ==
  ASSUME m \in Nat, NEW a \in Rows(m), NEW c \in Below(m), a[c][c] = One, ColumnsDone(m, a, c)
  PROVE  /\ Eliminated(a, c) \in Rows(m)
         /\ ColumnsDone(m, Eliminated(a, c), c + 1)
         /\ \A u, v \in Vector(m) : SolvesAll(m, Eliminated(a, c), u, v) <=> SolvesAll(m, a, u, v)
  <1> DEFINE b == Eliminated(a, c)
  <1>1. \A j \in Below(c + 1) : j \in Below(2 * m)
    BY DEF Below
  <1>2. c \in Below(c + 1)
    BY DEF Below
  <1>3. \A i \in Below(m) : a[i] \in Row(m) /\ a[i][c] \in Element
    BY <1>1, <1>2 DEF Rows, Row
  <1>4. \A i \in Below(m) : b[i] = IF i = c THEN a[c] ELSE AddedRow(m, a[i], a[i][c], a[c])
    BY DEF Eliminated, AddedRow
  <1>5. b \in Rows(m)
    <2>1. \A i \in Below(m) : b[i] \in Row(m)
      BY <1>3, <1>4, AddedRowType
    <2> QED
      BY <2>1 DEF Rows, Eliminated
  <1>6. ColumnsDone(m, b, c + 1)
    <2> SUFFICES ASSUME NEW j \in Below(c + 1), NEW i \in Below(m)
                 PROVE  b[i][j] = IF i = j THEN One ELSE Zero
      BY DEF ColumnsDone
    <2>1. j \in Below(2 * m) /\ a[i][j] \in Element
      BY <1>1, <1>3 DEF Row
    <2>2. i # c => b[i][j] = gf_add(a[i][j], gf_mul(a[i][c], a[c][j]))
      BY <1>4, <2>1 DEF AddedRow
    <2>3. i = c => b[i][j] = a[c][j]
      BY <1>4
    <2> HIDE DEF b
    <2>4. CASE j = c
      <3>1. CASE i = c
        BY <2>3, <2>4, <3>1
      <3>2. CASE i # c
        BY <1>3, <2>2, <2>4, <3>2, MulOne, AddIsGroup
      <3> QED
        BY <3>1, <3>2
    <2>5. CASE j # c
      <3>1. j \in Below(c)
        BY <2>5 DEF Below
      <3>2. \A k \in Below(m) : a[k][j] = IF k = j THEN One ELSE Zero
        BY <3>1 DEF ColumnsDone
      <3>3. a[c][j] = Zero
        BY <2>5, <3>2
      <3>4. b[i][j] = a[i][j]
        BY <2>1, <2>2, <2>3, <3>3, MulZero, AddIsGroup
      <3> QED
        BY <3>2, <3>4
    <2> QED
      BY <2>4, <2>5
  <1>7. ASSUME NEW u \in Vector(m), NEW v \in Vector(m)
        PROVE  SolvesAll(m, b, u, v) <=> SolvesAll(m, a, u, v)
    <2>1. (SolvesAll(m, a, u, v) \/ SolvesAll(m, b, u, v)) => Solves(m, a[c], u, v)
      BY <1>4 DEF SolvesAll
    <2>2. ASSUME Solves(m, a[c], u, v), NEW i \in Below(m)
          PROVE  Solves(m, b[i], u, v) <=> Solves(m, a[i], u, v)
      <3>1. CASE i = c
        BY <1>4, <3>1
      <3>2. CASE i # c
        <4>1. Solves(m, AddedRow(m, a[i], a[i][c], a[c]), u, v) <=> Solves(m, a[i], u, v)
          BY <1>3, <2>2, SolvesAdded
        <4> QED
          BY <1>4, <3>2, <4>1
      <3> QED
        BY <3>1, <3>2
    <2> HIDE DEF b
    <2> QED
      BY <2>1, <2>2 DEF SolvesAll
  <1> QED
    BY <1>5, <1>6, <1>7

LEMMA AugmentedStarts ==
  ASSUME m \in Nat, NEW matrix \in Matrix(m)
  PROVE  /\ Augmented(matrix) \in Rows(m)
         /\ ColumnsDone(m, Augmented(matrix), 0)
         /\ \A u, v \in Vector(m) : SolvesAll(m, Augmented(matrix), u, v)
                <=> \A i \in Below(m) : Dot(m, matrix[i], u) = v[i]
  <1> DEFINE a == Augmented(matrix)
  <1>1. One \in Element /\ Zero \in Element
    BY MulOne DEF Zero, Element
  <1>2. a \in Rows(m)
    <2>1. \A i \in Below(m), j \in Below(2 * m) : j < m => matrix[i][j] \in Element
      BY DEF Matrix, Vector, Below
    <2> QED
      BY <1>1, <2>1 DEF Augmented, Rows, Row
  <1>3. ColumnsDone(m, a, 0)
    BY DEF ColumnsDone, Below
  <1>4. ASSUME NEW i \in Below(m) PROVE LeftOf(m, a[i]) = matrix[i] /\ RightOf(m, a[i]) = Unit(m, i)
    <2>1. \A k \in Below(m) :
            k \in Below(2 * m) /\ k < m /\ m + k \in Below(2 * m) /\ ~(m + k < m)
            /\ (m + k) - m = k
      BY DEF Below
    <2>2. matrix[i] = [k \in Below(m) |-> matrix[i][k]]
      BY DEF Matrix, Vector
    <2> QED
      BY <2>1, <2>2 DEF Augmented, LeftOf, RightOf, Unit
  <1>5. ASSUME NEW u \in Vector(m), NEW v \in Vector(m), NEW i \in Below(m)
        PROVE  Solves(m, a[i], u, v) <=> Dot(m, matrix[i], u) = v[i]
    <2>1. Dot(m, Unit(m, i), v) = v[i]
      BY DotUnit
    <2> QED
      BY <1>4, <2>1 DEF Solves
  <1> QED
    BY <1>2, <1>3, <1>5 DEF SolvesAll

LEMMA PivotEliminates ==
  ASSUME m \in Nat, aug \in Rows(m), NEW c \in Below(m), NEW pivot \in Pivots(c),
         ColumnsDone(m, aug, c)
  PROVE  LET a == Eliminated(Scaled(Swapped(c, pivot), c), c)
         IN  /\ a \in Rows(m)
             /\ ColumnsDone(m, a, c + 1)
             /\ \A u, v \in Vector(m) : SolvesAll(m, a, u, v) <=> SolvesAll(m, aug, u, v)
  <1> DEFINE s == Swapped(c, pivot)
             t == Scaled(s, c)
  <1>1. pivot \in c..(m - 1) /\ aug[pivot][c] # Zero
    BY DEF Pivots
  <1>2. /\ s \in Rows(m) /\ s[c][c] # Zero /\ ColumnsDone(m, s, c)
        /\ \A u, v \in Vector(m) : SolvesAll(m, s, u, v) <=> SolvesAll(m, aug, u, v)
    BY <1>1, SwappedKeeps
  <1> HIDE DEF s
  <1>3. /\ t \in Rows(m) /\ t[c][c] = One /\ ColumnsDone(m, t, c)
        /\ \A u, v \in Vector(m) : SolvesAll(m, t, u, v) <=> SolvesAll(m, s, u, v)
    BY <1>2, ScaledKeeps
  <1> HIDE DEF t
  <1>4. /\ Eliminated(t, c) \in Rows(m) /\ ColumnsDone(m, Eliminated(t, c), c + 1)
        /\ \A u, v \in Vector(m) : SolvesAll(m, Eliminated(t, c), u, v) <=> SolvesAll(m, t, u, v)
    BY <1>3, EliminatedKeeps
  <1> QED
    BY <1>2, <1>3, <1>4 DEF s, t

(* What the elimination of a matrix has established after c columns.       *)
Reduced(size, a, matrix, c) ==
    /\ a \in Rows(size)
    /\ ColumnsDone(size, a, c)
    /\ \A u, v \in Vector(size) :
           SolvesAll(size, a, u, v) <=> \A i \in Below(size) : Dot(size, matrix[i], u) = v[i]

(* The left half is the right half times the matrix.                       *)
LEMMA ReducedIsProduct ==
  ASSUME m \in Nat, NEW matrix \in Matrix(m), NEW c \in Nat, NEW a, Reduced(m, a, matrix, c),
         NEW i \in Below(m), NEW j \in Below(m)
  PROVE  a[i][j] = Dot(m, RightOf(m, a[i]), ColumnOf(m, matrix, j))
  <1>1. \A k \in Below(m) : Dot(m, matrix[k], Unit(m, j)) = ColumnOf(m, matrix, j)[k]
    BY DotUnit DEF Matrix, ColumnOf
  <1>2. SolvesAll(m, a, Unit(m, j), ColumnOf(m, matrix, j))
    BY <1>1, VectorType DEF Reduced
  <1>3. a[i] \in Row(m) /\ LeftOf(m, a[i]) \in Vector(m)
    BY HalvesType DEF Reduced, Rows
  <1>4. Dot(m, LeftOf(m, a[i]), Unit(m, j)) = a[i][j]
    BY <1>3, DotUnit DEF LeftOf
  <1> QED
    BY <1>2, <1>4 DEF SolvesAll, Solves

IsInverse(size, r, matrix) ==
    /\ r \in Matrix(size)
    /\ \A i, j \in Below(size) : /\ Dot(size, r[i], ColumnOf(size, matrix, j)) = Unit(size, j)[i]
                              /\ Dot(size, matrix[i], ColumnOf(size, r, j)) = Unit(size, j)[i]

RightHalf(size, a) == [i \in Below(size) |-> RightOf(size, a[i])]

(* After the last column the right half is the inverse, on either side.    *)
LEMMA ReducedInverts ==
  ASSUME m \in Nat, NEW matrix \in Matrix(m), NEW a, Reduced(m, a, matrix, m)
  PROVE  IsInverse(m, RightHalf(m, a), matrix)
  <1>1. RightHalf(m, a) \in Matrix(m) /\ \A i \in Below(m) : a[i] \in Row(m)
    BY HalvesType DEF Reduced, Rows, RightHalf, Matrix
  <1>2. ASSUME NEW i \in Below(m), NEW j \in Below(m)
        PROVE  Dot(m, RightHalf(m, a)[i], ColumnOf(m, matrix, j)) = Unit(m, j)[i]
    <2>1. a[i][j] = Unit(m, j)[i]
      BY DEF Reduced, ColumnsDone, Unit
    <2> QED
      BY <2>1, ReducedIsProduct DEF RightHalf
  <1>3. ASSUME NEW j \in Below(m)
        PROVE  \A i \in Below(m) : Dot(m, matrix[i], ColumnOf(m, RightHalf(m, a), j)) = Unit(m, j)[i]
    <2> DEFINE u == ColumnOf(m, RightHalf(m, a), j)
    <2>1. u \in Vector(m) /\ Unit(m, j) \in Vector(m)
      BY <1>1, VectorType
    <2>2. ASSUME NEW i \in Below(m) PROVE Solves(m, a[i], u, Unit(m, j))
      <3>1. LeftOf(m, a[i]) = Unit(m, i)
        BY DEF Reduced, ColumnsDone, Unit, LeftOf
      <3>2. Dot(m, LeftOf(m, a[i]), u) = u[i]
        <4> HIDE DEF u
        <4> QED
          BY <2>1, <3>1, DotUnit
      <3>3. u[i] = RightOf(m, a[i])[j]
        BY DEF ColumnOf, RightHalf
      <3>4. Dot(m, RightOf(m, a[i]), Unit(m, j)) = RightOf(m, a[i])[j]
        BY <1>1, HalvesType, DotUnit
      <3> QED
        BY <3>2, <3>3, <3>4 DEF Solves
    <2>3. SolvesAll(m, a, u, Unit(m, j))
      BY <2>2 DEF SolvesAll
    <2> HIDE DEF u
    <2> QED
      BY <2>1, <2>3 DEF Reduced, u
  <1> QED
    BY <1>1, <1>2, <1>3 DEF IsInverse

(* A column without a pivot is a combination of the columns before it: the *)
(* matrix maps a vector that is not zero to zero.                          *)
LEMMA NoPivotIsSingular ==
  ASSUME m \in Nat, aug \in Rows(m), NEW matrix \in Matrix(m), NEW c \in Below(m),
         Reduced(m, aug, matrix, c), Pivots(c) = {}
  PROVE  \E u \in Vector(m) : u[c] = One /\ \A i \in Below(m) : Dot(m, matrix[i], u) = Zero
  <1> DEFINE w == [k \in Below(m) |-> IF k < c THEN aug[k][c] ELSE Zero]
             u == [k \in Below(m) |-> gf_add(w[k], Unit(m, c)[k])]
  <1>1. c \in Below(2 * m) /\ \A k \in Below(m) : k \in Below(2 * m)
    BY DEF Below
  <1>2. \A i \in Below(m) : aug[i] \in Row(m) /\ aug[i][c] \in Element /\ LeftOf(m, aug[i]) \in Vector(m)
                            /\ RightOf(m, aug[i]) \in Vector(m)
    BY <1>1, HalvesType DEF Rows, Row
  <1>3. w \in Vector(m) /\ Unit(m, c) \in Vector(m) /\ Origin(m) \in Vector(m)
    BY <1>2, VectorType DEF Vector, Zero, Element
  <1>4. u \in Vector(m)
    BY <1>3, AddType DEF Vector
  <1>5. u[c] = One
    <2>1. w[c] = Zero /\ Unit(m, c)[c] = One
      BY DEF Unit, Below
    <2>2. One \in Element
      BY MulOne DEF Zero, Element
    <2> QED
      BY <2>1, <2>2, AddIsGroup
  <1>6. ASSUME NEW i \in Below(m) PROVE Dot(m, w, LeftOf(m, aug[i])) = aug[i][c]
    <2> DEFINE t == [k \in Below(m) |-> gf_mul(w[k], LeftOf(m, aug[i])[k])]
    <2>1. ASSUME NEW k \in Below(m), k # i PROVE t[k] = Zero
      <3>1. CASE k < c
        <4>1. k \in Below(c)
          BY <3>1 DEF Below
        <4>2. aug[i][k] = Zero
          BY <2>1, <4>1 DEF Reduced, ColumnsDone
        <4>3. LeftOf(m, aug[i])[k] = Zero
          BY <4>2 DEF LeftOf
        <4> QED
          BY <4>3, MulZero
      <3>2. CASE ~(k < c)
        BY <3>2, MulZero
      <3> QED
        BY <3>1, <3>2
    <2>2. t[i] = aug[i][c]
      <3>1. CASE i < c
        <4>1. i \in Below(c)
          BY <3>1 DEF Below
        <4>2. aug[i][i] = One
          BY <4>1 DEF Reduced, ColumnsDone
        <4>3. LeftOf(m, aug[i])[i] = One /\ w[i] = aug[i][c]
          BY <3>1, <4>2 DEF LeftOf
        <4> QED
          BY <1>2, <4>3, MulOne
      <3>2. CASE ~(i < c)
        <4>1. i \in c..(m - 1)
          BY <3>2 DEF Below
        <4>2. aug[i][c] = Zero
          BY <4>1 DEF Pivots
        <4> QED
          BY <3>2, <4>2, MulZero
      <3> QED
        BY <3>1, <3>2
    <2>3. GfSum(t, m) = t[i]
      <3>1. i \in 0..(m - 1) /\ \A k \in 0..(m - 1) : k # i => t[k] = Zero
        BY <2>1 DEF Below
      <3>2. t[i] \in Element
        BY <1>2, <2>2
      <3> HIDE DEF t
      <3> QED
        BY <3>1, <3>2, SumSingle
    <2> QED
      BY <2>2, <2>3 DEF Dot, _gf_mat_mul_row_vec
  <1>7. ASSUME NEW i \in Below(m) PROVE Solves(m, aug[i], u, Origin(m))
    <2> DEFINE l == LeftOf(m, aug[i])
    <2>1. l \in Vector(m) /\ l[c] = aug[i][c]
      BY <1>2 DEF LeftOf
    <2> HIDE DEF w, l
    <2>2. Dot(m, u, l) = gf_add(Dot(m, w, l), Dot(m, Unit(m, c), l))
      BY <1>3, <2>1, DotAdds
    <2>3. Dot(m, Unit(m, c), l) = aug[i][c]
      BY <2>1, DotUnit
    <2>4. Dot(m, w, l) = aug[i][c]
      BY <1>6 DEF l
    <2> HIDE DEF u
    <2>5. Dot(m, l, u) = Zero
      BY <1>2, <1>4, <2>1, <2>2, <2>3, <2>4, AddIsGroup, DotCommutes
    <2>6. Dot(m, RightOf(m, aug[i]), Origin(m)) = Zero
      BY <1>2, DotOrigin
    <2> QED
      BY <2>5, <2>6 DEF Solves, l
  <1>8. SolvesAll(m, aug, u, Origin(m))
    BY <1>7 DEF SolvesAll
  <1> HIDE DEF u
  <1>9. \A i \in Below(m) : Dot(m, matrix[i], u) = Origin(m)[i]
    BY <1>3, <1>4, <1>8 DEF Reduced
  <1>10. \A i \in Below(m) : Dot(m, matrix[i], u) = Zero
    BY <1>9 DEF Origin
  <1> QED
    BY <1>4, <1>5, <1>10

-----------------------------------------------------------------------------
(* The inductive invariant                                                 *)

PowerRows(k, size) == [i \in Below(k) |-> _make_vandermonde_row(Byte(i + 1), size)]

(* The generator g is the Vandermonde matrix times the inverse of its top. *)
GeneratedBy(k, size, g, r) ==
    /\ IsInverse(size, r, PowerRows(size, size))
    /\ g = [i \in Below(k) |-> [j \in Below(size) |->
              Dot(size, PowerRows(k, size)[i], ColumnOf(size, r, j))]]
Generated(k, size, g) == \E r : GeneratedBy(k, size, g, r)

Distinct(size, rows) == \A j, k \in Below(size) : rows[j] = rows[k] => j = k

CodeInv ==
    /\ n \in 1..255 /\ m \in 1..n
    /\ phase \in {"generator", "encode", "decode", "inverted", "raised"}
    /\ col \in 0..m
    /\ input \in Matrix(m)
    /\ Reduced(m, aug, input, col)
    /\ phase = "generator" => input = PowerRows(m, m)
    /\ phase # "generator" => Generated(n, m, G)
    /\ phase \in {"decode", "inverted", "raised"} =>
           /\ indices \in [Below(m) -> Below(n)]
           /\ input = [j \in Below(m) |-> G[indices[j]]]
    /\ phase = "inverted" => col = m
    /\ phase = "raised" => ~Distinct(m, indices)

LEMMA VandermondeType ==
  ASSUME n \in 1..255, m \in 1..n
  PROVE  /\ m \in Nat /\ Below(m) \subseteq Below(n)
         /\ \A i \in Below(n) : Vandermonde[i] \in Vector(m)
         /\ PowerRows(m, m) \in Matrix(m)
         /\ Vandermonde = PowerRows(n, m)
         /\ \A i \in Below(m) : PowerRows(m, m)[i] = Vandermonde[i]
         /\ \A i \in Below(n), u \in Vector(m) :
                Dot(m, Vandermonde[i], u) = Polynomial(u, m, Byte(i + 1))
  <1>1. m \in Nat /\ Below(m) \subseteq Below(n)
    BY DEF Below
  <1>2. ASSUME NEW i \in Below(n)
        PROVE  Vandermonde[i] = [j \in Below(m) |-> gf_pow(Byte(i + 1), j)]
    BY DEF Vandermonde, _make_vandermonde_row
  <1>3. ASSUME NEW i \in Below(n) PROVE Vandermonde[i] \in Vector(m)
    <2>1. Byte(i + 1) \in Element
      BY DEF Byte, Element
    <2>2. \A j \in Below(m) : gf_pow(Byte(i + 1), j) \in Element
      BY <2>1, PowStep DEF Below
    <2> QED
      BY <1>2, <2>2 DEF Vector
  <1>4. ASSUME NEW i \in Below(n), NEW u \in Vector(m)
        PROVE  Dot(m, Vandermonde[i], u) = Polynomial(u, m, Byte(i + 1))
    <2>1. [j \in Below(m) |-> gf_mul(Vandermonde[i][j], u[j])]
            = [j \in 0..(m - 1) |-> Term(u, Byte(i + 1), j)]
      BY <1>2 DEF Term, Below
    <2> QED
      BY <2>1 DEF Dot, _gf_mat_mul_row_vec, Polynomial
  <1>5. Vandermonde = PowerRows(n, m)
    BY DEF Vandermonde, PowerRows
  <1>6. /\ PowerRows(m, m) \in Matrix(m)
        /\ \A i \in Below(m) : PowerRows(m, m)[i] = Vandermonde[i]
    BY <1>1, <1>3, <1>5 DEF PowerRows, Matrix
  <1> QED
    BY <1>1, <1>3, <1>4, <1>5, <1>6

(* Different rows of the Vandermonde matrix map no vector but the origin   *)
(* to zero.                                                                *)
LEMMA VandermondeIsRegular ==
  ASSUME n \in 1..255, m \in 1..n, NEW rows \in [Below(m) -> Below(n)],
         Distinct(m, rows),
         NEW u \in Vector(m), \A j \in Below(m) : Dot(m, Vandermonde[rows[j]], u) = Zero
  PROVE  u = Origin(m)
  <1> DEFINE points == [j \in 0..(m - 1) |-> Byte(rows[j] + 1)]
  <1>1. ASSUME NEW j \in 0..(m - 1)
        PROVE  j \in Below(m) /\ rows[j] \in Below(n) /\ rows[j] + 1 \in 0..255 /\ rows[j] \in Int
    <2>1. j \in Below(m)
      BY DEF Below
    <2>2. PICK i \in Below(n) : i = rows[j]
      BY <2>1
    <2>3. i \in Int /\ i + 1 \in 0..255
      BY DEF Below
    <2> QED
      BY <2>1, <2>2, <2>3
  <1>2. points \in [0..(m - 1) -> Element] /\ u \in [0..(m - 1) -> Element]
    BY DEF Byte, Element, Vector, Below
  <1>3. Injective(points, m)
    <2> SUFFICES ASSUME NEW i \in 0..(m - 1), NEW j \in 0..(m - 1), points[i] = points[j]
                 PROVE  i = j
      BY DEF Injective
    <2>1. PICK a \in 0..255, b \in 0..255 : a = rows[i] + 1 /\ b = rows[j] + 1
      BY <1>1
    <2>2. Byte(a) = Byte(b)
      BY <2>1
    <2>3. a = b
      BY <2>2, TablesAssumption
    <2>4. rows[i] = rows[j]
      BY <1>1, <2>1, <2>3
    <2> QED
      BY <1>1, <2>4 DEF Distinct
  <1>4. \A j \in 0..(m - 1) : Polynomial(u, m, points[j]) = Zero
    BY <1>1, VandermondeType
  <1>5. m \in Nat
    OBVIOUS
  <1>6. \A j \in 0..(m - 1) : u[j] = Zero
    <2> HIDE DEF points
    <2> QED
      BY <1>2, <1>3, <1>4, <1>5, RootsVanish
  <1> QED
    BY <1>2, <1>6 DEF Origin, Below

LEMMA GeneratedMaps ==
  ASSUME n \in 1..255, m \in 1..n, NEW r, GeneratedBy(n, m, G, r)
  PROVE  /\ \A i \in Below(n) : G[i] \in Vector(m)
         /\ \A i \in Below(m) : G[i] = Unit(m, i)
         /\ \A u \in Vector(m) : [k \in Below(m) |-> Dot(m, r[k], u)] \in Vector(m)
         /\ \A i \in Below(n), u \in Vector(m) :
                Dot(m, G[i], u) = Dot(m, Vandermonde[i], [k \in Below(m) |-> Dot(m, r[k], u)])
  <1>1. r \in Matrix(m) /\ m \in Nat
    BY DEF GeneratedBy, IsInverse
  <1>2. ASSUME NEW i \in Below(n)
        PROVE  G[i] = [j \in Below(m) |-> Dot(m, Vandermonde[i], ColumnOf(m, r, j))]
    BY VandermondeType DEF GeneratedBy
  <1>3. ASSUME NEW i \in Below(n), NEW u \in Vector(m)
        PROVE  /\ G[i] \in Vector(m)
               /\ [k \in Below(m) |-> Dot(m, r[k], u)] \in Vector(m)
               /\ Dot(m, G[i], u) = Dot(m, Vandermonde[i], [k \in Below(m) |-> Dot(m, r[k], u)])
    <2>1. PICK a \in Vector(m) : a = Vandermonde[i]
      BY VandermondeType
    <2>2. G[i] = [j \in Below(m) |-> Dot(m, a, ColumnOf(m, r, j))]
      BY <1>2, <2>1
    <2>3. /\ Dot(m, [j \in Below(m) |-> Dot(m, a, ColumnOf(m, r, j))], u)
                = Dot(m, a, [k \in Below(m) |-> Dot(m, r[k], u)])
          /\ [j \in Below(m) |-> Dot(m, a, ColumnOf(m, r, j))] \in Vector(m)
          /\ [k \in Below(m) |-> Dot(m, r[k], u)] \in Vector(m)
      BY <1>1, DotAssociates
    <2> QED
      BY <2>1, <2>2, <2>3
  <1>4. ASSUME NEW i \in Below(m) PROVE G[i] = Unit(m, i)
    <2>1. i \in Below(n) /\ PowerRows(m, m)[i] = Vandermonde[i]
      BY VandermondeType
    <2>2. \A j \in Below(m) : Dot(m, Vandermonde[i], ColumnOf(m, r, j)) = Unit(m, j)[i]
      BY <2>1 DEF GeneratedBy, IsInverse
    <2>3. \A j \in Below(m) : Unit(m, j)[i] = Unit(m, i)[j]
      BY DEF Unit
    <2>4. Unit(m, i) = [j \in Below(m) |-> Unit(m, i)[j]]
      BY DEF Unit
    <2> QED
      BY <1>2, <2>1, <2>2, <2>3, <2>4
  <1>5. Below(n) # {} /\ Origin(m) \in Vector(m)
    <2>1. 0 \in Below(n)
      BY DEF Below
    <2> QED
      BY <2>1, VectorType
  <1> QED
    BY <1>3, <1>4, <1>5

(* Different rows of the generator have no column without a pivot.         *)
LEMMA GeneratorIsRegular ==
  ASSUME n \in 1..255, m \in 1..n, Generated(n, m, G), NEW rows \in [Below(m) -> Below(n)],
         Distinct(m, rows),
         NEW u \in Vector(m), \A j \in Below(m) : Dot(m, G[rows[j]], u) = Zero
  PROVE  u = Origin(m)
  <1>1. PICK r : GeneratedBy(n, m, G, r)
    BY DEF Generated
  <1> DEFINE w == [k \in Below(m) |-> Dot(m, r[k], u)]
  <1>2. w \in Vector(m) /\ \A i \in Below(n) : Dot(m, G[i], u) = Dot(m, Vandermonde[i], w)
    BY <1>1, GeneratedMaps
  <1>3. \A j \in Below(m) : rows[j] \in Below(n)
    OBVIOUS
  <1>4. w = Origin(m)
    <2> HIDE DEF w
    <2> QED
      BY <1>2, <1>3, VandermondeIsRegular
  <1>5. ASSUME NEW i \in Below(m) PROVE u[i] = Zero
    <2>1. i \in Below(n) /\ m \in Nat /\ Vandermonde[i] \in Vector(m)
      BY VandermondeType
    <2>2. Dot(m, G[i], u) = Zero
      <3> HIDE DEF w
      <3> QED
        BY <1>2, <1>4, <2>1, DotOrigin
    <2>3. G[i] = Unit(m, i)
      BY <1>1, GeneratedMaps
    <2> QED
      BY <2>1, <2>2, <2>3, DotUnit
  <1> QED
    BY <1>5 DEF Vector, Origin

(* Initially the top of the Vandermonde matrix is to be inverted.          *)
LEMMA InitCode == Init => CodeInv
  <1> SUFFICES ASSUME Init PROVE CodeInv
    OBVIOUS
  <1>1. n \in 1..255 /\ m \in 1..n
    <2>1. PICK shape \in Shape : n = shape[1] /\ m = shape[2]
      BY DEF Init
    <2>2. shape \in (1..255) \X (1..255) /\ shape[2] <= shape[1]
      BY ShapeAssumption
    <2>3. n \in 1..255 /\ m \in 1..255 /\ m <= n
      BY <2>1, <2>2
    <2> QED
      BY <2>3
  <1>2. m \in Nat /\ PowerRows(m, m) \in Matrix(m)
    BY <1>1, VandermondeType
  <1>3. input = PowerRows(m, m)
    <2>1. \A i \in Below(m) : PowerRows(m, m)[i] = Vandermonde[i]
      BY <1>1, VandermondeType
    <2>2. PowerRows(m, m) = [i \in Below(m) |-> PowerRows(m, m)[i]]
      BY DEF PowerRows
    <2> QED
      BY <2>1, <2>2 DEF Init
  <1>4. Reduced(m, aug, input, 0)
    BY <1>2, <1>3, AugmentedStarts DEF Init, Reduced
  <1> QED
    BY <1>1, <1>2, <1>3, <1>4 DEF Init, CodeInv

(* A column without a pivot: some fragment was received twice.             *)
LEMMA SingularIsTwice ==
  ASSUME CodeInv, phase \in {"generator", "decode"}, col < m, Pivots(col) = {}
  PROVE  phase = "decode" /\ ~Distinct(m, indices)
  <1>1. /\ n \in 1..255 /\ m \in 1..n /\ m \in Nat /\ col \in Below(m)
        /\ input \in Matrix(m) /\ aug \in Rows(m) /\ Reduced(m, aug, input, col)
    BY DEF CodeInv, Below, Reduced
  <1>2. PICK u \in Vector(m) : u[col] = One /\ \A i \in Below(m) : Dot(m, input[i], u) = Zero
    BY <1>1, NoPivotIsSingular
  <1>3. u # Origin(m)
    BY <1>1, <1>2, MulOne DEF Origin, Zero, Element
  <1>4. phase # "generator"
    <2> SUFFICES ASSUME phase = "generator" PROVE FALSE
      OBVIOUS
    <2> DEFINE rows == [i \in Below(m) |-> i]
    <2>1. rows \in [Below(m) -> Below(n)] /\ Distinct(m, rows)
      BY <1>1, VandermondeType DEF Distinct
    <2>2. \A i \in Below(m) : input[i] = Vandermonde[rows[i]]
      BY <1>1, VandermondeType DEF CodeInv
    <2> HIDE DEF rows
    <2> QED
      BY <1>1, <1>2, <1>3, <2>1, <2>2, VandermondeIsRegular
  <1>5. ~Distinct(m, indices)
    <2>1. /\ indices \in [Below(m) -> Below(n)] /\ Generated(n, m, G)
          /\ \A i \in Below(m) : input[i] = G[indices[i]]
      BY <1>4 DEF CodeInv
    <2> QED
      BY <1>1, <1>2, <1>3, <2>1, GeneratorIsRegular
  <1> QED
    BY <1>4, <1>5

(* Equal rows of a matrix that has an inverse are the same row.            *)
LEMMA InverseIsDistinct ==
  ASSUME CodeInv, phase = "inverted"
  PROVE  Distinct(m, indices)
  <1> SUFFICES ASSUME NEW j \in Below(m), NEW k \in Below(m), indices[j] = indices[k], j # k
               PROVE  FALSE
    BY DEF Distinct
  <1>1. m \in Nat /\ input \in Matrix(m) /\ Reduced(m, aug, input, m)
    BY DEF CodeInv
  <1>2. IsInverse(m, RightHalf(m, aug), input)
    BY <1>1, ReducedInverts
  <1>3. input[j] = input[k]
    BY DEF CodeInv
  <1>4. Unit(m, j)[j] = Unit(m, j)[k]
    BY <1>2, <1>3 DEF IsInverse
  <1> QED
    BY <1>4, MulOne DEF Unit, Zero, Element

LEMMA NextCode == CodeInv /\ [Next]_rsVars => CodeInv'
  <1> SUFFICES ASSUME CodeInv, [Next]_rsVars PROVE CodeInv'
    OBVIOUS
  <1>1. /\ n \in 1..255 /\ m \in 1..n /\ m \in Nat /\ col \in 0..m
        /\ input \in Matrix(m) /\ Reduced(m, aug, input, col)
    BY DEF CodeInv
  <1>2. CASE Column
    <2>1. col \in Below(m) /\ aug \in Rows(m) /\ ColumnsDone(m, aug, col) /\ col + 1 \in 0..m
      BY <1>1, <1>2 DEF Column, Below, Reduced
    <2>2. PICK pivot \in Pivots(col) :
            aug' = Eliminated(Scaled(Swapped(col, pivot), col), col)
      BY <1>2 DEF Column
    <2>3. /\ aug' \in Rows(m) /\ ColumnsDone(m, aug', col + 1)
          /\ \A u, v \in Vector(m) : SolvesAll(m, aug', u, v) <=> SolvesAll(m, aug, u, v)
      BY <1>1, <2>1, <2>2, PivotEliminates
    <2>4. Reduced(m, aug', input, col + 1)
      BY <1>1, <2>3 DEF Reduced
    <2> QED
      BY <1>1, <1>2, <2>1, <2>4 DEF CodeInv, Column
  <1>3. CASE RaiseSingular
    <2>1. phase = "decode" /\ ~Distinct(m, indices)
      BY <1>3, SingularIsTwice DEF RaiseSingular
    <2> QED
      BY <1>1, <1>3, <2>1 DEF CodeInv, RaiseSingular
  <1>4. CASE MakeGenerator
    <2>1. IsInverse(m, RightHalf(m, aug), PowerRows(m, m))
      BY <1>1, <1>4, ReducedInverts DEF CodeInv, MakeGenerator
    <2>2. RightHalf(m, aug) = Right
      <3>1. \A i \in Below(m) : RightOf(m, aug[i]) = [j \in Below(m) |-> aug[i][m + j]]
        BY DEF RightOf
      <3> QED
        BY <3>1 DEF RightHalf, Right
    <2>3. GeneratedBy(n, m, G', RightHalf(m, aug))
      BY <1>1, <1>4, <2>1, <2>2, VandermondeType
         DEF GeneratedBy, MakeGenerator, Generator, Times, Dot, ColumnOf
    <2>4. Generated(n, m, G')
      BY <2>3 DEF Generated
    <2> QED
      BY <1>1, <1>4, <2>4 DEF CodeInv, MakeGenerator
  <1>5. CASE Receive
    <2>1. /\ Generated(n, m, G) /\ indices' \in [Below(m) -> Below(n)]
          /\ input' = [j \in Below(m) |-> G[indices'[j]]]
          /\ aug' = Augmented(input') /\ col' = 0
      BY <1>5 DEF CodeInv, Receive, Start
    <2>2. \A i \in Below(n) : G[i] \in Vector(m)
      BY <1>1, <2>1, GeneratedMaps DEF Generated
    <2>3. input' \in Matrix(m)
      BY <2>1, <2>2 DEF Matrix
    <2>4. Reduced(m, aug', input', 0)
      BY <1>1, <2>1, <2>3, AugmentedStarts DEF Reduced
    <2> QED
      BY <1>1, <1>5, <2>1, <2>3, <2>4 DEF CodeInv, Receive
  <1>6. CASE Invert
    BY <1>1, <1>6 DEF CodeInv, Invert
  <1>7. CASE UNCHANGED rsVars
    BY <1>7 DEF CodeInv, rsVars
  <1> QED
    BY <1>2, <1>3, <1>4, <1>5, <1>6, <1>7 DEF Next

(* The elimination keeps, at every column of either matrix and whichever   *)
(* fragments it decodes, the left half equal to the right half times the   *)
(* matrix (rs.py _gf_matrix_inverse).                                      *)
THEOREM EliminationCorrect == Spec => []EliminationInvariant
  <1>1. CodeInv => EliminationInvariant
    <2> SUFFICES ASSUME CodeInv PROVE EliminationInvariant
      OBVIOUS
    <2>1. m \in Nat /\ input \in Matrix(m) /\ Reduced(m, aug, input, col) /\ col \in 0..m
      BY DEF CodeInv
    <2>2. ASSUME NEW i \in Below(m), NEW j \in Below(m)
          PROVE  Left[i][j] = Times(Right, Below(m), input)[i][j]
      <3>1. aug[i][j] = Dot(m, RightOf(m, aug[i]), ColumnOf(m, input, j))
        BY <2>1, ReducedIsProduct
      <3> QED
        BY <3>1 DEF Left, Times, Right, RightOf, Dot, ColumnOf
    <2>3. Left = Times(Right, Below(m), input)
      <3>1. \A i \in Below(m) : Left[i] = Times(Right, Below(m), input)[i]
        <4>1. \A i \in Below(m) : /\ Left[i] = [j \in Below(m) |-> Left[i][j]]
                                  /\ Times(Right, Below(m), input)[i]
                                       = [j \in Below(m) |-> Times(Right, Below(m), input)[i][j]]
          BY DEF Left, Times
        <4> QED
          BY <2>2, <4>1
      <3>2. /\ Left = [i \in Below(m) |-> Left[i]]
            /\ Times(Right, Below(m), input)
                 = [i \in Below(m) |-> Times(Right, Below(m), input)[i]]
        BY DEF Left, Times
      <3> QED
        BY <3>1, <3>2
    <2>4. \A j \in Below(col), i \in Below(m) : aug[i][j] = Identity[i][j]
      <3>1. \A j \in Below(col) : j \in Below(m)
        BY <2>1 DEF Below
      <3> QED
        BY <2>1, <3>1 DEF Reduced, ColumnsDone, Identity
    <2> QED
      BY <2>3, <2>4 DEF EliminationInvariant
  <1> QED
    BY <1>1, InitCode, NextCode, PTL DEF Spec

(* Any m fragments that differ decode; the elimination raises exactly when *)
(* one was received twice (avid_fp.py "Any m fragments suffice").          *)
THEOREM AnyDistinctSufficeCorrect == Spec => []AnyDistinctSuffice
  <1>1. CodeInv => AnyDistinctSuffice
    <2> SUFFICES ASSUME CodeInv PROVE AnyDistinctSuffice
      OBVIOUS
    <2>1. phase \in {"inverted", "raised"} => DOMAIN indices = Below(m)
      BY DEF CodeInv
    <2>2. phase = "raised" => ~Distinct(m, indices)
      BY DEF CodeInv
    <2>3. phase = "inverted" => Distinct(m, indices)
      BY InverseIsDistinct
    <2> QED
      BY <2>1, <2>2, <2>3 DEF AnyDistinctSuffice, Distinct
  <1> QED
    BY <1>1, InitCode, NextCode, PTL DEF Spec

(* The first m fragments are the data itself (fpcc.py takes fp[i] as it    *)
(* is for i < m).                                                          *)
THEOREM SystematicCorrect == Spec => []Systematic
  <1>1. CodeInv => Systematic
    <2> SUFFICES ASSUME CodeInv, phase = "encode"
                 PROVE  [i \in Below(m) |-> G[i]] = Identity
      BY DEF Systematic
    <2>1. \A i \in Below(m) : G[i] = Unit(m, i)
      BY GeneratedMaps DEF CodeInv, Generated
    <2>2. \A i \in Below(m) : Unit(m, i) = Identity[i]
      <3>1. \A i, j \in Below(m) : Unit(m, i)[j] = Identity[i][j]
        BY DEF Unit, Identity
      <3> QED
        BY <3>1 DEF Unit, Identity
    <2> QED
      BY <2>1, <2>2 DEF Identity
  <1> QED
    BY <1>1, InitCode, NextCode, PTL DEF Spec

-----------------------------------------------------------------------------
(* Chunks                                                                  *)

LEMMA Division ==
  ASSUME NEW a \in Nat, NEW d \in Nat \ {0}
  PROVE  /\ a \div d \in Nat /\ a % d \in 0..(d - 1)
         /\ a = (a \div d) * d + (a % d)
  OBVIOUS

LEMMA ProductBounds ==
  ASSUME NEW q \in Nat, NEW k \in Nat, NEW d \in Nat \ {0}
  PROVE  q * d < k * d <=> q < k
  OBVIOUS

(* The chunks hold the data and less than one byte each beyond it.         *)
LEMMA ChunksHoldData ==
  ASSUME m \in Nat \ {0}, NEW data \in Data
  PROVE  /\ chunk_size(data) \in Nat /\ Len(data) \in Nat
         /\ Len(data) <= m * chunk_size(data)
         /\ Len(data) = 0 => chunk_size(data) = 0
  <1>1. Len(data) \in Nat
    BY DataAssumption
  <1>2. PICK a \in Nat : a = Len(data) + m - 1
    BY <1>1
  <1>3. a \div m \in Nat /\ a % m \in 0..(m - 1) /\ a = (a \div m) * m + (a % m)
    BY Division
  <1>4. Len(data) <= (a \div m) * m
    BY <1>1, <1>2, <1>3
  <1>5. (a \div m) * m = m * (a \div m)
    BY <1>3
  <1>6. ASSUME Len(data) = 0 PROVE a \div m = 0
    <2>1. a < m
      BY <1>2, <1>6
    <2>2. (a \div m) * m < 1 * m
      BY <1>3, <2>1
    <2>3. a \div m < 1
      BY <1>3, <2>2, ProductBounds
    <2> QED
      BY <1>3, <2>3
  <1> QED
    BY <1>1, <1>2, <1>3, <1>4, <1>5, <1>6 DEF chunk_size

LEMMA InputChunkType ==
  ASSUME m \in Nat \ {0}, NEW data \in Data, NEW p \in Below(chunk_size(data))
  PROVE  [j \in Below(m) |-> InputChunk(data, j, p)] \in Vector(m)
  <1>1. chunk_size(data) \in Nat /\ data \in Seq(Element)
    BY ChunksHoldData, DataAssumption
  <1>2. ASSUME NEW j \in Below(m) PROVE InputChunk(data, j, p) \in Element
    <2>1. PICK at \in Nat \ {0} : at = j * chunk_size(data) + p + 1
      <3>1. j * chunk_size(data) \in Nat /\ p \in Nat
        BY <1>1 DEF Below
      <3> QED
        BY <3>1
    <2>2. at <= Len(data) => data[at] \in Element
      BY <1>1, <2>1
    <2> QED
      BY <2>1, <2>2 DEF InputChunk, Zero, Element
  <1> QED
    BY <1>2 DEF Vector

(* What is decoded is what was encoded.                                    *)
LEMMA Recovers ==
  ASSUME CodeInv, phase = "inverted", NEW data \in Data,
         NEW p \in Below(chunk_size(data)), NEW j \in Below(m)
  PROVE  _gf_mat_mul_row_vec(Right[j],
             [k \in Below(m) |-> encode(data)[indices[k]][p]], m) = InputChunk(data, j, p)
  <1> DEFINE x == [i \in Below(m) |-> InputChunk(data, i, p)]
             r == RightHalf(m, aug)
  <1>1. /\ m \in Nat /\ m # 0 /\ input \in Matrix(m) /\ Reduced(m, aug, input, m)
        /\ indices \in [Below(m) -> Below(n)]
        /\ input = [i \in Below(m) |-> G[indices[i]]]
    BY DEF CodeInv
  <1>2. IsInverse(m, r, input)
    BY <1>1, ReducedInverts
  <1>3. x \in Vector(m)
    BY <1>1, InputChunkType
  <1>4. ASSUME NEW k \in Below(m)
        PROVE  encode(data)[indices[k]][p] = Dot(m, input[k], x)
    <2>1. indices[k] \in Below(n) /\ input[k] = G[indices[k]]
      BY <1>1
    <2> QED
      BY <2>1 DEF encode, Dot
  <1>5. Right[j] = r[j]
    BY DEF Right, RightHalf, RightOf
  <1> HIDE DEF x, r
  <1>6. Dot(m, r[j], [k \in Below(m) |-> Dot(m, input[k], x)])
          = Dot(m, [i \in Below(m) |-> Dot(m, r[j], ColumnOf(m, input, i))], x)
    <2>1. r[j] \in Vector(m)
      BY <1>2 DEF IsInverse, Matrix
    <2> QED
      BY <1>1, <1>3, <2>1, DotAssociates
  <1>7. [i \in Below(m) |-> Dot(m, r[j], ColumnOf(m, input, i))] = Unit(m, j)
    <2>1. \A i \in Below(m) : Dot(m, r[j], ColumnOf(m, input, i)) = Unit(m, j)[i]
      BY <1>2 DEF IsInverse, Unit
    <2> QED
      BY <2>1 DEF Unit
  <1>8. Dot(m, Unit(m, j), x) = x[j]
    BY <1>1, <1>3, DotUnit
  <1>9. x[j] = InputChunk(data, j, p)
    BY DEF x
  <1>10. [k \in Below(m) |-> encode(data)[indices[k]][p]]
           = [k \in Below(m) |-> Dot(m, input[k], x)]
    BY <1>4
  <1> QED
    BY <1>5, <1>6, <1>7, <1>8, <1>9, <1>10 DEF Dot

(* Whatever m distinct fragments of a content are decoded, in whichever    *)
(* order, give the content back (rs.py encode and decode).                 *)
THEOREM RoundTripCorrect == Spec => []RoundTrip
  <1>1. CodeInv => RoundTrip
    <2> SUFFICES ASSUME CodeInv, phase = "inverted", NEW data \in Data
                 PROVE  decode([k \in Below(m) |-> encode(data)[indices[k]]],
                               chunk_size(data), Len(data)) = data
      BY DEF RoundTrip
    <2> DEFINE size == chunk_size(data)
               chunks == [k \in Below(m) |-> encode(data)[indices[k]]]
               recovered == [j \in Below(m) |-> [p \in Below(size) |->
                   _gf_mat_mul_row_vec(Right[j], [k \in Below(m) |-> chunks[k][p]], m)]]
               joined == [at \in 1..(m * size) |-> recovered[(at - 1) \div size][(at - 1) % size]]
    <2>1. /\ m \in Nat \ {0} /\ size \in Nat /\ Len(data) \in Nat
          /\ Len(data) <= m * size /\ (Len(data) = 0 => size = 0)
          /\ data \in Seq(Element)
      BY ChunksHoldData, DataAssumption DEF CodeInv
    <2>2. ASSUME NEW j \in Below(m), NEW p \in Below(size)
          PROVE  recovered[j][p] = InputChunk(data, j, p)
      <3>1. [k \in Below(m) |-> chunks[k][p]]
              = [k \in Below(m) |-> encode(data)[indices[k]][p]]
        OBVIOUS
      <3> QED
        BY <3>1, Recovers
    <2> HIDE DEF recovered
    <2>3. ASSUME NEW at \in 1..(m * size), at <= Len(data)
          PROVE  joined[at] = data[at]
      <3> DEFINE q == (at - 1) \div size
                 r == (at - 1) % size
      <3>1. size \in Nat \ {0}
        <4>1. CASE size = 0
          <5>1. m * size = 0
            BY <2>1, <4>1
          <5> QED
            BY <5>1
        <4> QED
          BY <2>1, <4>1
      <3>2. PICK b \in Nat : b = at - 1 /\ b < m * size
        BY <2>1
      <3>3. b \div size \in Nat /\ b % size \in 0..(size - 1)
            /\ b = (b \div size) * size + (b % size)
        BY <3>1, Division
      <3>4. q \in Nat /\ r \in 0..(size - 1) /\ b = q * size + r
        BY <3>2, <3>3
      <3> HIDE DEF q, r, size
      <3>5. q < m
        <4>1. q * size \in Nat /\ m * size \in Nat
          BY <2>1, <3>1, <3>4
        <4>2. q * size < m * size
          BY <3>1, <3>2, <3>4, <4>1
        <4> QED
          BY <2>1, <3>1, <3>4, <4>2, ProductBounds
      <3>6. q \in Below(m) /\ r \in Below(size)
        BY <2>1, <3>1, <3>4, <3>5 DEF Below
      <3>7. q * size + r + 1 = at
        <4>1. q * size \in Nat
          BY <2>1, <3>1, <3>4
        <4> QED
          BY <3>1, <3>2, <3>4, <4>1
      <3>8. joined[at] = recovered[q][r]
        BY DEF q, r
      <3>9. InputChunk(data, q, r) = data[at]
        BY <2>3, <3>7 DEF InputChunk, size
      <3> QED
        BY <2>2, <3>6, <3>8, <3>9
    <2>4. decode(chunks, size, Len(data))
            = IF Len(data) > 0 THEN SubSeq(joined, 1, Len(data)) ELSE joined
      BY DEF decode, recovered
    <2> HIDE DEF size, chunks
    <2>5. CASE Len(data) = 0
      <3>1. m * size = 0 /\ data = <<>>
        BY <2>1, <2>5
      <3>2. joined = <<>>
        BY <3>1
      <3> QED
        BY <2>4, <2>5, <3>1, <3>2 DEF size, chunks
    <2>6. CASE Len(data) > 0
      <3>1. SubSeq(joined, 1, Len(data)) = [i \in 1..Len(data) |-> joined[i]]
        BY <2>1
      <3>2. \A i \in 1..Len(data) : i \in 1..(m * size) /\ i <= Len(data)
        BY <2>1
      <3>3. [i \in 1..Len(data) |-> joined[i]] = [i \in 1..Len(data) |-> data[i]]
        <4> HIDE DEF joined
        <4> QED
          BY <2>3, <3>2
      <3>4. data = [i \in 1..Len(data) |-> data[i]]
        BY <2>1
      <3> QED
        BY <2>4, <2>6, <3>1, <3>3, <3>4 DEF size, chunks
    <2> QED
      BY <2>1, <2>5, <2>6
  <1> QED
    BY <1>1, InitCode, NextCode, PTL DEF Spec

-----------------------------------------------------------------------------
(***************************************************************************)
(* The fingerprinted cross-checksum: fingerprinting commutes with the code,*)
(* and what verifies is a fragment of the content that the fingerprints    *)
(* determine.                                                              *)
(***************************************************************************)

-----------------------------------------------------------------------------
(* gf_eval is the value of the polynomial                                  *)

Horners(h, poly, size, s) ==
    h = [i \in 0..size |->
            IF i = size THEN Zero ELSE gf_add(gf_mul(h[i + 1], s), poly[i])]

From(poly, size, i) == [j \in 0..(size - i - 1) |-> poly[i + j]]

LEMMA HornersExist ==
  ASSUME NEW size \in Nat, NEW poly \in [0..(size - 1) -> Element], NEW s \in Element
  PROVE  /\ Horners([i \in 0..size |-> Polynomial(From(poly, size, i), size - i, s)],
                    poly, size, s)
         /\ \A i \in 0..size : Polynomial(From(poly, size, i), size - i, s) \in Element
  <1> DEFINE h == [i \in 0..size |-> Polynomial(From(poly, size, i), size - i, s)]
  <1>1. ASSUME NEW i \in 0..size
        PROVE  /\ size - i \in Nat
               /\ From(poly, size, i) \in [0..(size - i - 1) -> Element]
    BY DEF From
  <1>2. \A i \in 0..size : Polynomial(From(poly, size, i), size - i, s) \in Element
    BY <1>1, PolynomialType
  <1>3. ASSUME NEW i \in 0..size
        PROVE  h[i] = IF i = size THEN Zero ELSE gf_add(gf_mul(h[i + 1], s), poly[i])
    <2>1. CASE i = size
      <3>1. size - i = 0
        BY <2>1
      <3>2. h[i] = GfSum([j \in 0..(0 - 1) |-> Term(From(poly, size, i), s, j)], 0)
        BY <3>1 DEF Polynomial
      <3> QED
        BY <2>1, <3>2, SumStep
    <2>2. CASE i # size
      <3>1. PICK k \in Nat : k = size - i - 1 /\ size - i = k + 1 /\ size - (i + 1) = k
        BY <2>2
      <3>2. i + 1 \in 0..size
        BY <2>2
      <3> DEFINE u == From(poly, size, i)
      <3>3. u \in [0..k -> Element]
        BY <1>1, <3>1
      <3>4. u[0] = poly[i]
        BY <3>1 DEF From
      <3>5. [j \in 0..(k - 1) |-> u[j + 1]] = From(poly, size, i + 1)
        <4>1. \A j \in 0..(k - 1) : j + 1 \in 0..(size - i - 1) /\ i + (j + 1) = (i + 1) + j
          BY <3>1
        <4>2. size - (i + 1) - 1 = k - 1
          BY <3>1
        <4> QED
          BY <4>1, <4>2 DEF From
      <3> HIDE DEF u
      <3>6. Polynomial(u, k + 1, s)
              = gf_add(u[0], gf_mul(s, Polynomial([j \in 0..(k - 1) |-> u[j + 1]], k, s)))
        BY <3>3, PolynomialShifts
      <3>7. h[i] = Polynomial(u, k + 1, s) /\ h[i + 1] = Polynomial(From(poly, size, i + 1), k, s)
        BY <3>1, <3>2 DEF u
      <3>8. h[i + 1] \in Element /\ poly[i] \in Element
        BY <1>2, <2>2, <3>2
      <3>9. h[i] = gf_add(poly[i], gf_mul(s, h[i + 1]))
        BY <3>4, <3>5, <3>6, <3>7
      <3> HIDE DEF h
      <3>10. PICK a \in Element, b \in Element : a = h[i + 1] /\ b = poly[i]
        BY <3>8
      <3>11. gf_mul(s, a) = gf_mul(a, s) /\ gf_mul(a, s) \in Element
        BY MulCommutes, MulType
      <3>12. gf_add(b, gf_mul(a, s)) = gf_add(gf_mul(a, s), b)
        BY <3>11, AddIsGroup
      <3> QED
        BY <2>2, <3>9, <3>10, <3>11, <3>12
    <2> QED
      BY <2>1, <2>2
  <1> QED
    BY <1>2, <1>3 DEF Horners

LEMMA HornersAgree ==
  ASSUME NEW size \in Nat, NEW poly, NEW s, NEW g, NEW h,
         Horners(g, poly, size, s), Horners(h, poly, size, s)
  PROVE  g[0] = h[0]
  <1> DEFINE S == {k \in Nat : k <= size => g[size - k] = h[size - k]}
  <1>1. 0 \in S
    BY DEF Horners
  <1>2. ASSUME NEW k \in Nat, k \in S PROVE k + 1 \in S
    <2> SUFFICES ASSUME k + 1 <= size PROVE g[size - (k + 1)] = h[size - (k + 1)]
      OBVIOUS
    <2>1. PICK i \in 0..size : i = size - (k + 1) /\ i + 1 = size - k /\ i # size /\ k <= size
      OBVIOUS
    <2>2. /\ g[i] = gf_add(gf_mul(g[i + 1], s), poly[i])
          /\ h[i] = gf_add(gf_mul(h[i + 1], s), poly[i])
      BY <2>1 DEF Horners
    <2>3. g[i + 1] = h[i + 1]
      BY <1>2, <2>1
    <2> QED
      BY <2>1, <2>2, <2>3
  <1> HIDE DEF S
  <1>3. Nat \subseteq S
    BY <1>1, <1>2, SetInduction
  <1>4. size \in S /\ size <= size /\ size - size = 0
    BY <1>3
  <1> QED
    BY <1>4 DEF S

LEMMA EvalIsPolynomial ==
  ASSUME NEW size \in Nat, NEW poly \in [0..(size - 1) -> Element], NEW s \in Element
  PROVE  gf_eval(poly, size, s) = Polynomial(poly, size, s)
  <1> DEFINE h == [i \in 0..size |-> Polynomial(From(poly, size, i), size - i, s)]
             Horner == CHOOSE g : Horners(g, poly, size, s)
  <1>1. Horners(h, poly, size, s)
    BY HornersExist
  <1>2. Horners(Horner, poly, size, s)
    <2> HIDE DEF h
    <2> QED
      BY <1>1
  <1>3. gf_eval(poly, size, s) = Horner[0]
    BY DEF gf_eval, Horners
  <1>4. Horner[0] = h[0]
    <2> HIDE DEF h, Horner
    <2> QED
      BY <1>1, <1>2, HornersAgree
  <1>5. h[0] = Polynomial(poly, size, s)
    <2>1. From(poly, size, 0) = poly /\ size - 0 = size /\ 0 \in 0..size
      BY DEF From
    <2> QED
      BY <2>1
  <1> QED
    BY <1>3, <1>4, <1>5

-----------------------------------------------------------------------------
(* Fingerprints                                                            *)

(* A polynomial of sums is the sum of the polynomials.                     *)
LEMMA PolynomialAdds ==
  ASSUME NEW size \in Nat, NEW x \in Element,
         NEW u \in [0..(size - 1) -> Element], NEW v \in [0..(size - 1) -> Element],
         NEW w, \A p \in 0..(size - 1) : w[p] = gf_add(u[p], v[p])
  PROVE  Polynomial(w, size, x) = gf_add(Polynomial(u, size, x), Polynomial(v, size, x))
  <1> DEFINE t(y) == [p \in 0..(size - 1) |-> Term(y, x, p)]
  <1>1. ASSUME NEW p \in 0..(size - 1)
        PROVE  /\ t(u)[p] \in Element /\ t(v)[p] \in Element
               /\ t(w)[p] = gf_add(t(u)[p], t(v)[p])
    <2>1. PICK a \in Element, b \in Element, c \in Element :
            a = gf_pow(x, p) /\ b = u[p] /\ c = v[p]
      BY PowStep
    <2>2. /\ gf_mul(a, b) \in Element /\ gf_mul(a, c) \in Element
          /\ gf_mul(a, gf_add(b, c)) = gf_add(gf_mul(a, b), gf_mul(a, c))
      BY MulType, MulDistributes
    <2>3. /\ t(u)[p] = gf_mul(a, b) /\ t(v)[p] = gf_mul(a, c)
          /\ t(w)[p] = gf_mul(a, gf_add(b, c))
      BY <2>1 DEF Term
    <2> QED
      BY <2>2, <2>3
  <1>2. GfSum(t(w), size) = gf_add(GfSum(t(u), size), GfSum(t(v), size))
    <2> HIDE DEF t
    <2> QED
      BY <1>1, SumAdds
  <1> QED
    BY <1>2 DEF Polynomial

(* The fingerprint of a row of the code is the row of the fingerprints.    *)
LEMMA PolynomialCombines ==
  ASSUME m \in Nat, NEW size \in Nat, NEW x \in Element, NEW a \in Vector(m),
         NEW c \in [Below(m) -> [0..(size - 1) -> Element]]
  PROVE  Polynomial([p \in 0..(size - 1) |-> Dot(m, a, [j \in Below(m) |-> c[j][p]])], size, x)
           = Dot(m, a, [j \in Below(m) |-> Polynomial(c[j], size, x)])
  <1> DEFINE word == [p \in 0..(size - 1) |-> Dot(m, a, [j \in Below(m) |-> c[j][p]])]
             term == [p \in 0..(size - 1) |-> [j \in 0..(m - 1) |->
                        gf_mul(gf_pow(x, p), gf_mul(a[j], c[j][p]))]]
             rows == [p \in 0..(size - 1) |-> GfSum([j \in 0..(m - 1) |-> term[p][j]], m)]
             cols == [j \in 0..(m - 1) |-> GfSum([p \in 0..(size - 1) |-> term[p][j]], size)]
  <1>1. ASSUME NEW p \in 0..(size - 1), NEW j \in 0..(m - 1)
        PROVE  /\ j \in Below(m) /\ a[j] \in Element /\ c[j][p] \in Element
               /\ gf_pow(x, p) \in Element /\ gf_mul(a[j], c[j][p]) \in Element
               /\ term[p][j] \in Element
    <2>1. j \in Below(m)
      BY DEF Below
    <2>2. a[j] \in Element /\ c[j][p] \in Element
      BY <2>1 DEF Vector
    <2>3. gf_pow(x, p) \in Element
      BY PowStep
    <2> QED
      BY <2>1, <2>2, <2>3, MulType
  <1>2. GfSum(rows, size) = GfSum(cols, m)
    <2> HIDE DEF term
    <2> QED
      BY <1>1, SumSwaps
  <1>3. ASSUME NEW p \in 0..(size - 1) PROVE Term(word, x, p) = rows[p]
    <2> DEFINE t == [j \in Below(m) |-> gf_mul(a[j], [k \in Below(m) |-> c[k][p]][j])]
               s == [j \in 0..(m - 1) |-> term[p][j]]
    <2>1. \A j \in 0..(m - 1) : t[j] \in Element /\ s[j] = gf_mul(gf_pow(x, p), t[j])
      BY <1>1 DEF Below
    <2>2. gf_pow(x, p) \in Element
      BY PowStep
    <2>3. GfSum(s, m) = gf_mul(gf_pow(x, p), GfSum(t, m))
      <3> HIDE DEF s, t
      <3> QED
        BY <2>1, <2>2, SumScales
    <2>4. word[p] = GfSum(t, m)
      BY DEF Dot, _gf_mat_mul_row_vec
    <2> QED
      BY <2>3, <2>4 DEF Term
  <1>4. ASSUME NEW j \in 0..(m - 1)
        PROVE  gf_mul(a[j], Polynomial(c[j], size, x)) = cols[j]
    <2> DEFINE t == [p \in 0..(size - 1) |-> Term(c[j], x, p)]
               s == [p \in 0..(size - 1) |-> term[p][j]]
    <2>1. ASSUME NEW p \in 0..(size - 1) PROVE t[p] \in Element /\ s[p] = gf_mul(a[j], t[p])
      <3>1. t[p] = gf_mul(gf_pow(x, p), c[j][p])
        BY DEF Term
      <3>2. s[p] = gf_mul(gf_pow(x, p), gf_mul(a[j], c[j][p]))
        OBVIOUS
      <3> HIDE DEF t, s
      <3>3. gf_mul(gf_pow(x, p), gf_mul(a[j], c[j][p]))
              = gf_mul(gf_mul(gf_pow(x, p), a[j]), c[j][p])
        BY <1>1, MulAssociates
      <3>4. gf_mul(a[j], gf_mul(gf_pow(x, p), c[j][p]))
              = gf_mul(gf_mul(a[j], gf_pow(x, p)), c[j][p])
        BY <1>1, MulAssociates
      <3>5. gf_mul(gf_pow(x, p), a[j]) = gf_mul(a[j], gf_pow(x, p))
        BY <1>1, MulCommutes
      <3> QED
        BY <1>1, <3>1, <3>2, <3>3, <3>4, <3>5, MulType
    <2>2. a[j] \in Element
      BY DEF Vector, Below
    <2>3. GfSum(s, size) = gf_mul(a[j], GfSum(t, size))
      <3> HIDE DEF s, t
      <3> QED
        BY <2>1, <2>2, SumScales
    <2> QED
      BY <2>3 DEF Polynomial
  <1>5. Polynomial(word, size, x) = GfSum(rows, size)
    <2>1. [p \in 0..(size - 1) |-> Term(word, x, p)] = rows
      <3> HIDE DEF word
      <3> QED
        BY <1>3
    <2> QED
      BY <2>1 DEF Polynomial
  <1>6. Dot(m, a, [j \in Below(m) |-> Polynomial(c[j], size, x)]) = GfSum(cols, m)
    <2>1. [j \in Below(m) |-> gf_mul(a[j], [k \in Below(m) |-> Polynomial(c[k], size, x)][j])]
            = cols
      BY <1>4 DEF Below
    <2> QED
      BY <2>1 DEF Dot, _gf_mat_mul_row_vec
  <1> QED
    BY <1>2, <1>5, <1>6

(* The fragment that the row g of a generator makes of the chunks c.       *)
FragmentOf(k, size, g, c) ==
    [p \in Below(size) |-> _gf_mat_mul_row_vec(g, [j \in Below(k) |-> c[j][p]], k)]

LEMMA CodewordFingerprint ==
  ASSUME CodeInv, phase = "encode", NEW size \in Nat, NEW i \in Below(n),
         NEW c \in [Below(m) -> [Below(size) -> Element]], NEW l \in DOMAIN Points
  PROVE  /\ FragmentOf(m, size, G[i], c) \in [Below(size) -> Element]
         /\ i < m => FragmentOf(m, size, G[i], c) = c[i]
         /\ fingerprint_from_seed(FragmentOf(m, size, G[i], c), size)[l]
                = _gf_mat_mul_row_vec(G[i],
                    [j \in Below(m) |-> fingerprint_from_seed(c[j], size)[l]], m)
  <1> DEFINE at(p) == [j \in Below(m) |-> c[j][p]]
  <1> SUFFICES ASSUME NEW word, word = FragmentOf(m, size, G[i], c)
               PROVE  /\ word \in [Below(size) -> Element]
                      /\ i < m => word = c[i]
                      /\ fingerprint_from_seed(word, size)[l]
                             = _gf_mat_mul_row_vec(G[i],
                                 [j \in Below(m) |-> fingerprint_from_seed(c[j], size)[l]], m)
    OBVIOUS
  <1>1. m \in Nat /\ G[i] \in Vector(m) /\ \A k \in Below(m) : G[k] = Unit(m, k)
    BY GeneratedMaps DEF CodeInv, Generated
  <1>2. PICK x \in Element : x = Points[l]
    BY PointsAssumption
  <1>3. PICK a \in Vector(m) : a = G[i]
    BY <1>1
  <1>4. ASSUME NEW p \in Below(size)
        PROVE  at(p) \in Vector(m) /\ word[p] = Dot(m, a, at(p))
    BY <1>3 DEF Vector, Dot, FragmentOf
  <1>5. word \in [Below(size) -> Element]
    <2>1. \A p \in Below(size) : word[p] \in Element
      <3> HIDE DEF at
      <3> QED
        BY <1>1, <1>4, DotType
    <2> QED
      BY <2>1 DEF FragmentOf
  <1>6. ASSUME i < m PROVE word = c[i]
    <2>1. i \in Below(m)
      BY <1>1, <1>6 DEF Below
    <2>2. a = Unit(m, i)
      BY <1>1, <1>3, <2>1
    <2>3. ASSUME NEW p \in Below(size) PROVE word[p] = c[i][p]
      <3>1. Dot(m, Unit(m, i), at(p)) = at(p)[i]
        <4>1. at(p) \in Vector(m)
          BY <1>4
        <4> HIDE DEF at
        <4> QED
          BY <1>1, <2>1, <4>1, DotUnit
      <3> QED
        BY <1>4, <2>1, <2>2, <3>1
    <2>4. c[i] \in [Below(size) -> Element]
      BY <2>1
    <2> QED
      BY <1>5, <2>3, <2>4
  <1>7. fingerprint_from_seed(word, size)[l]
          = _gf_mat_mul_row_vec(G[i],
              [j \in Below(m) |-> fingerprint_from_seed(c[j], size)[l]], m)
    <2>1. /\ word \in [0..(size - 1) -> Element]
          /\ \A j \in Below(m) : c[j] \in [0..(size - 1) -> Element]
          /\ word = [p \in 0..(size - 1) |-> Dot(m, a, [j \in Below(m) |-> c[j][p]])]
      BY <1>3, <1>5 DEF Below, Dot, FragmentOf
    <2>2. fingerprint_from_seed(word, size)[l] = gf_eval(word, size, x)
      BY <1>2 DEF fingerprint_from_seed
    <2>3. gf_eval(word, size, x) = Polynomial(word, size, x)
      BY <2>1, EvalIsPolynomial
    <2>4. ASSUME NEW j \in Below(m)
          PROVE  fingerprint_from_seed(c[j], size)[l] = Polynomial(c[j], size, x)
      <3>1. fingerprint_from_seed(c[j], size)[l] = gf_eval(c[j], size, x)
        BY <1>2 DEF fingerprint_from_seed
      <3>2. c[j] \in [0..(size - 1) -> Element]
        BY <2>1
      <3> QED
        BY <3>1, <3>2, EvalIsPolynomial
    <2>5. c \in [Below(m) -> [0..(size - 1) -> Element]]
      BY DEF Below
    <2>6. Polynomial(word, size, x) = Dot(m, a, [j \in Below(m) |-> Polynomial(c[j], size, x)])
      <3>1. Polynomial([p \in 0..(size - 1) |-> Dot(m, a, [j \in Below(m) |-> c[j][p]])], size, x)
              = Dot(m, a, [j \in Below(m) |-> Polynomial(c[j], size, x)])
        BY <1>1, <2>5, PolynomialCombines
      <3> QED
        BY <2>1, <3>1
    <2>7. [j \in Below(m) |-> Polynomial(c[j], size, x)]
            = [j \in Below(m) |-> fingerprint_from_seed(c[j], size)[l]]
      BY <2>4
    <2> QED
      BY <1>3, <2>2, <2>3, <2>6, <2>7 DEF Dot
  <1> QED
    BY <1>5, <1>6, <1>7

LEMMA FpccType ==
  ASSUME CodeInv
  PROVE  m \in Nat \ {0} /\ Below(m) \subseteq Below(n)
  BY VandermondeType DEF CodeInv

LEMMA HonestFragments ==
  ASSUME CodeInv, phase = "encode", NEW data \in Data, NEW i \in Below(n)
  PROVE  /\ encode(data)[i] \in [Below(chunk_size(data)) -> Element]
         /\ verify_fragment(encode(data)[i], chunk_size(data),
                build_fpcc(encode(data), chunk_size(data)), i)
  <1> DEFINE size == chunk_size(data)
             fpcc == build_fpcc(encode(data), size)
             c == [j \in Below(m) |-> [p \in Below(size) |-> InputChunk(data, j, p)]]
  <1>1. size \in Nat /\ m \in Nat /\ Below(m) \subseteq Below(n)
    BY FpccType, ChunksHoldData
  <1>2. c \in [Below(m) -> [Below(size) -> Element]]
    <2>1. \A j \in Below(m), p \in Below(size) : InputChunk(data, j, p) \in Element
      <3> SUFFICES ASSUME NEW j \in Below(m), NEW p \in Below(size)
                   PROVE  InputChunk(data, j, p) \in Element
        OBVIOUS
      <3>1. [k \in Below(m) |-> InputChunk(data, k, p)] \in Vector(m)
        BY FpccType, InputChunkType
      <3> QED
        BY <3>1 DEF Vector
    <2> QED
      BY <2>1
  <1>3. \A k \in Below(n) : encode(data)[k] = FragmentOf(m, size, G[k], c)
    BY DEF encode, FragmentOf
  <1> HIDE DEF c, size
  <1>4. \A k \in Below(m) : encode(data)[k] = c[k]
    <2> SUFFICES ASSUME NEW k \in Below(m) PROVE encode(data)[k] = c[k]
      OBVIOUS
    <2>1. k \in Below(n) /\ k < m
      BY <1>1 DEF Below
    <2>2. \E l : l \in DOMAIN Points
      <3>1. 1 \in DOMAIN Points
        BY PointsAssumption, SizeAssumption
      <3> QED
        BY <3>1
    <2> QED
      BY <1>1, <1>2, <1>3, <2>1, <2>2, CodewordFingerprint
  <1>5. /\ fpcc.cc = encode(data)
        /\ \A k \in Below(m) : fpcc.fp[k] = fingerprint_from_seed(c[k], size)
    BY <1>4 DEF build_fpcc
  <1>6. fingerprint_from_seed(encode(data)[i], size) = expected_fingerprint(fpcc, i)
    <2>1. CASE i < m
      <3>1. i \in Below(m)
        BY <1>1, <2>1 DEF Below
      <3> QED
        BY <1>4, <1>5, <2>1, <3>1 DEF expected_fingerprint
    <2>2. CASE ~(i < m)
      <3> HIDE DEF fpcc
      <3>1. ASSUME NEW l \in DOMAIN Points
            PROVE  fingerprint_from_seed(encode(data)[i], size)[l]
                     = _gf_mat_mul_row_vec(G[i], [j \in Below(m) |-> fpcc.fp[j][l]], m)
        <4>1. [j \in Below(m) |-> fpcc.fp[j][l]]
                = [j \in Below(m) |-> fingerprint_from_seed(c[j], size)[l]]
          BY <1>5
        <4>2. fingerprint_from_seed(encode(data)[i], size)[l]
                = _gf_mat_mul_row_vec(G[i],
                    [j \in Below(m) |-> fingerprint_from_seed(c[j], size)[l]], m)
          BY <1>1, <1>2, <1>3, CodewordFingerprint
        <4> QED
          BY <4>1, <4>2
      <3>2. expected_fingerprint(fpcc, i) = [l \in DOMAIN Points |->
              _gf_mat_mul_row_vec(G[i], [j \in Below(m) |-> fpcc.fp[j][l]], m)]
        BY <2>2 DEF expected_fingerprint, encode_fingerprints_at
      <3>3. fingerprint_from_seed(encode(data)[i], size)
              = [l \in DOMAIN Points |-> fingerprint_from_seed(encode(data)[i], size)[l]]
        BY DEF fingerprint_from_seed
      <3> QED
        BY <3>1, <3>2, <3>3
    <2> QED
      BY <2>1, <2>2
  <1>7. encode(data)[i] \in [Below(size) -> Element]
    <2>1. PICK l \in DOMAIN Points : l = 1
      BY PointsAssumption, SizeAssumption
    <2>2. FragmentOf(m, size, G[i], c) \in [Below(size) -> Element]
      BY <1>1, <1>2, CodewordFingerprint
    <2> QED
      BY <1>3, <2>2
  <1> QED
    BY <1>5, <1>6, <1>7 DEF verify_fragment, size

(* Every fragment that an honest client disperses verifies, parity and     *)
(* systematic ones: fingerprinting commutes with the code (rs.py "so the   *)
(* homomorphic property holds").                                           *)
THEOREM HonestVerifiesCorrect == Spec => []HonestVerifies
  <1>1. CodeInv => HonestVerifies
    BY HonestFragments DEF HonestVerifies
  <1> QED
    BY <1>1, InitCode, NextCode, PTL DEF Spec

(* As many roots as bytes: what has the fingerprint 0 is 0.                *)
Vanishes(e, size) == \A l \in DOMAIN Points : Polynomial(e, size, Points[l]) = Zero

LEMMA ShortVanishes ==
  ASSUME NEW size \in Nat, size <= Len(Points), NEW e \in [0..(size - 1) -> Element],
         Vanishes(e, size)
  PROVE  \A p \in 0..(size - 1) : e[p] = Zero
  <1> DEFINE points == [k \in 0..(size - 1) |-> Points[k + 1]]
  <1>1. Len(Points) \in Nat /\ DOMAIN Points = 1..Len(Points)
    BY PointsAssumption
  <1>2. ASSUME NEW k \in 0..(size - 1)
        PROVE  k + 1 \in DOMAIN Points /\ points[k] = Points[k + 1] /\ points[k] \in Element
    <2>1. PICK l \in DOMAIN Points : l = k + 1
      BY <1>1
    <2>2. Points[l] \in Element
      BY PointsAssumption
    <2> QED
      BY <2>1, <2>2
  <1>3. Injective(points, size)
    <2> SUFFICES ASSUME NEW i \in 0..(size - 1), NEW j \in 0..(size - 1), points[i] = points[j]
                 PROVE  i = j
      BY DEF Injective
    <2>1. PICK k \in DOMAIN Points, l \in DOMAIN Points : k = i + 1 /\ l = j + 1
      BY <1>2
    <2>2. Points[k] = Points[l]
      BY <2>1
    <2>3. k = l
      BY <2>2, PointsAssumption
    <2> QED
      BY <2>1, <2>3
  <1>4. \A k \in 0..(size - 1) : Polynomial(e, size, points[k]) = Zero
    BY <1>2 DEF Vanishes
  <1>5. points \in [0..(size - 1) -> Element]
    BY <1>2
  <1> HIDE DEF points
  <1> QED
    BY <1>3, <1>4, <1>5, RootsVanish

(* A zero at either end can be cut off: the polynomial loses a power that   *)
(* it did not have, or the root 0, which is no point.                       *)
LEMMA CutLast ==
  ASSUME NEW k \in Nat, NEW e \in [0..k -> Element], e[k] = Zero, Vanishes(e, k + 1)
  PROVE  Vanishes([p \in 0..(k - 1) |-> e[p]], k)
  <1> DEFINE short == [p \in 0..(k - 1) |-> e[p]]
  <1> SUFFICES ASSUME NEW l \in DOMAIN Points PROVE Polynomial(short, k, Points[l]) = Zero
    BY DEF Vanishes
  <1>1. PICK x \in Element : x = Points[l]
    BY PointsAssumption
  <1> DEFINE t == [p \in 0..((k + 1) - 1) |-> Term(e, x, p)]
             u == [p \in 0..(k - 1) |-> Term(short, x, p)]
  <1>2. t[k] = Zero
    BY MulZero DEF Term
  <1>3. \A p \in 0..(k - 1) : t[p] = u[p]
    BY DEF Term
  <1>4. GfSum(u, k) \in Element
    <2>1. short \in [0..(k - 1) -> Element]
      OBVIOUS
    <2> HIDE DEF short
    <2>2. Polynomial(short, k, x) \in Element
      BY <2>1, PolynomialType
    <2> QED
      BY <2>2 DEF Polynomial
  <1>5. Polynomial(e, k + 1, x) = GfSum(t, k + 1) /\ Polynomial(short, k, x) = GfSum(u, k)
    BY DEF Polynomial
  <1> HIDE DEF t, u, short
  <1>6. GfSum(t, k + 1) = gf_add(GfSum(u, k), Zero)
    <2>1. GfSum(t, k + 1) = gf_add(GfSum(t, k), t[k])
      BY SumStep
    <2>2. GfSum(t, k) = GfSum(u, k)
      BY <1>3, SumAgree
    <2> QED
      BY <1>2, <2>1, <2>2
  <1>7. GfSum(t, k + 1) = GfSum(u, k)
    BY <1>4, <1>6, AddIsGroup
  <1> QED
    BY <1>1, <1>5, <1>7 DEF Vanishes

LEMMA CutFirst ==
  ASSUME NEW k \in Nat, NEW e \in [0..k -> Element], e[0] = Zero, Vanishes(e, k + 1)
  PROVE  Vanishes([p \in 0..(k - 1) |-> e[p + 1]], k)
  <1> DEFINE tail == [p \in 0..(k - 1) |-> e[p + 1]]
  <1> SUFFICES ASSUME NEW l \in DOMAIN Points PROVE Polynomial(tail, k, Points[l]) = Zero
    BY DEF Vanishes
  <1>1. PICK x \in Element : x = Points[l] /\ x # Zero
    BY PointsAssumption
  <1>2. tail \in [0..(k - 1) -> Element]
    OBVIOUS
  <1>3. Polynomial(e, k + 1, x) = gf_add(Zero, gf_mul(x, Polynomial(tail, k, x)))
    BY PolynomialShifts
  <1> HIDE DEF tail
  <1>4. Polynomial(tail, k, x) \in Element
    BY <1>2, PolynomialType
  <1>5. gf_mul(x, Polynomial(tail, k, x)) = Zero
    BY <1>1, <1>3, <1>4, MulType, AddIsGroup DEF Vanishes
  <1> QED
    BY <1>1, <1>4, <1>5, MulType

(* What has the fingerprint 0 and spans no more bytes than there are points *)
(* is 0, however long it is.                                                *)
Narrow(e, size) ==
    \A p, q \in 0..(size - 1) : e[p] # Zero /\ e[q] # Zero => q - p < Len(Points)

LEMMA NarrowVanishes ==
  ASSUME NEW size \in Nat
  PROVE  \A e \in [0..(size - 1) -> Element] :
             Vanishes(e, size) /\ Narrow(e, size) => \A p \in 0..(size - 1) : e[p] = Zero
  <1> DEFINE S == {k \in Nat : \A e \in [0..(k - 1) -> Element] :
                      Vanishes(e, k) /\ Narrow(e, k) => \A p \in 0..(k - 1) : e[p] = Zero}
  <1>1. 0 \in S
    OBVIOUS
  <1>2. ASSUME NEW k \in Nat, k \in S PROVE k + 1 \in S
    <2>0. k + 1 \in Nat /\ (k + 1) - 1 = k
      OBVIOUS
    <2> SUFFICES ASSUME NEW e \in [0..k -> Element], Vanishes(e, k + 1), Narrow(e, k + 1),
                        NEW p \in 0..k
                 PROVE  e[p] = Zero
      BY <2>0
    <2>1. Len(Points) \in Nat
      BY PointsAssumption
    <2>2. CASE k + 1 <= Len(Points)
      BY <2>0, <2>2, ShortVanishes
    <2>3. CASE k >= Len(Points) /\ e[k] = Zero
      <3> DEFINE short == [r \in 0..(k - 1) |-> e[r]]
      <3>1. short \in [0..(k - 1) -> Element] /\ Narrow(short, k)
        BY <2>0 DEF Narrow
      <3>2. Vanishes(short, k)
        BY <2>3, CutLast
      <3>3. \A r \in 0..(k - 1) : e[r] = Zero
        BY <1>2, <3>1, <3>2
      <3> QED
        BY <2>3, <3>3
    <2>4. CASE k >= Len(Points) /\ e[k] # Zero
      <3> DEFINE tail == [r \in 0..(k - 1) |-> e[r + 1]]
      <3>1. e[0] = Zero
        BY <2>0, <2>1, <2>4 DEF Narrow
      <3>2. tail \in [0..(k - 1) -> Element]
        OBVIOUS
      <3>3. Narrow(tail, k)
        <4> SUFFICES ASSUME NEW r \in 0..(k - 1), NEW q \in 0..(k - 1),
                            tail[r] # Zero, tail[q] # Zero
                     PROVE  q - r < Len(Points)
          BY DEF Narrow
        <4>1. /\ r + 1 \in 0..k /\ q + 1 \in 0..k /\ e[r + 1] # Zero /\ e[q + 1] # Zero
          OBVIOUS
        <4>2. (q + 1) - (r + 1) < Len(Points)
          BY <2>0, <4>1 DEF Narrow
        <4> QED
          BY <2>1, <4>2
      <3>4. Vanishes(tail, k)
        BY <3>1, CutFirst
      <3>5. \A r \in 0..(k - 1) : tail[r] = Zero
        BY <1>2, <3>2, <3>3, <3>4
      <3>6. ASSUME p # 0 PROVE e[p] = Zero
        <4>1. p - 1 \in 0..(k - 1) /\ tail[p - 1] = e[p]
          BY <3>6
        <4> QED
          BY <3>5, <4>1
      <3> QED
        BY <3>1, <3>6
    <2> QED
      BY <2>1, <2>2, <2>3, <2>4
  <1> HIDE DEF S
  <1>3. size \in S
    BY <1>1, <1>2, SetInduction
  <1> QED
    BY <1>3 DEF S

(* Whatever FPCC a client made up, what verifies against it is the         *)
(* fragment of the one content that its fingerprints determine, or differs *)
(* from it in bytes that are at least as far apart as there are points     *)
(* (avid_fp.py verify_fragment): no run of up to 16 wrong bytes is         *)
(* accepted, whatever the length of the fragment.                          *)
THEOREM VerifiedAreConsistentCorrect == Spec => []VerifiedAreConsistent
  <1>1. CodeInv => VerifiedAreConsistent
    <2> SUFFICES ASSUME CodeInv, phase = "encode",
                        NEW c \in [Below(m) -> Chunks], NEW e \in Error, NEW i \in Below(n),
                        NEW fragment,
                        fragment = [p \in Below(Size) |-> gf_add(Codeword(c, i)[p], e[p])],
                        NEW fpcc,
                        fpcc = [cc |-> [k \in Below(n) |->
                                          IF k = i THEN fragment ELSE Codeword(c, k)],
                                fp |-> [j \in Below(m) |-> fingerprint_from_seed(c[j], Size)]],
                        verify_fragment(fragment, Size, fpcc, i), ~FarApart(e)
                 PROVE  fragment = Codeword(c, i)
      BY DEF VerifiedAreConsistent
    <2> DEFINE word == Codeword(c, i)
    <2>1. /\ Size \in Nat /\ m \in Nat /\ Below(m) \subseteq Below(n)
          /\ e \in [Below(Size) -> Element]
          /\ c \in [Below(m) -> [Below(Size) -> Element]]
      BY FpccType, SizeAssumption
    <2>2. ASSUME NEW l \in DOMAIN Points
          PROVE  /\ word \in [Below(Size) -> Element]
                 /\ i < m => word = c[i]
                 /\ fingerprint_from_seed(word, Size)[l]
                        = _gf_mat_mul_row_vec(G[i],
                            [j \in Below(m) |-> fingerprint_from_seed(c[j], Size)[l]], m)
      <3>1. word = FragmentOf(m, Size, G[i], c)
        BY DEF Codeword, FragmentOf
      <3> HIDE DEF word
      <3> QED
        BY <2>1, <3>1, CodewordFingerprint
    <2>3. word \in [Below(Size) -> Element]
      <3>1. 1 \in DOMAIN Points
        BY PointsAssumption, SizeAssumption
      <3> QED
        BY <2>2, <3>1
    <2> HIDE DEF word
    <2>4. ASSUME NEW l \in DOMAIN Points
          PROVE  fingerprint_from_seed(fragment, Size)[l] = fingerprint_from_seed(word, Size)[l]
      <3>1. fingerprint_from_seed(fragment, Size) = expected_fingerprint(fpcc, i)
        BY DEF verify_fragment
      <3>2. CASE i < m
        <4>1. i \in Below(m)
          BY <2>1, <3>2 DEF Below
        <4>2. expected_fingerprint(fpcc, i) = fingerprint_from_seed(c[i], Size)
          BY <3>2, <4>1 DEF expected_fingerprint
        <4> QED
          BY <2>2, <3>1, <3>2, <4>2
      <3>3. CASE ~(i < m)
        <4>1. expected_fingerprint(fpcc, i)[l]
                = _gf_mat_mul_row_vec(G[i], [j \in Below(m) |-> fpcc.fp[j][l]], m)
          BY <3>3 DEF expected_fingerprint, encode_fingerprints_at
        <4>2. [j \in Below(m) |-> fpcc.fp[j][l]]
                = [j \in Below(m) |-> fingerprint_from_seed(c[j], Size)[l]]
          OBVIOUS
        <4> QED
          BY <2>2, <3>1, <4>1, <4>2
      <3> QED
        BY <3>2, <3>3
    <2>5. fragment = [p \in Below(Size) |-> gf_add(word[p], e[p])]
      BY DEF word
    <2>6. fragment \in [Below(Size) -> Element]
      BY <2>1, <2>3, <2>5, AddType
    <2>7. ASSUME NEW l \in DOMAIN Points
          PROVE  Polynomial(e, Size, Points[l]) = Zero
      <3>1. PICK x \in Element : x = Points[l]
        BY PointsAssumption
      <3>2. /\ fragment \in [0..(Size - 1) -> Element] /\ word \in [0..(Size - 1) -> Element]
            /\ e \in [0..(Size - 1) -> Element]
            /\ \A p \in 0..(Size - 1) : fragment[p] = gf_add(word[p], e[p])
        BY <2>1, <2>3, <2>5, <2>6 DEF Below
      <3>3. gf_eval(fragment, Size, x) = gf_eval(word, Size, x)
        BY <2>4, <3>1 DEF fingerprint_from_seed
      <3>4. Polynomial(fragment, Size, x) = Polynomial(word, Size, x)
        BY <2>1, <3>2, <3>3, EvalIsPolynomial
      <3>5. Polynomial(fragment, Size, x)
              = gf_add(Polynomial(word, Size, x), Polynomial(e, Size, x))
        BY <2>1, <3>2, PolynomialAdds
      <3>6. PICK a \in Element, b \in Element :
              a = Polynomial(word, Size, x) /\ b = Polynomial(e, Size, x)
        BY <2>1, <3>2, PolynomialType
      <3>7. a = gf_add(a, b)
        BY <3>4, <3>5, <3>6
      <3>8. b = Zero
        <4>1. gf_add(a, a) = gf_add(a, gf_add(a, b))
          BY <3>7
        <4>2. gf_add(a, gf_add(a, b)) = gf_add(gf_add(a, a), b) /\ gf_add(a, a) = Zero
              /\ gf_add(Zero, b) = b
          BY AddIsGroup
        <4> QED
          BY <4>1, <4>2
      <3> QED
        BY <3>1, <3>6, <3>8
    <2>8. \A p \in Below(Size) : e[p] = Zero
      <3>1. Vanishes(e, Size)
        BY <2>7 DEF Vanishes
      <3>2. Len(Points) \in Nat /\ Below(Size) = 0..(Size - 1)
        BY PointsAssumption DEF Below
      <3>3. Narrow(e, Size)
        <4> SUFFICES ASSUME NEW p \in 0..(Size - 1), NEW q \in 0..(Size - 1),
                            e[p] # Zero, e[q] # Zero
                     PROVE  q - p < Len(Points)
          BY DEF Narrow
        <4>1. ~(q - p >= Len(Points))
          BY <3>2 DEF FarApart
        <4> QED
          BY <2>1, <3>2, <4>1
      <3> QED
        BY <2>1, <3>1, <3>2, <3>3, NarrowVanishes
    <2>9. \A p \in Below(Size) : gf_add(word[p], e[p]) = word[p]
      BY <2>3, <2>8, AddIsGroup
    <2>10. word = [p \in Below(Size) |-> word[p]]
      BY <2>3
    <2> QED
      BY <2>5, <2>9, <2>10 DEF word
  <1> QED
    BY <1>1, InitCode, NextCode, PTL DEF Spec

-----------------------------------------------------------------------------
(***************************************************************************)
(* What /lie and /corrupt leave of a fragment, after any number of calls.  *)
(***************************************************************************)

Kind == {"lie", "corrupt"}
Toggle(mask, x) == IF x \in mask THEN mask \ {x} ELSE mask \cup {x}

(* The fragment with the masks applied.                                    *)
Applied(fragment, size, mask) ==
    [p \in Below(size) |->
        gf_add(gf_add(fragment[p],
                      IF "lie" \in mask /\ p % 4 = 0 THEN Byte(170) ELSE Zero),
               IF "corrupt" \in mask /\ size >= 2 /\ p \in {0, 1} THEN Byte(255) ELSE Zero)]

(* What was called an odd number of times in the first k calls.            *)
CallsOf(calls, k, x) == {l \in 1..k : calls[l] = x}
OddOnes(calls, k) == {x \in Kind : Cardinality(CallsOf(calls, k, x)) % 2 = 1}

LEMMA MaskBytes ==
  /\ Byte(170) \in Element /\ Byte(170) # Zero
  /\ Byte(255) \in Element /\ Byte(255) # Zero
  /\ Byte(170) # Byte(255) /\ Zero \in Element
  <1>1. 0 \in 0..255 /\ 170 \in 0..255 /\ 255 \in 0..255
    OBVIOUS
  <1>2. \A i \in 0..255 : Byte(i) \in Element
    BY DEF Byte, Element
  <1>3. Byte(0) = Zero
    BY TablesAssumption
  <1>4. ASSUME NEW i \in 0..255, NEW j \in 0..255, i # j
        PROVE  Byte(i) # Byte(j)
    BY <1>4, TablesAssumption
  <1>5. PICK i \in 0..255 : i = 0
    BY <1>1
  <1>6. PICK j \in 0..255 : j = 170
    BY <1>1
  <1>7. PICK k \in 0..255 : k = 255
    BY <1>1
  <1>8. i # j /\ i # k /\ j # k
    BY <1>5, <1>6, <1>7
  <1>9. Byte(i) # Byte(j) /\ Byte(i) # Byte(k) /\ Byte(j) # Byte(k)
    BY <1>4, <1>8
  <1> QED
    BY <1>1, <1>2, <1>3, <1>5, <1>6, <1>7, <1>9

LEMMA MaskTwice ==
  ASSUME NEW a \in Element, NEW b \in Element, NEW c \in Element
  PROVE  /\ gf_add(gf_add(gf_add(a, b), c), b) = gf_add(gf_add(a, Zero), c)
         /\ gf_add(gf_add(gf_add(a, Zero), c), b) = gf_add(gf_add(a, b), c)
         /\ gf_add(gf_add(gf_add(a, c), b), b) = gf_add(gf_add(a, c), Zero)
         /\ gf_add(gf_add(gf_add(a, c), Zero), b) = gf_add(gf_add(a, c), b)
  <1>1. \A x : x \in gf_add(gf_add(gf_add(a, b), c), b) <=> x \in gf_add(gf_add(a, Zero), c)
    BY DEF gf_add, Zero
  <1>2. \A x : x \in gf_add(gf_add(gf_add(a, Zero), c), b) <=> x \in gf_add(gf_add(a, b), c)
    BY DEF gf_add, Zero
  <1>3. \A x : x \in gf_add(gf_add(gf_add(a, c), b), b) <=> x \in gf_add(gf_add(a, c), Zero)
    BY DEF gf_add, Zero
  <1>4. \A x : x \in gf_add(gf_add(gf_add(a, c), Zero), b) <=> x \in gf_add(gf_add(a, c), b)
    BY DEF gf_add, Zero
  <1> QED
    BY <1>1, <1>2, <1>3, <1>4

(* A call toggles its mask.                                                *)
LEMMA CallToggles ==
  ASSUME NEW size \in Nat, NEW fragment \in [Below(size) -> Element],
         NEW mask \in SUBSET Kind
  PROVE  /\ lie(Applied(fragment, size, mask), size)
                = Applied(fragment, size, Toggle(mask, "lie"))
         /\ corrupt(Applied(fragment, size, mask), size)
                = Applied(fragment, size, Toggle(mask, "corrupt"))
  <1> DEFINE lied == Toggle(mask, "lie")
             corrupted == Toggle(mask, "corrupt")
  <1>1. /\ "lie" \in lied <=> "lie" \notin mask
        /\ "corrupt" \in lied <=> "corrupt" \in mask
        /\ "corrupt" \in corrupted <=> "corrupt" \notin mask
        /\ "lie" \in corrupted <=> "lie" \in mask
    BY DEF Toggle
  <1> HIDE DEF lied, corrupted
  <1>2. ASSUME NEW p \in Below(size)
        PROVE  IF p % 4 = 0
               THEN gf_add(Applied(fragment, size, mask)[p], Byte(170))
                      = Applied(fragment, size, lied)[p]
               ELSE Applied(fragment, size, mask)[p] = Applied(fragment, size, lied)[p]
    <2> DEFINE c == IF "corrupt" \in mask /\ size >= 2 /\ p \in {0, 1} THEN Byte(255) ELSE Zero
    <2>1. c \in Element /\ fragment[p] \in Element /\ Byte(170) \in Element
      BY MaskBytes
    <2>2. Applied(fragment, size, mask)[p]
            = gf_add(gf_add(fragment[p],
                IF "lie" \in mask /\ p % 4 = 0 THEN Byte(170) ELSE Zero), c)
      BY DEF Applied
    <2>3. Applied(fragment, size, lied)[p]
            = gf_add(gf_add(fragment[p],
                IF "lie" \in lied /\ p % 4 = 0 THEN Byte(170) ELSE Zero), c)
      BY <1>1 DEF Applied
    <2> HIDE DEF c
    <2>4. /\ gf_add(gf_add(gf_add(fragment[p], Byte(170)), c), Byte(170))
               = gf_add(gf_add(fragment[p], Zero), c)
          /\ gf_add(gf_add(gf_add(fragment[p], Zero), c), Byte(170))
               = gf_add(gf_add(fragment[p], Byte(170)), c)
      BY <2>1, MaskTwice
    <2> QED
      BY <1>1, <2>2, <2>3, <2>4
  <1>3. lie(Applied(fragment, size, mask), size) = Applied(fragment, size, lied)
    <2>1. lie(Applied(fragment, size, mask), size)
            = [p \in Below(size) |->
                IF p % 4 = 0 THEN gf_add(Applied(fragment, size, mask)[p], Byte(170))
                ELSE Applied(fragment, size, mask)[p]]
      BY DEF lie, Xored
    <2>2. Applied(fragment, size, lied)
            = [p \in Below(size) |-> Applied(fragment, size, lied)[p]]
      BY DEF Applied
    <2> QED
      BY <1>2, <2>1, <2>2
  <1>4. ASSUME size >= 2, NEW p \in Below(size)
        PROVE  IF p \in {0, 1}
               THEN gf_add(Applied(fragment, size, mask)[p], Byte(255))
                      = Applied(fragment, size, corrupted)[p]
               ELSE Applied(fragment, size, mask)[p] = Applied(fragment, size, corrupted)[p]
    <2> DEFINE c == IF "lie" \in mask /\ p % 4 = 0 THEN Byte(170) ELSE Zero
    <2>1. c \in Element /\ fragment[p] \in Element /\ Byte(255) \in Element
      BY MaskBytes
    <2>2. Applied(fragment, size, mask)[p]
            = gf_add(gf_add(fragment[p], c),
                IF "corrupt" \in mask /\ p \in {0, 1} THEN Byte(255) ELSE Zero)
      BY <1>4 DEF Applied
    <2>3. Applied(fragment, size, corrupted)[p]
            = gf_add(gf_add(fragment[p], c),
                IF "corrupt" \in corrupted /\ p \in {0, 1} THEN Byte(255) ELSE Zero)
      BY <1>1, <1>4 DEF Applied
    <2> HIDE DEF c
    <2>4. /\ gf_add(gf_add(gf_add(fragment[p], c), Byte(255)), Byte(255))
               = gf_add(gf_add(fragment[p], c), Zero)
          /\ gf_add(gf_add(gf_add(fragment[p], c), Zero), Byte(255))
               = gf_add(gf_add(fragment[p], c), Byte(255))
      BY <2>1, MaskTwice
    <2> QED
      BY <1>1, <2>2, <2>3, <2>4
  <1>5. corrupt(Applied(fragment, size, mask), size) = Applied(fragment, size, corrupted)
    <2>1. CASE size < 2
      <3>1. Applied(fragment, size, corrupted) = Applied(fragment, size, mask)
        BY <1>1, <2>1 DEF Applied
      <3> QED
        BY <2>1, <3>1 DEF corrupt
    <2>2. CASE ~(size < 2)
      <3>1. corrupt(Applied(fragment, size, mask), size)
              = [p \in Below(size) |->
                  IF p \in {0, 1} THEN gf_add(Applied(fragment, size, mask)[p], Byte(255))
                  ELSE Applied(fragment, size, mask)[p]]
        BY <2>2 DEF corrupt, Xored
      <3>2. Applied(fragment, size, corrupted)
              = [p \in Below(size) |-> Applied(fragment, size, corrupted)[p]]
        BY DEF Applied
      <3> QED
        BY <1>4, <2>2, <3>1, <3>2
    <2> QED
      BY <2>1, <2>2
  <1> QED
    BY <1>3, <1>5 DEF lied, corrupted

LEMMA OddToggles ==
  ASSUME NEW calls, NEW k \in Nat, calls[k + 1] \in Kind
  PROVE  OddOnes(calls, k + 1) = Toggle(OddOnes(calls, k), calls[k + 1])
  <1>1. ASSUME NEW x
        PROVE  /\ Cardinality(CallsOf(calls, k, x)) \in Nat
               /\ Cardinality(CallsOf(calls, k + 1, x))
                    = IF calls[k + 1] = x THEN Cardinality(CallsOf(calls, k, x)) + 1
                      ELSE Cardinality(CallsOf(calls, k, x))
    <2>1. IsFiniteSet(1..k) /\ CallsOf(calls, k, x) \in SUBSET (1..k)
      BY FS_Interval DEF CallsOf
    <2>2. IsFiniteSet(CallsOf(calls, k, x))
      BY <2>1, FS_Subset
    <2>3. CallsOf(calls, k + 1, x)
            = IF calls[k + 1] = x THEN CallsOf(calls, k, x) \cup {k + 1} ELSE CallsOf(calls, k, x)
      BY DEF CallsOf
    <2>4. k + 1 \notin CallsOf(calls, k, x)
      BY <2>1
    <2> QED
      BY <2>2, <2>3, <2>4, FS_CardinalityType, FS_AddElement
  <1>2. ASSUME NEW c \in Nat PROVE (c + 1) % 2 = 1 <=> c % 2 # 1
    OBVIOUS
  <1>3. ASSUME NEW x \in Kind
        PROVE  x \in OddOnes(calls, k + 1) <=> x \in Toggle(OddOnes(calls, k), calls[k + 1])
    <2>1. PICK c \in Nat : c = Cardinality(CallsOf(calls, k, x))
      BY <1>1
    <2>2. x \in OddOnes(calls, k) <=> c % 2 = 1
      BY <2>1 DEF OddOnes
    <2>3. CASE calls[k + 1] = x
      <3>1. x \in OddOnes(calls, k + 1) <=> (c + 1) % 2 = 1
        BY <1>1, <2>1, <2>3 DEF OddOnes
      <3>2. x \in Toggle(OddOnes(calls, k), calls[k + 1]) <=> x \notin OddOnes(calls, k)
        BY <2>3 DEF Toggle
      <3> QED
        BY <1>2, <2>2, <3>1, <3>2
    <2>4. CASE calls[k + 1] # x
      <3>1. x \in OddOnes(calls, k + 1) <=> c % 2 = 1
        BY <1>1, <2>1, <2>4 DEF OddOnes
      <3>2. x \in Toggle(OddOnes(calls, k), calls[k + 1]) <=> x \in OddOnes(calls, k)
        BY <2>4 DEF Toggle
      <3> QED
        BY <2>2, <3>1, <3>2
    <2> QED
      BY <2>3, <2>4
  <1>4. /\ OddOnes(calls, k + 1) \subseteq Kind
        /\ Toggle(OddOnes(calls, k), calls[k + 1]) \subseteq Kind
    BY DEF OddOnes, Toggle
  <1> QED
    BY <1>3, <1>4

LEMMA NothingIsOdd == ASSUME NEW calls PROVE OddOnes(calls, 0) = {}
  <1>1. ASSUME NEW x PROVE Cardinality(CallsOf(calls, 0, x)) % 2 # 1
    <2>1. CallsOf(calls, 0, x) = {}
      BY DEF CallsOf
    <2>2. Cardinality({}) = 0
      BY FS_EmptySet
    <2> QED
      BY <2>1, <2>2
  <1> QED
    BY <1>1 DEF OddOnes

LEMMA NoMask ==
  ASSUME NEW size \in Nat, NEW fragment \in [Below(size) -> Element]
  PROVE  Applied(fragment, size, {}) = fragment
  <1>1. ASSUME NEW p \in Below(size)
        PROVE  gf_add(gf_add(fragment[p], Zero), Zero) = fragment[p]
    <2>1. fragment[p] \in Element
      OBVIOUS
    <2> QED
      BY <2>1, AddIsGroup
  <1>2. Applied(fragment, size, {})
          = [p \in Below(size) |-> gf_add(gf_add(fragment[p], Zero), Zero)]
    BY DEF Applied
  <1> QED
    BY <1>1, <1>2

(* The bytes after each of the calls.                                      *)
BytesAfter(bytes, calls, fragment, size) ==
    bytes = [k \in 0..Len(calls) |->
                IF k = 0 THEN fragment
                ELSE IF calls[k] = "lie" THEN lie(bytes[k - 1], size)
                ELSE corrupt(bytes[k - 1], size)]

LEMMA AfterIsApplied ==
  ASSUME NEW size \in Nat, NEW fragment \in [Below(size) -> Element],
         NEW calls, Len(calls) \in Nat, \A k \in 1..Len(calls) : calls[k] \in Kind
  PROVE  After(calls, fragment, size) = Applied(fragment, size, OddOnes(calls, Len(calls)))
  <1> DEFINE left == [k \in 0..Len(calls) |-> Applied(fragment, size, OddOnes(calls, k))]
  <1>1. Applied(fragment, size, {}) = fragment
    BY NoMask
  <1>2. left[0] = fragment
    <2>1. 0 \in 0..Len(calls)
      OBVIOUS
    <2> QED
      BY <1>1, <2>1, NothingIsOdd
  <1>3. ASSUME NEW k \in 0..Len(calls), k # 0
        PROVE  /\ k - 1 \in 0..Len(calls)
               /\ calls[k] = "lie" => left[k] = lie(left[k - 1], size)
               /\ calls[k] # "lie" => left[k] = corrupt(left[k - 1], size)
    <2>1. PICK l \in Nat : l = k - 1 /\ k = l + 1 /\ l \in 0..Len(calls) /\ k \in 1..Len(calls)
      BY <1>3
    <2>2. calls[l + 1] \in Kind /\ OddOnes(calls, l) \in SUBSET Kind
      BY <2>1 DEF OddOnes
    <2>3. left[k] = Applied(fragment, size, Toggle(OddOnes(calls, l), calls[l + 1]))
      BY <2>1, <2>2, OddToggles
    <2>4. left[l] = Applied(fragment, size, OddOnes(calls, l))
      BY <2>1
    <2>5. calls[k] # "lie" => calls[k] = "corrupt"
      BY <2>1, <2>2 DEF Kind
    <2> HIDE DEF left
    <2> QED
      BY <2>1, <2>2, <2>3, <2>4, <2>5, CallToggles
  <1>4. BytesAfter(left, calls, fragment, size)
    <2> HIDE DEF left
    <2>1. left = [k \in 0..Len(calls) |-> left[k]]
      BY DEF left
    <2> QED
      BY <1>2, <1>3, <2>1 DEF BytesAfter
  <1> DEFINE bytes == CHOOSE b : BytesAfter(b, calls, fragment, size)
  <1>5. BytesAfter(bytes, calls, fragment, size)
    BY <1>4
  <1>6. After(calls, fragment, size) = bytes[Len(calls)]
    BY DEF After, BytesAfter
  <1> DEFINE S == {k \in Nat : k <= Len(calls) => bytes[k] = left[k]}
  <1> HIDE DEF bytes
  <1>7. 0 \in S
    <2>1. 0 \in 0..Len(calls)
      OBVIOUS
    <2>2. bytes[0] = fragment
      BY <1>5, <2>1 DEF BytesAfter
    <2> HIDE DEF left
    <2> QED
      BY <1>2, <2>2
  <1>8. ASSUME NEW k \in Nat, k \in S PROVE k + 1 \in S
    <2> HIDE DEF left
    <2> SUFFICES ASSUME k + 1 <= Len(calls) PROVE bytes[k + 1] = left[k + 1]
      OBVIOUS
    <2>1. /\ k + 1 \in 0..Len(calls) /\ k + 1 # 0 /\ (k + 1) - 1 = k /\ bytes[k] = left[k]
      BY <1>8
    <2>2. bytes[k + 1] = IF calls[k + 1] = "lie" THEN lie(bytes[k], size)
                         ELSE corrupt(bytes[k], size)
      BY <1>5, <2>1 DEF BytesAfter
    <2>3. /\ calls[k + 1] = "lie" => left[k + 1] = lie(left[k], size)
          /\ calls[k + 1] # "lie" => left[k + 1] = corrupt(left[k], size)
      BY <1>3, <2>1
    <2> QED
      BY <2>1, <2>2, <2>3
  <1>9. Len(calls) \in S
    <2> HIDE DEF S
    <2> QED
      BY <1>7, <1>8, SetInduction
  <1> QED
    BY <1>6, <1>9

(* The masks that have a byte to change.                                   *)
Effective(mask, size) == {x \in mask : size >= (IF x = "lie" THEN 1 ELSE 2)}

(* The first byte tells the masks apart.                                   *)
LEMMA MasksDiffer ==
  ASSUME NEW size \in Nat, NEW fragment \in [Below(size) -> Element],
         NEW a \in SUBSET Kind, NEW b \in SUBSET Kind
  PROVE  Applied(fragment, size, a) = Applied(fragment, size, b)
             <=> Effective(a, size) = Effective(b, size)
  <1> DEFINE lieMask(mask) == IF "lie" \in mask THEN Byte(170) ELSE Zero
             corruptMask(mask) == IF "corrupt" \in mask /\ size >= 2 THEN Byte(255) ELSE Zero
  <1>1. ASSUME Effective(a, size) = Effective(b, size)
        PROVE  Applied(fragment, size, a) = Applied(fragment, size, b)
    <2>1. ASSUME NEW p \in Below(size)
          PROVE  /\ "lie" \in a <=> "lie" \in b
                 /\ size >= 2 => ("corrupt" \in a <=> "corrupt" \in b)
      <3>1. size >= 1
        BY DEF Below
      <3>2. /\ "lie" \in a <=> "lie" \in Effective(a, size)
            /\ "lie" \in b <=> "lie" \in Effective(b, size)
        BY <3>1 DEF Effective
      <3>3. size >= 2 => /\ "corrupt" \in a <=> "corrupt" \in Effective(a, size)
                         /\ "corrupt" \in b <=> "corrupt" \in Effective(b, size)
        BY DEF Effective
      <3> QED
        BY <1>1, <3>2, <3>3
    <2> QED
      BY <2>1 DEF Applied
  <1>2. ASSUME Applied(fragment, size, a) = Applied(fragment, size, b)
        PROVE  Effective(a, size) = Effective(b, size)
    <2>1. CASE size = 0
      BY <2>1 DEF Effective, Kind
    <2>2. CASE size # 0
      <3>1. 0 \in Below(size) /\ 0 % 4 = 0 /\ size >= 1
        BY <2>2 DEF Below
      <3>2. PICK byte \in Element : byte = fragment[0]
        BY <3>1
      <3>3. \A mask \in {a, b} :
              Applied(fragment, size, mask)[0]
                = gf_add(gf_add(byte, lieMask(mask)), corruptMask(mask))
        BY <3>1, <3>2 DEF Applied
      <3>4. gf_add(gf_add(byte, lieMask(a)), corruptMask(a))
              = gf_add(gf_add(byte, lieMask(b)), corruptMask(b))
        BY <1>2, <3>3
      <3>5. \A mask : lieMask(mask) \in Element /\ corruptMask(mask) \in Element
        BY MaskBytes
      <3>6. gf_add(lieMask(a), corruptMask(a)) = gf_add(lieMask(b), corruptMask(b))
        <4> HIDE DEF lieMask, corruptMask
        <4>1. gf_add(byte, gf_add(lieMask(a), corruptMask(a)))
                = gf_add(byte, gf_add(lieMask(b), corruptMask(b)))
          BY <3>4, <3>5, AddIsGroup
        <4>2. /\ gf_add(lieMask(a), corruptMask(a)) \in Element
              /\ gf_add(lieMask(b), corruptMask(b)) \in Element
          BY <3>5, AddType
        <4> QED
          BY <4>1, <4>2, AddIsGroup, AddCancels
      <3>7. ASSUME NEW x \in Element, NEW y \in Element, x # Zero, y # Zero, x # y
            PROVE  /\ gf_add(Zero, Zero) = Zero /\ gf_add(x, Zero) = x /\ gf_add(Zero, y) = y
                   /\ gf_add(x, y) \notin {Zero, x, y}
        BY <3>7 DEF gf_add, Zero, Element
      <3>8. lieMask(a) = lieMask(b) /\ corruptMask(a) = corruptMask(b)
        <4>1. \A mask : lieMask(mask) \in {Zero, Byte(170)} /\ corruptMask(mask) \in {Zero, Byte(255)}
          OBVIOUS
        <4> HIDE DEF lieMask, corruptMask
        <4> QED
          BY <3>6, <3>7, <4>1, MaskBytes
      <3>9. /\ "lie" \in a <=> "lie" \in b
            /\ size >= 2 => ("corrupt" \in a <=> "corrupt" \in b)
        BY <3>8, MaskBytes
      <3> QED
        BY <3>9 DEF Effective, Kind
    <2> QED
      BY <2>1, <2>2
  <1> QED
    BY <1>1, <1>2

LEMMA CallsType ==
  ASSUME NEW calls \in Calls
  PROVE  /\ Len(calls) \in Nat /\ DOMAIN calls = 1..Len(calls)
         /\ \A k \in 1..Len(calls) : calls[k] \in Kind
  <1>1. PICK k \in 0..3 : calls \in [1..k -> Kind]
    BY DEF Calls, Kind
  <1>2. Len(calls) = k /\ DOMAIN calls = 1..k
    BY <1>1
  <1> QED
    BY <1>1, <1>2

LEMMA MaskIsEffective ==
  ASSUME NEW calls \in Calls, NEW size \in Nat
  PROVE  MaskOf(calls, size) = Effective(OddOnes(calls, Len(calls)), size)
  <1>1. ASSUME NEW x PROVE {k \in DOMAIN calls : calls[k] = x} = CallsOf(calls, Len(calls), x)
    BY CallsType DEF CallsOf
  <1> QED
    BY <1>1 DEF MaskOf, Odd, Effective, OddOnes, Kind

(* However /lie and /corrupt are mixed, the bytes are a function of the    *)
(* masks that are left, and they verify exactly when no mask is left.      *)
THEOREM DamageIsToggledCorrect == Spec => []DamageIsToggled
  <1>1. CodeInv => DamageIsToggled
    <2> SUFFICES ASSUME CodeInv, phase = "encode", NEW data \in Data, NEW i \in Below(n)
                 PROVE  LET size == chunk_size(data)
                            fragments == encode(data)
                            fpcc == build_fpcc(fragments, size)
                            Damaged == [calls \in Calls |-> After(calls, fragments[i], size)]
                        IN  \A a \in Calls :
                                /\ verify_fragment(Damaged[a], size, fpcc, i)
                                       <=> MaskOf(a, size) = {}
                                /\ \A b \in Calls :
                                       Damaged[a] = Damaged[b] <=> MaskOf(a, size) = MaskOf(b, size)
      BY DEF DamageIsToggled
    <2> DEFINE size == chunk_size(data)
               fragment == encode(data)[i]
               fpcc == build_fpcc(encode(data), size)
    <2>1. /\ fragment \in [Below(size) -> Element] /\ size \in Nat
          /\ verify_fragment(fragment, size, fpcc, i)
      BY HonestFragments, ChunksHoldData, FpccType
    <2>2. ASSUME NEW a \in Calls
          PROVE  /\ After(a, fragment, size) = Applied(fragment, size, OddOnes(a, Len(a)))
                 /\ OddOnes(a, Len(a)) \in SUBSET Kind
                 /\ MaskOf(a, size) = Effective(OddOnes(a, Len(a)), size)
      BY <2>1, CallsType, AfterIsApplied, MaskIsEffective DEF OddOnes
    <2>3. ASSUME NEW a \in Calls, NEW b \in Calls
          PROVE  After(a, fragment, size) = After(b, fragment, size)
                     <=> MaskOf(a, size) = MaskOf(b, size)
      BY <2>1, <2>2, MasksDiffer
    <2>4. fpcc.cc[i] = fragment
      BY DEF build_fpcc
    <2> HIDE DEF size, fragment, fpcc
    <2>5. ASSUME NEW a \in Calls
          PROVE  verify_fragment(After(a, fragment, size), size, fpcc, i) <=> MaskOf(a, size) = {}
      <3>1. Applied(fragment, size, {}) = fragment
        BY <2>1, NoMask
      <3>2. Effective({}, size) = {} /\ {} \in SUBSET Kind
        BY DEF Effective
      <3>3. After(a, fragment, size) = fragment <=> MaskOf(a, size) = {}
        <4>1. PICK mask \in SUBSET Kind : mask = OddOnes(a, Len(a))
          BY <2>2
        <4>2. Applied(fragment, size, mask) = Applied(fragment, size, {})
                <=> Effective(mask, size) = Effective({}, size)
          BY <2>1, <3>2, MasksDiffer
        <4> QED
          BY <2>2, <3>1, <3>2, <4>1, <4>2
      <3>4. verify_fragment(After(a, fragment, size), size, fpcc, i)
              => After(a, fragment, size) = fragment
        BY <2>4 DEF verify_fragment
      <3> QED
        BY <2>1, <3>3, <3>4
    <2> QED
      BY <2>3, <2>5 DEF size, fragment, fpcc
  <1> QED
    BY <1>1, InitCode, NextCode, PTL DEF Spec
=============================================================================
