---------------------------- MODULE GF256Proofs ----------------------------
(***************************************************************************)
(* What the arithmetic of GF256 computes: the field axioms, which follow   *)
(* from the tables, linearity of sums, and that a polynomial with as many  *)
(* roots as coefficients is zero. Induction is over sets of numbers.       *)
(***************************************************************************)
EXTENDS GF256, TLAPS, WellFoundedInduction

-----------------------------------------------------------------------------
(* Induction over a set of numbers                                         *)

Smaller == {p \in Nat \X Nat : p[1] < p[2]}

LEMMA SmallerIsWellFounded == IsWellFoundedOn(Smaller, Nat)
  <1>1. OpToRel(<, Nat) = Smaller
    BY DEF OpToRel, Smaller
  <1> QED
    BY <1>1, NatLessThanWellFounded

(* A set that holds 0, and with each number the next, holds every number.  *)
LEMMA SetInduction ==
  ASSUME NEW S, 0 \in S, \A k \in Nat : k \in S => k + 1 \in S
  PROVE  Nat \subseteq S
  <1> SUFFICES ASSUME Nat \ S # {} PROVE FALSE
    OBVIOUS
  <1>1. PICK k \in Nat \ S : \A j \in Nat \ S : <<j, k>> \notin Smaller
    BY SmallerIsWellFounded, WFMin
  <1>2. k - 1 \in Nat /\ k - 1 < k
    OBVIOUS
  <1>3. k - 1 \in S
    BY <1>1, <1>2 DEF Smaller
  <1> QED
    BY <1>2, <1>3

-----------------------------------------------------------------------------
(* The field                                                               *)

LEMMA AddType ==
  ASSUME NEW a \in Element, NEW b \in Element
  PROVE  gf_add(a, b) \in Element
  BY DEF gf_add, Element

LEMMA AddIsGroup ==
  ASSUME NEW a \in Element, NEW b \in Element, NEW c \in Element
  PROVE  /\ gf_add(a, b) = gf_add(b, a)
         /\ gf_add(gf_add(a, b), c) = gf_add(a, gf_add(b, c))
         /\ gf_add(a, Zero) = a /\ gf_add(Zero, a) = a /\ gf_add(a, a) = Zero
  <1>1. gf_add(a, b) = gf_add(b, a)
    BY DEF gf_add
  <1>2. \A x : x \in gf_add(gf_add(a, b), c) <=> x \in gf_add(a, gf_add(b, c))
    BY DEF gf_add
  <1>3. gf_add(gf_add(a, b), c) = gf_add(a, gf_add(b, c))
    BY <1>2
  <1>4. gf_add(a, Zero) = a /\ gf_add(Zero, a) = a /\ gf_add(a, a) = Zero
    BY DEF gf_add, Zero
  <1> QED
    BY <1>1, <1>3, <1>4

LEMMA AddSwaps ==
  ASSUME NEW a \in Element, NEW b \in Element, NEW c \in Element, NEW d \in Element
  PROVE  gf_add(gf_add(a, b), gf_add(c, d)) = gf_add(gf_add(a, c), gf_add(b, d))
  <1>1. \A x : x \in gf_add(gf_add(a, b), gf_add(c, d))
                  <=> x \in gf_add(gf_add(a, c), gf_add(b, d))
    BY DEF gf_add
  <1> QED
    BY <1>1

(* In a field of characteristic 2, a sum is zero when its terms are equal. *)
LEMMA AddCancels ==
  ASSUME NEW a \in Element, NEW b \in Element, NEW c \in Element
  PROVE  /\ gf_add(a, b) = Zero <=> a = b
         /\ gf_add(a, c) = gf_add(b, c) <=> a = b
  BY DEF gf_add, Zero, Element

(* The power of the generator.                                             *)
Power(i) == _EXP[i % 255]

LEMMA PowerIsTable ==
  ASSUME NEW i \in 0..511
  PROVE  _EXP[i] = Power(i)
  <1>1. i % 255 \in 0..511 /\ (i % 255) % 255 = i % 255
    OBVIOUS
  <1> QED
    BY <1>1 DEF _EXP, Power

LEMMA FirstPowers == Power(0) = One /\ Power(1) = _GENERATOR /\ Power(255) = One
  <1>1. 0 % 255 = 0 /\ 1 % 255 = 1 /\ 255 % 255 = 0
    OBVIOUS
  <1> QED
    BY <1>1, TablesAssumption DEF Power

LEMMA PowerType ==
  ASSUME NEW i \in Nat
  PROVE  Power(i) \in Element \ {Zero} /\ _LOG[Power(i)] = i % 255
  <1>1. i % 255 \in 0..254
    OBVIOUS
  <1> QED
    BY <1>1, TablesAssumption DEF Power

LEMMA EveryElementIsPower ==
  ASSUME NEW a \in Element, a # Zero
  PROVE  _LOG[a] \in Nat /\ _LOG[a] \in 0..254 /\ a = Power(_LOG[a])
  <1>1. _LOG[a] \in 0..254 /\ _EXP[_LOG[a]] = a
    BY TablesAssumption
  <1> QED
    BY <1>1, PowerIsTable

LEMMA MulPowers ==
  ASSUME NEW i \in Nat, NEW j \in Nat
  PROVE  gf_mul(Power(i), Power(j)) = Power(i + j)
  <1>1. /\ Power(i) # Zero /\ _LOG[Power(i)] = i % 255
        /\ Power(j) # Zero /\ _LOG[Power(j)] = j % 255
    BY PowerType
  <1>2. gf_mul(Power(i), Power(j)) = _EXP[(i % 255) + (j % 255)]
    BY <1>1 DEF gf_mul
  <1>3. (i % 255) + (j % 255) \in 0..511
        /\ ((i % 255) + (j % 255)) % 255 = (i + j) % 255
    OBVIOUS
  <1>4. _EXP[(i % 255) + (j % 255)] = Power((i % 255) + (j % 255))
    BY <1>3, PowerIsTable
  <1> QED
    BY <1>2, <1>3, <1>4 DEF Power

LEMMA MulZero ==
  ASSUME NEW a
  PROVE  gf_mul(a, Zero) = Zero /\ gf_mul(Zero, a) = Zero
  BY DEF gf_mul

LEMMA MulType ==
  ASSUME NEW a \in Element, NEW b \in Element
  PROVE  /\ gf_mul(a, b) \in Element
         /\ a # Zero /\ b # Zero => gf_mul(a, b) # Zero
  <1>1. CASE a = Zero \/ b = Zero
    BY <1>1, MulZero DEF Zero, Element
  <1>2. CASE a # Zero /\ b # Zero
    <2>1. PICK i \in Nat, j \in Nat : a = Power(i) /\ b = Power(j)
      BY <1>2, EveryElementIsPower
    <2>2. gf_mul(a, b) = Power(i + j)
      BY <2>1, MulPowers
    <2> QED
      BY <2>2, PowerType
  <1> QED
    BY <1>1, <1>2

LEMMA MulCommutes ==
  ASSUME NEW a \in Element, NEW b \in Element
  PROVE  gf_mul(a, b) = gf_mul(b, a)
  <1>1. CASE a = Zero \/ b = Zero
    BY <1>1, MulZero
  <1>2. CASE a # Zero /\ b # Zero
    <2>1. PICK i \in Nat, j \in Nat : a = Power(i) /\ b = Power(j)
      BY <1>2, EveryElementIsPower
    <2>2. i + j = j + i
      OBVIOUS
    <2> QED
      BY <2>1, <2>2, MulPowers
  <1> QED
    BY <1>1, <1>2

LEMMA MulAssociates ==
  ASSUME NEW a \in Element, NEW b \in Element, NEW c \in Element
  PROVE  gf_mul(gf_mul(a, b), c) = gf_mul(a, gf_mul(b, c))
  <1>1. CASE a = Zero \/ b = Zero \/ c = Zero
    BY <1>1, MulZero
  <1>2. CASE a # Zero /\ b # Zero /\ c # Zero
    <2>1. PICK i \in Nat, j \in Nat, k \in Nat :
            a = Power(i) /\ b = Power(j) /\ c = Power(k)
      BY <1>2, EveryElementIsPower
    <2>2. (i + j) + k = i + (j + k) /\ i + j \in Nat /\ j + k \in Nat
      OBVIOUS
    <2>3. /\ gf_mul(gf_mul(a, b), c) = Power((i + j) + k)
          /\ gf_mul(a, gf_mul(b, c)) = Power(i + (j + k))
      BY <2>1, <2>2, MulPowers
    <2> QED
      BY <2>2, <2>3
  <1> QED
    BY <1>1, <1>2

LEMMA MulOne ==
  ASSUME NEW a \in Element
  PROVE  gf_mul(a, One) = a /\ gf_mul(One, a) = a /\ One \in Element /\ One # Zero
  <1>1. One = Power(0) /\ One \in Element /\ One # Zero
    BY FirstPowers, PowerType
  <1>2. CASE a = Zero
    BY <1>2, MulZero, <1>1
  <1>3. CASE a # Zero
    <2>1. PICK i \in Nat : a = Power(i)
      BY <1>3, EveryElementIsPower
    <2>2. i + 0 = i /\ 0 + i = i
      OBVIOUS
    <2> QED
      BY <1>1, <2>1, <2>2, MulPowers
  <1> QED
    BY <1>1, <1>2, <1>3

LEMMA MulInverse ==
  ASSUME NEW a \in Element, a # Zero
  PROVE  gf_inv(a) \in Element /\ gf_mul(a, gf_inv(a)) = One
  <1>1. _LOG[a] \in 0..254 /\ a = Power(_LOG[a])
    BY EveryElementIsPower
  <1>2. PICK i \in 0..254, j \in 1..255 : i = _LOG[a] /\ j = 255 - _LOG[a] /\ i + j = 255
    BY <1>1
  <1>3. gf_inv(a) = Power(j)
    BY <1>2, PowerIsTable DEF gf_inv
  <1>4. a = Power(i) /\ i \in Nat /\ j \in Nat
    BY <1>1, <1>2
  <1>5. gf_mul(a, gf_inv(a)) = Power(i + j)
    BY <1>3, <1>4, MulPowers
  <1> QED
    BY <1>2, <1>3, <1>5, FirstPowers, PowerType

LEMMA MulCancels ==
  ASSUME NEW a \in Element, a # Zero, NEW b \in Element, NEW c \in Element,
         gf_mul(a, b) = gf_mul(a, c)
  PROVE  b = c
  <1>1. gf_inv(a) \in Element /\ gf_mul(gf_inv(a), a) = One
    BY MulInverse, MulCommutes
  <1>2. /\ gf_mul(gf_inv(a), gf_mul(a, b)) = gf_mul(One, b)
        /\ gf_mul(gf_inv(a), gf_mul(a, c)) = gf_mul(One, c)
    BY <1>1, MulAssociates
  <1> QED
    BY <1>2, MulOne

(* Multiplying by a power of the generator is multiplying by the generator *)
(* as often.                                                               *)
LEMMA MulDistributes ==
  ASSUME NEW a \in Element, NEW b \in Element, NEW c \in Element
  PROVE  /\ gf_mul(a, gf_add(b, c)) = gf_add(gf_mul(a, b), gf_mul(a, c))
         /\ gf_mul(gf_add(b, c), a) = gf_add(gf_mul(b, a), gf_mul(c, a))
  <1> DEFINE S == {i \in Nat : \A x, y \in Element :
                     gf_mul(Power(i), gf_add(x, y))
                         = gf_add(gf_mul(Power(i), x), gf_mul(Power(i), y))}
  <1>1. 0 \in S
    <2>1. Power(0) = One
      BY FirstPowers
    <2> QED
      BY <2>1, MulOne, AddType
  <1>2. ASSUME NEW i \in Nat, i \in S PROVE i + 1 \in S
    <2>1. _GENERATOR = Power(1) /\ _GENERATOR \in Element
      BY FirstPowers, PowerType
    <2>2. Power(i) \in Element /\ Power(i + 1) = gf_mul(_GENERATOR, Power(i))
      <3>1. 1 + i = i + 1
        OBVIOUS
      <3> QED
        BY <2>1, <3>1, MulPowers, PowerType
    <2>3. ASSUME NEW x \in Element, NEW y \in Element
          PROVE  gf_mul(Power(i + 1), gf_add(x, y))
                     = gf_add(gf_mul(Power(i + 1), x), gf_mul(Power(i + 1), y))
      <3>1. /\ gf_mul(Power(i), x) \in Element /\ gf_mul(Power(i), y) \in Element
            /\ gf_add(x, y) \in Element
        BY <2>2, MulType, AddType
      <3>2. gf_mul(Power(i + 1), gf_add(x, y))
              = gf_mul(_GENERATOR, gf_mul(Power(i), gf_add(x, y)))
        BY <2>1, <2>2, <3>1, MulAssociates
      <3>3. gf_mul(Power(i), gf_add(x, y)) = gf_add(gf_mul(Power(i), x), gf_mul(Power(i), y))
        BY <1>2
      <3>4. gf_mul(_GENERATOR, gf_add(gf_mul(Power(i), x), gf_mul(Power(i), y)))
              = gf_add(gf_mul(_GENERATOR, gf_mul(Power(i), x)),
                       gf_mul(_GENERATOR, gf_mul(Power(i), y)))
        BY <3>1, TablesAssumption
      <3>5. /\ gf_mul(_GENERATOR, gf_mul(Power(i), x)) = gf_mul(Power(i + 1), x)
            /\ gf_mul(_GENERATOR, gf_mul(Power(i), y)) = gf_mul(Power(i + 1), y)
        BY <2>1, <2>2, MulAssociates
      <3> QED
        BY <3>2, <3>3, <3>4, <3>5
    <2> QED
      BY <2>3
  <1> HIDE DEF S
  <1>3. Nat \subseteq S
    BY <1>1, <1>2, SetInduction
  <1>4. gf_mul(a, gf_add(b, c)) = gf_add(gf_mul(a, b), gf_mul(a, c))
    <2>1. CASE a = Zero
      BY <2>1, MulZero DEF gf_add, Zero
    <2>2. CASE a # Zero
      <3>1. PICK i \in Nat : a = Power(i)
        BY <2>2, EveryElementIsPower
      <3> QED
        BY <1>3, <3>1 DEF S
    <2> QED
      BY <2>1, <2>2
  <1>5. gf_mul(gf_add(b, c), a) = gf_add(gf_mul(b, a), gf_mul(c, a))
    <2>1. /\ gf_mul(gf_add(b, c), a) = gf_mul(a, gf_add(b, c))
          /\ gf_mul(b, a) = gf_mul(a, b) /\ gf_mul(c, a) = gf_mul(a, c)
      BY AddType, MulCommutes
    <2> QED
      BY <1>4, <2>1
  <1> QED
    BY <1>4, <1>5
-----------------------------------------------------------------------------
(* Sums                                                                    *)

(* sum holds the partial sums of the first k terms.                        *)
PartialSums(sum, terms, k) ==
    sum = [i \in 0..k |-> IF i = 0 THEN Zero ELSE gf_add(sum[i - 1], terms[i - 1])]

LEMMA PartialSumsExist ==
  ASSUME NEW terms, NEW k \in Nat
  PROVE  \E sum : PartialSums(sum, terms, k)
  <1> DEFINE S == {l \in Nat : \E sum : PartialSums(sum, terms, l)}
  <1>1. 0 \in S
    <2> DEFINE sum == [i \in 0..0 |-> Zero]
    <2>1. PartialSums(sum, terms, 0)
      BY DEF PartialSums
    <2> QED
      BY <2>1
  <1>2. ASSUME NEW l \in Nat, l \in S PROVE l + 1 \in S
    <2>1. PICK sum : PartialSums(sum, terms, l)
      BY <1>2
    <2> DEFINE next == [i \in 0..(l + 1) |->
                          IF i = l + 1 THEN gf_add(sum[l], terms[l]) ELSE sum[i]]
    <2>2. ASSUME NEW i \in 0..(l + 1)
          PROVE  next[i] = IF i = 0 THEN Zero ELSE gf_add(next[i - 1], terms[i - 1])
      <3>1. CASE i = l + 1
        <4>1. i - 1 = l /\ l \in 0..(l + 1) /\ l # l + 1 /\ i # 0
          BY <3>1
        <4> QED
          BY <3>1, <4>1
      <3>2. CASE i = 0
        BY <2>1, <3>2 DEF PartialSums
      <3>3. CASE i # 0 /\ i # l + 1
        <4>1. i \in 0..l /\ i - 1 \in 0..(l + 1) /\ i - 1 # l + 1
          BY <3>3
        <4>2. sum[i] = gf_add(sum[i - 1], terms[i - 1])
          BY <2>1, <3>3, <4>1 DEF PartialSums
        <4> QED
          BY <3>3, <4>1, <4>2
      <3> QED
        BY <3>1, <3>2, <3>3
    <2>3. PartialSums(next, terms, l + 1)
      BY <2>2 DEF PartialSums
    <2> QED
      BY <2>3
  <1> HIDE DEF S
  <1>3. Nat \subseteq S
    BY <1>1, <1>2, SetInduction
  <1> QED
    BY <1>3 DEF S

(* Partial sums of terms that agree do.                                    *)
LEMMA PartialSumsAgree ==
  ASSUME NEW t, NEW k \in Nat, NEW f, PartialSums(f, t, k),
         NEW u, NEW l \in Nat, NEW g, PartialSums(g, u, l),
         NEW i \in Nat, i <= k, i <= l, \A j \in 0..(i - 1) : t[j] = u[j]
  PROVE  f[i] = g[i]
  <1> DEFINE S == {j \in Nat : j <= i => f[j] = g[j]}
  <1>1. 0 \in S
    <2>1. 0 \in 0..k /\ 0 \in 0..l
      OBVIOUS
    <2>2. f[0] = Zero /\ g[0] = Zero
      BY <2>1 DEF PartialSums
    <2> QED
      BY <2>2
  <1>2. ASSUME NEW j \in Nat, j \in S PROVE j + 1 \in S
    <2> SUFFICES ASSUME j + 1 <= i PROVE f[j + 1] = g[j + 1]
      OBVIOUS
    <2>1. /\ j + 1 \in 0..k /\ j + 1 \in 0..l /\ j + 1 # 0 /\ (j + 1) - 1 = j
          /\ j \in 0..(i - 1) /\ j <= i
      OBVIOUS
    <2>2. f[j + 1] = gf_add(f[j], t[j]) /\ g[j + 1] = gf_add(g[j], u[j])
      BY <2>1 DEF PartialSums
    <2> QED
      BY <1>2, <2>1, <2>2
  <1> HIDE DEF S
  <1>3. Nat \subseteq S
    BY <1>1, <1>2, SetInduction
  <1> QED
    BY <1>3 DEF S

LEMMA SumIsPartial ==
  ASSUME NEW terms, NEW k \in Nat
  PROVE  \E sum : PartialSums(sum, terms, k) /\ GfSum(terms, k) = sum[k]
  <1> DEFINE Sums == CHOOSE sum : PartialSums(sum, terms, k)
  <1>1. PartialSums(Sums, terms, k)
    BY PartialSumsExist
  <1>2. GfSum(terms, k) = Sums[k]
    BY DEF GfSum, PartialSums
  <1> QED
    BY <1>1, <1>2

LEMMA SumStep ==
  ASSUME NEW terms, NEW k \in Nat
  PROVE  /\ GfSum(terms, 0) = Zero
         /\ GfSum(terms, k + 1) = gf_add(GfSum(terms, k), terms[k])
  <1>1. PICK f : PartialSums(f, terms, k) /\ GfSum(terms, k) = f[k]
    BY SumIsPartial
  <1>2. k + 1 \in Nat /\ 0 \in Nat
    OBVIOUS
  <1>3. PICK g : PartialSums(g, terms, k + 1) /\ GfSum(terms, k + 1) = g[k + 1]
    BY <1>2, SumIsPartial
  <1>4. ASSUME NEW l \in Nat, k <= l, PartialSums(g, terms, l) PROVE f[k] = g[k]
    <2>1. k <= k /\ \A j \in 0..(k - 1) : terms[j] = terms[j]
      OBVIOUS
    <2> QED
      BY <1>1, <1>4, <2>1, PartialSumsAgree
  <1>5. g[k + 1] = gf_add(g[k], terms[k])
    <2>1. k + 1 \in 0..(k + 1) /\ k + 1 # 0 /\ (k + 1) - 1 = k
      OBVIOUS
    <2> QED
      BY <1>3, <2>1 DEF PartialSums
  <1>6. PICK h : PartialSums(h, terms, 0) /\ GfSum(terms, 0) = h[0]
    BY <1>2, SumIsPartial
  <1>7. h[0] = Zero
    BY <1>6 DEF PartialSums
  <1> QED
    BY <1>1, <1>2, <1>3, <1>4, <1>5, <1>6, <1>7

LEMMA SumType ==
  ASSUME NEW k \in Nat, NEW terms, \A i \in 0..(k - 1) : terms[i] \in Element
  PROVE  GfSum(terms, k) \in Element
  <1> DEFINE S == {l \in Nat : l <= k => GfSum(terms, l) \in Element}
  <1>1. 0 \in S
    BY SumStep DEF Zero, Element
  <1>2. ASSUME NEW l \in Nat, l \in S PROVE l + 1 \in S
    <2> SUFFICES ASSUME l + 1 <= k PROVE GfSum(terms, l + 1) \in Element
      OBVIOUS
    <2>1. l \in 0..(k - 1) /\ l <= k
      OBVIOUS
    <2> QED
      BY <1>2, <2>1, SumStep, AddType
  <1> HIDE DEF S
  <1>3. Nat \subseteq S
    BY <1>1, <1>2, SetInduction
  <1> QED
    BY <1>3 DEF S

LEMMA SumAgree ==
  ASSUME NEW k \in Nat, NEW t, NEW u, \A i \in 0..(k - 1) : t[i] = u[i]
  PROVE  GfSum(t, k) = GfSum(u, k)
  <1>1. PICK f : PartialSums(f, t, k) /\ GfSum(t, k) = f[k]
    BY SumIsPartial
  <1>2. PICK g : PartialSums(g, u, k) /\ GfSum(u, k) = g[k]
    BY SumIsPartial
  <1> QED
    BY <1>1, <1>2, PartialSumsAgree

LEMMA SumAdds ==
  ASSUME NEW k \in Nat, NEW t, NEW u, NEW s,
         \A i \in 0..(k - 1) :
             t[i] \in Element /\ u[i] \in Element /\ s[i] = gf_add(t[i], u[i])
  PROVE  GfSum(s, k) = gf_add(GfSum(t, k), GfSum(u, k))
  <1> DEFINE S == {l \in Nat : l <= k => GfSum(s, l) = gf_add(GfSum(t, l), GfSum(u, l))}
  <1>1. 0 \in S
    BY SumStep DEF gf_add, Zero
  <1>2. ASSUME NEW l \in Nat, l \in S PROVE l + 1 \in S
    <2> SUFFICES ASSUME l + 1 <= k
                 PROVE  GfSum(s, l + 1) = gf_add(GfSum(t, l + 1), GfSum(u, l + 1))
      OBVIOUS
    <2>1. l \in 0..(k - 1) /\ l <= k /\ \A i \in 0..(l - 1) : i \in 0..(k - 1)
      OBVIOUS
    <2>2. PICK a, b, c, d : /\ a = GfSum(t, l) /\ b = GfSum(u, l)
                            /\ c = t[l] /\ d = u[l]
      OBVIOUS
    <2>3. a \in Element /\ b \in Element /\ c \in Element /\ d \in Element
      BY <2>1, <2>2, SumType
    <2>4. GfSum(s, l + 1) = gf_add(gf_add(a, b), gf_add(c, d))
      BY <1>2, <2>1, <2>2, SumStep
    <2>5. gf_add(gf_add(a, b), gf_add(c, d)) = gf_add(gf_add(a, c), gf_add(b, d))
      BY <2>3, AddSwaps
    <2> QED
      BY <2>2, <2>4, <2>5, SumStep
  <1> HIDE DEF S
  <1>3. Nat \subseteq S
    BY <1>1, <1>2, SetInduction
  <1> QED
    BY <1>3 DEF S

LEMMA SumScales ==
  ASSUME NEW k \in Nat, NEW c \in Element, NEW t, NEW s,
         \A i \in 0..(k - 1) : t[i] \in Element /\ s[i] = gf_mul(c, t[i])
  PROVE  GfSum(s, k) = gf_mul(c, GfSum(t, k))
  <1> DEFINE S == {l \in Nat : l <= k => GfSum(s, l) = gf_mul(c, GfSum(t, l))}
  <1>1. 0 \in S
    BY SumStep, MulZero
  <1>2. ASSUME NEW l \in Nat, l \in S PROVE l + 1 \in S
    <2> SUFFICES ASSUME l + 1 <= k
                 PROVE  GfSum(s, l + 1) = gf_mul(c, GfSum(t, l + 1))
      OBVIOUS
    <2>1. l \in 0..(k - 1) /\ l <= k /\ \A i \in 0..(l - 1) : i \in 0..(k - 1)
      OBVIOUS
    <2>2. t[l] \in Element /\ GfSum(t, l) \in Element
      BY <2>1, SumType
    <2>3. GfSum(s, l + 1) = gf_add(gf_mul(c, GfSum(t, l)), gf_mul(c, t[l]))
      BY <1>2, <2>1, SumStep
    <2> QED
      BY <2>2, <2>3, MulDistributes, SumStep
  <1> HIDE DEF S
  <1>3. Nat \subseteq S
    BY <1>1, <1>2, SetInduction
  <1> QED
    BY <1>3 DEF S

LEMMA SumZero ==
  ASSUME NEW k \in Nat, NEW t, \A i \in 0..(k - 1) : t[i] = Zero
  PROVE  GfSum(t, k) = Zero
  <1>1. \A i \in 0..(k - 1) : t[i] \in Element /\ t[i] = gf_mul(Zero, t[i])
    BY MulZero DEF Zero, Element
  <1> QED
    BY <1>1, SumScales, MulZero DEF Zero, Element

(* A sum with one term that may not be zero.                               *)
LEMMA SumSingle ==
  ASSUME NEW k \in Nat, NEW p \in 0..(k - 1), NEW t, t[p] \in Element,
         \A i \in 0..(k - 1) : i # p => t[i] = Zero
  PROVE  GfSum(t, k) = t[p]
  <1> DEFINE S == {l \in Nat : l <= k => GfSum(t, l) = IF p < l THEN t[p] ELSE Zero}
  <1>1. 0 \in S
    BY SumStep
  <1>2. ASSUME NEW l \in Nat, l \in S PROVE l + 1 \in S
    <2> SUFFICES ASSUME l + 1 <= k
                 PROVE  GfSum(t, l + 1) = IF p < l + 1 THEN t[p] ELSE Zero
      OBVIOUS
    <2>1. l \in 0..(k - 1) /\ l <= k
      OBVIOUS
    <2>2. GfSum(t, l + 1) = gf_add(GfSum(t, l), t[l])
      BY SumStep
    <2>3. CASE l = p
      <3>1. GfSum(t, l) = Zero
        BY <1>2, <2>1, <2>3
      <3> QED
        BY <2>2, <2>3, <3>1, AddIsGroup
    <2>4. CASE l # p
      <3>1. t[l] = Zero /\ GfSum(t, l) \in Element
        BY <1>2, <2>1, <2>4 DEF Zero, Element
      <3>2. GfSum(t, l + 1) = GfSum(t, l)
        BY <2>2, <3>1, AddIsGroup
      <3> QED
        BY <1>2, <2>1, <2>4, <3>2
    <2> QED
      BY <2>3, <2>4
  <1> HIDE DEF S
  <1>3. Nat \subseteq S
    BY <1>1, <1>2, SetInduction
  <1>4. k \in S /\ k <= k /\ p < k
    BY <1>3
  <1> QED
    BY <1>4 DEF S

(* The order of two sums does not matter.                                  *)
LEMMA SumSwaps ==
  ASSUME NEW k \in Nat, NEW l \in Nat, NEW a,
         \A i \in 0..(k - 1), j \in 0..(l - 1) : a[i][j] \in Element
  PROVE  GfSum([i \in 0..(k - 1) |-> GfSum([j \in 0..(l - 1) |-> a[i][j]], l)], k)
           = GfSum([j \in 0..(l - 1) |-> GfSum([i \in 0..(k - 1) |-> a[i][j]], k)], l)
  <1> DEFINE Row(i) == GfSum([j \in 0..(l - 1) |-> a[i][j]], l)
             Rows == [i \in 0..(k - 1) |-> Row(i)]
             Col(j) == [i \in 0..(k - 1) |-> a[i][j]]
             Cols(p) == [j \in 0..(l - 1) |-> GfSum(Col(j), p)]
             S == {p \in Nat : p <= k => GfSum(Rows, p) = GfSum(Cols(p), l)}
  <1>1. 0 \in S
    <2>1. \A j \in 0..(l - 1) : Cols(0)[j] = Zero
      BY SumStep
    <2>2. GfSum(Cols(0), l) = Zero
      BY <2>1, SumZero
    <2> QED
      BY <2>2, SumStep
  <1>2. ASSUME NEW p \in Nat, p \in S PROVE p + 1 \in S
    <2> SUFFICES ASSUME p + 1 <= k PROVE GfSum(Rows, p + 1) = GfSum(Cols(p + 1), l)
      OBVIOUS
    <2>1. p \in 0..(k - 1) /\ p <= k /\ \A i \in 0..(p - 1) : i \in 0..(k - 1)
      OBVIOUS
    <2> DEFINE this == [j \in 0..(l - 1) |-> a[p][j]]
    <2>2. ASSUME NEW j \in 0..(l - 1)
          PROVE  /\ Cols(p)[j] \in Element /\ this[j] \in Element
                 /\ Cols(p + 1)[j] = gf_add(Cols(p)[j], this[j])
      <3>1. \A i \in 0..(p - 1) : Col(j)[i] \in Element
        BY <2>1
      <3>2. GfSum(Col(j), p) \in Element
        BY <3>1, SumType
      <3>3. GfSum(Col(j), p + 1) = gf_add(GfSum(Col(j), p), Col(j)[p])
        BY SumStep
      <3> QED
        BY <2>1, <3>2, <3>3
    <2>3. GfSum(Cols(p + 1), l) = gf_add(GfSum(Cols(p), l), GfSum(this, l))
      <3> HIDE DEF Cols, this
      <3> QED
        BY <2>2, SumAdds
    <2>4. GfSum(Rows, p + 1) = gf_add(GfSum(Rows, p), Rows[p])
      BY SumStep
    <2>5. Rows[p] = GfSum(this, l)
      BY <2>1
    <2> QED
      BY <1>2, <2>1, <2>3, <2>4, <2>5
  <1> HIDE DEF S
  <1>3. Nat \subseteq S
    BY <1>1, <1>2, SetInduction
  <1>4. GfSum(Rows, k) = GfSum(Cols(k), l)
    <2>1. k \in S /\ k <= k
      BY <1>3
    <2> QED
      BY <2>1 DEF S
  <1> QED
    BY <1>4

(* The first term, taken apart.                                            *)
LEMMA SumShifts ==
  ASSUME NEW k \in Nat, NEW t, \A i \in 0..k : t[i] \in Element
  PROVE  GfSum(t, k + 1) = gf_add(t[0], GfSum([i \in 0..(k - 1) |-> t[i + 1]], k))
  <1> DEFINE tail == [i \in 0..(k - 1) |-> t[i + 1]]
             S == {l \in Nat : l <= k => GfSum(t, l + 1) = gf_add(t[0], GfSum(tail, l))}
  <1>1. 0 \in S
    <2>1. GfSum(t, 0 + 1) = gf_add(Zero, t[0]) /\ GfSum(tail, 0) = Zero
      BY SumStep
    <2>2. t[0] \in Element /\ Zero \in Element
      BY DEF Zero, Element
    <2> QED
      BY <2>1, <2>2, AddIsGroup
  <1>2. ASSUME NEW l \in Nat, l \in S PROVE l + 1 \in S
    <2> SUFFICES ASSUME l + 1 <= k
                 PROVE  GfSum(t, (l + 1) + 1) = gf_add(t[0], GfSum(tail, l + 1))
      OBVIOUS
    <2>1. l \in 0..(k - 1) /\ l <= k /\ 0 \in 0..k /\ l + 1 \in 0..k
          /\ l + 1 \in Nat /\ \A i \in 0..(l - 1) : i \in 0..(k - 1) /\ i + 1 \in 0..k
      OBVIOUS
    <2>2. tail[l] = t[l + 1] /\ \A i \in 0..(l - 1) : tail[i] \in Element
      BY <2>1
    <2>3. GfSum(t, (l + 1) + 1) = gf_add(GfSum(t, l + 1), t[l + 1])
      BY <2>1, SumStep
    <2>4. GfSum(tail, l + 1) = gf_add(GfSum(tail, l), t[l + 1])
      BY <2>2, SumStep
    <2>5. GfSum(tail, l) \in Element
      BY <2>2, SumType
    <2>6. t[0] \in Element /\ t[l + 1] \in Element
      BY <2>1
    <2>7. GfSum(t, l + 1) = gf_add(t[0], GfSum(tail, l))
      BY <1>2, <2>1
    <2> HIDE DEF tail
    <2> QED
      BY <2>3, <2>4, <2>5, <2>6, <2>7, AddIsGroup
  <1> HIDE DEF S
  <1>3. Nat \subseteq S
    BY <1>1, <1>2, SetInduction
  <1>4. k \in S /\ k <= k
    BY <1>3
  <1> QED
    BY <1>4 DEF S

-----------------------------------------------------------------------------
(* Polynomials                                                             *)

LEMMA PowStep ==
  ASSUME NEW x \in Element, NEW k \in Nat
  PROVE  /\ gf_pow(x, 0) = One
         /\ gf_pow(x, k + 1) = gf_mul(x, gf_pow(x, k))
         /\ gf_pow(x, k) \in Element
  <1>1. gf_pow(x, 0) = One
    BY DEF gf_pow
  <1>2. CASE x = Zero
    <2>1. k + 1 # 0
      OBVIOUS
    <2>2. gf_pow(x, k + 1) = Zero
      BY <1>2, <2>1 DEF gf_pow
    <2>3. gf_pow(x, k) \in Element
      BY <1>2, MulOne DEF gf_pow
    <2> QED
      BY <1>1, <1>2, <2>2, <2>3, MulZero
  <1>3. CASE x # Zero
    <2>1. PICK l \in Nat : l = _LOG[x] /\ x = Power(l)
      BY <1>3, EveryElementIsPower
    <2>2. ASSUME NEW i \in Nat PROVE gf_pow(x, i) = Power(l * i)
      <3>1. l * i \in Nat
        OBVIOUS
      <3>2. CASE i = 0
        <4>1. l * i = 0
          BY <3>2
        <4> QED
          BY <3>2, <4>1, FirstPowers DEF gf_pow
      <3>3. CASE i # 0
        <4>1. gf_pow(x, i) = _EXP[(l * i) % 255]
          BY <1>3, <2>1, <3>3 DEF gf_pow
        <4> QED
          BY <4>1 DEF Power
      <3> QED
        BY <3>2, <3>3
    <2>3. l * (k + 1) = l + l * k /\ l * k \in Nat /\ k + 1 \in Nat
      OBVIOUS
    <2>4. gf_pow(x, k + 1) = Power(l + l * k) /\ gf_pow(x, k) = Power(l * k)
      BY <2>2, <2>3
    <2>5. gf_mul(Power(l), Power(l * k)) = Power(l + l * k)
      BY <2>3, MulPowers
    <2>6. Power(l * k) \in Element
      BY <2>3, PowerType
    <2> QED
      BY <1>1, <2>1, <2>4, <2>5, <2>6
  <1> QED
    BY <1>2, <1>3

(* The polynomial with the k coefficients u, at x.                         *)
Term(u, x, j) == gf_mul(gf_pow(x, j), u[j])
Polynomial(u, k, x) == GfSum([j \in 0..(k - 1) |-> Term(u, x, j)], k)

LEMMA PolynomialType ==
  ASSUME NEW k \in Nat, NEW u \in [0..(k - 1) -> Element], NEW x \in Element
  PROVE  /\ Polynomial(u, k, x) \in Element
         /\ \A j \in 0..(k - 1) : Term(u, x, j) \in Element
  <1>1. ASSUME NEW j \in 0..(k - 1) PROVE Term(u, x, j) \in Element
    BY PowStep, MulType DEF Term
  <1> QED
    BY <1>1, SumType DEF Polynomial

LEMMA PolynomialShifts ==
  ASSUME NEW k \in Nat, NEW u \in [0..k -> Element], NEW x \in Element
  PROVE  Polynomial(u, k + 1, x)
           = gf_add(u[0], gf_mul(x, Polynomial([j \in 0..(k - 1) |-> u[j + 1]], k, x)))
  <1> DEFINE tail == [j \in 0..(k - 1) |-> u[j + 1]]
             t == [j \in 0..k |-> Term(u, x, j)]
             rest == [i \in 0..(k - 1) |-> t[i + 1]]
             lower == [j \in 0..(k - 1) |-> Term(tail, x, j)]
  <1>1. tail \in [0..(k - 1) -> Element] /\ k + 1 \in Nat /\ (k + 1) - 1 = k /\ 0 \in 0..k
    OBVIOUS
  <1>2. \A j \in 0..k : t[j] \in Element
    BY <1>1, PolynomialType
  <1>3. GfSum(t, k + 1) = gf_add(t[0], GfSum(rest, k))
    BY <1>2, SumShifts
  <1>4. t[0] = u[0]
    <2>1. gf_pow(x, 0) = One /\ u[0] \in Element
      BY <1>1, PowStep
    <2> QED
      BY <1>1, <2>1, MulOne DEF Term
  <1>5. ASSUME NEW i \in 0..(k - 1)
        PROVE  lower[i] \in Element /\ rest[i] = gf_mul(x, lower[i])
    <2>1. i \in Nat /\ i + 1 \in 0..k
      OBVIOUS
    <2>2. lower[i] = gf_mul(gf_pow(x, i), u[i + 1]) /\ rest[i] = gf_mul(gf_pow(x, i + 1), u[i + 1])
      BY <2>1 DEF Term
    <2>3. gf_pow(x, i + 1) = gf_mul(x, gf_pow(x, i)) /\ gf_pow(x, i) \in Element
          /\ u[i + 1] \in Element
      BY <2>1, PowStep
    <2> QED
      BY <2>2, <2>3, MulAssociates, MulType
  <1>6. GfSum(rest, k) = gf_mul(x, GfSum(lower, k))
    <2> HIDE DEF rest, lower
    <2> QED
      BY <1>5, SumScales
  <1>7. Polynomial(u, k + 1, x) = GfSum(t, k + 1) /\ Polynomial(tail, k, x) = GfSum(lower, k)
    BY <1>1 DEF Polynomial
  <1> QED
    BY <1>3, <1>4, <1>6, <1>7

(* Division by x - root: a quotient of one coefficient less, a remainder,  *)
(* and nothing lost.                                                       *)
Divides(u, k, root, q, r) ==
    /\ q \in [0..(k - 1) -> Element] /\ r \in Element
    /\ \A x \in Element :
           Polynomial(u, k + 1, x) = gf_add(r, gf_mul(gf_add(x, root), Polynomial(q, k, x)))
    /\ r = Zero /\ (\A j \in 0..(k - 1) : q[j] = Zero) => \A j \in 0..k : u[j] = Zero

LEMMA PolynomialDivides ==
  ASSUME NEW root \in Element, NEW k \in Nat
  PROVE  \A u \in [0..k -> Element] : \E q, r : Divides(u, k, root, q, r)
  <1> DEFINE S == {l \in Nat : \A u \in [0..l -> Element] : \E q, r : Divides(u, l, root, q, r)}
  <1>1. 0 \in S
    <2> SUFFICES ASSUME NEW u \in [0..0 -> Element]
                 PROVE  \E q, r : Divides(u, 0, root, q, r)
      OBVIOUS
    <2> DEFINE q == [j \in 0..(0 - 1) |-> Zero]
               r == u[0]
    <2>1. q \in [0..(0 - 1) -> Element] /\ r \in Element /\ 0..(0 - 1) = {}
      BY DEF Zero, Element
    <2>2. ASSUME NEW x \in Element
          PROVE  Polynomial(u, 0 + 1, x) = gf_add(r, gf_mul(gf_add(x, root), Polynomial(q, 0, x)))
      <3>1. \A v : Polynomial(v, 0, x) = Zero
        BY SumStep DEF Polynomial
      <3>2. ASSUME NEW l \in Nat, l = 0
            PROVE  Polynomial(u, l + 1, x) = gf_add(u[0], gf_mul(x, Zero))
        <4>1. u \in [0..l -> Element]
          BY <3>2
        <4>2. Polynomial(u, l + 1, x)
                = gf_add(u[0], gf_mul(x, Polynomial([j \in 0..(l - 1) |-> u[j + 1]], l, x)))
          BY <4>1, PolynomialShifts
        <4> QED
          BY <3>1, <3>2, <4>2
      <3> QED
        BY <3>1, <3>2, MulZero
    <2>3. r = Zero => \A j \in 0..0 : u[j] = Zero
      OBVIOUS
    <2>4. Divides(u, 0, root, q, r)
      <3> HIDE DEF q, r
      <3> QED
        BY <2>1, <2>2, <2>3 DEF Divides
    <2> QED
      BY <2>4
  <1>2. ASSUME NEW l \in Nat, l \in S PROVE l + 1 \in S
    <2> SUFFICES ASSUME NEW u \in [0..(l + 1) -> Element]
                 PROVE  \E q, r : Divides(u, l + 1, root, q, r)
      OBVIOUS
    <2> DEFINE tail == [j \in 0..l |-> u[j + 1]]
    <2>1. /\ tail \in [0..l -> Element] /\ 0 \in 0..(l + 1) /\ u[0] \in Element
          /\ l + 1 \in Nat /\ (l + 1) - 1 = l
      OBVIOUS
    <2>2. PICK p, r : Divides(tail, l, root, p, r)
      BY <1>2, <2>1
    <2> DEFINE q == [j \in 0..l |-> IF j = 0 THEN r ELSE p[j - 1]]
               s == gf_add(u[0], gf_mul(root, r))
    <2>3. /\ p \in [0..(l - 1) -> Element] /\ r \in Element
          /\ \A x \in Element : Polynomial(tail, l + 1, x)
                 = gf_add(r, gf_mul(gf_add(x, root), Polynomial(p, l, x)))
          /\ r = Zero /\ (\A j \in 0..(l - 1) : p[j] = Zero) => \A j \in 0..l : tail[j] = Zero
      BY <2>2 DEF Divides
    <2>4. q \in [0..l -> Element] /\ s \in Element
      <3>1. \A j \in 0..l : j # 0 => j - 1 \in 0..(l - 1)
        OBVIOUS
      <3> QED
        BY <2>1, <2>3, <3>1, AddType, MulType
    <2>5. q[0] = r /\ [j \in 0..(l - 1) |-> q[j + 1]] = p
      <3>1. \A j \in 0..(l - 1) : j + 1 \in 0..l /\ j + 1 # 0 /\ (j + 1) - 1 = j
        OBVIOUS
      <3> QED
        BY <2>3, <3>1
    <2>6. ASSUME NEW x \in Element
          PROVE  Polynomial(u, (l + 1) + 1, x)
                   = gf_add(s, gf_mul(gf_add(x, root), Polynomial(q, l + 1, x)))
      <3> DEFINE v == Polynomial(p, l, x)
                 y == gf_add(x, root)
      <3>1. Polynomial(u, (l + 1) + 1, x) = gf_add(u[0], gf_mul(x, Polynomial(tail, l + 1, x)))
        BY <2>1, PolynomialShifts
      <3>2. Polynomial(q, l + 1, x) = gf_add(r, gf_mul(x, v))
        <4> HIDE DEF q
        <4> QED
          BY <2>4, <2>5, PolynomialShifts
      <3>3. Polynomial(tail, l + 1, x) = gf_add(r, gf_mul(y, v))
        BY <2>3
      <3>4. v \in Element /\ y \in Element /\ r \in Element /\ u[0] \in Element
        BY <2>1, <2>3, PolynomialType, AddType
      <3>5. gf_add(u[0], gf_mul(x, gf_add(r, gf_mul(y, v))))
              = gf_add(s, gf_mul(y, gf_add(r, gf_mul(x, v))))
        <4> HIDE DEF v, y
        <4>1. PICK xr, ar, w : /\ xr = gf_mul(x, r) /\ ar = gf_mul(root, r)
                               /\ w = gf_mul(x, gf_mul(y, v))
          OBVIOUS
        <4>2. xr \in Element /\ ar \in Element /\ w \in Element
              /\ gf_mul(x, v) \in Element /\ gf_mul(y, v) \in Element
          BY <3>4, <4>1, MulType
        <4>3. gf_mul(x, gf_add(r, gf_mul(y, v))) = gf_add(xr, w)
          BY <3>4, <4>1, <4>2, MulDistributes
        <4>4. gf_mul(y, gf_mul(x, v)) = w
          BY <3>4, <4>1, MulAssociates, MulCommutes
        <4>5. gf_mul(y, r) = gf_add(xr, ar)
          BY <3>4, <4>1, MulDistributes DEF y
        <4>6. gf_mul(y, gf_add(r, gf_mul(x, v))) = gf_add(gf_add(xr, ar), w)
          BY <3>4, <4>2, <4>4, <4>5, MulDistributes
        <4>7. gf_add(u[0], gf_add(xr, w)) = gf_add(gf_add(u[0], ar), gf_add(gf_add(xr, ar), w))
          <5>1. \A e : e \in gf_add(u[0], gf_add(xr, w))
                    <=> e \in gf_add(gf_add(u[0], ar), gf_add(gf_add(xr, ar), w))
            BY DEF gf_add
          <5> QED
            BY <5>1
        <4> QED
          BY <4>1, <4>3, <4>6, <4>7
      <3> QED
        BY <3>1, <3>2, <3>3, <3>5
    <2>7. s = Zero /\ (\A j \in 0..l : q[j] = Zero) => \A j \in 0..(l + 1) : u[j] = Zero
      <3> SUFFICES ASSUME s = Zero, \A j \in 0..l : q[j] = Zero, NEW j \in 0..(l + 1)
                   PROVE  u[j] = Zero
        OBVIOUS
      <3>1. r = Zero
        <4>1. 0 \in 0..l
          OBVIOUS
        <4> QED
          BY <2>5, <4>1
      <3>2. \A i \in 0..(l - 1) : p[i] = Zero
        <4>1. \A i \in 0..(l - 1) : i + 1 \in 0..l /\ i + 1 # 0 /\ (i + 1) - 1 = i
          OBVIOUS
        <4> QED
          BY <4>1
      <3>3. \A i \in 0..l : tail[i] = Zero
        BY <2>3, <3>1, <3>2
      <3>4. u[0] = Zero
        BY <2>1, <3>1, MulZero, AddIsGroup DEF Zero, Element
      <3>5. CASE j # 0
        <4>1. j - 1 \in 0..l /\ (j - 1) + 1 = j
          BY <3>5
        <4>2. tail[j - 1] = u[j]
          BY <4>1
        <4> QED
          BY <3>3, <4>1, <4>2
      <3> QED
        BY <3>4, <3>5
    <2>8. Divides(u, l + 1, root, q, s)
      <3> HIDE DEF q, s
      <3> QED
        BY <2>1, <2>4, <2>6, <2>7 DEF Divides
    <2> QED
      BY <2>8
  <1> HIDE DEF S
  <1>3. Nat \subseteq S
    BY <1>1, <1>2, SetInduction
  <1> QED
    BY <1>3 DEF S

Injective(points, k) ==
    \A i, j \in 0..(k - 1) : points[i] = points[j] => i = j

(* A polynomial with as many roots as coefficients is zero.                *)
LEMMA RootsVanish ==
  ASSUME NEW k \in Nat
  PROVE  \A u, points \in [0..(k - 1) -> Element] :
           /\ Injective(points, k)
           /\ \A i \in 0..(k - 1) : Polynomial(u, k, points[i]) = Zero
           => \A j \in 0..(k - 1) : u[j] = Zero
  <1> DEFINE Vanish(u, l, points) ==
               /\ Injective(points, l)
               /\ \A i \in 0..(l - 1) : Polynomial(u, l, points[i]) = Zero
               => \A j \in 0..(l - 1) : u[j] = Zero
             S == {l \in Nat : \A u, points \in [0..(l - 1) -> Element] : Vanish(u, l, points)}
  <1>1. 0 \in S
    OBVIOUS
  <1>2. ASSUME NEW l \in Nat, l \in S PROVE l + 1 \in S
    <2>0. l + 1 \in Nat /\ (l + 1) - 1 = l
      OBVIOUS
    <2> SUFFICES ASSUME NEW u \in [0..l -> Element], NEW points \in [0..l -> Element],
                        Injective(points, l + 1),
                        \A i \in 0..l : Polynomial(u, l + 1, points[i]) = Zero
                 PROVE  \A j \in 0..l : u[j] = Zero
      BY <2>0
    <2> DEFINE root == points[l]
               others == [i \in 0..(l - 1) |-> points[i]]
    <2>1. root \in Element /\ others \in [0..(l - 1) -> Element] /\ l \in 0..l
      OBVIOUS
    <2>2. PICK q, r : Divides(u, l, root, q, r)
      BY <2>1, PolynomialDivides
    <2>3. /\ q \in [0..(l - 1) -> Element] /\ r \in Element
          /\ \A x \in Element : Polynomial(u, l + 1, x)
                 = gf_add(r, gf_mul(gf_add(x, root), Polynomial(q, l, x)))
          /\ r = Zero /\ (\A j \in 0..(l - 1) : q[j] = Zero) => \A j \in 0..l : u[j] = Zero
      BY <2>2 DEF Divides
    <2>4. r = Zero
      <3>1. gf_add(root, root) = Zero
        BY <2>1, AddIsGroup
      <3>2. Zero = gf_add(r, gf_mul(Zero, Polynomial(q, l, root)))
        BY <2>1, <2>3, <3>1
      <3> QED
        BY <2>3, <3>2, MulZero, AddIsGroup
    <2>5. ASSUME NEW i \in 0..(l - 1) PROVE Polynomial(q, l, others[i]) = Zero
      <3>1. others[i] \in Element /\ others[i] = points[i] /\ i \in 0..l /\ i # l
        OBVIOUS
      <3>2. others[i] # root
        BY <2>0, <2>1, <3>1 DEF Injective
      <3>3. gf_add(others[i], root) \in Element /\ gf_add(others[i], root) # Zero
        BY <2>1, <3>1, <3>2, AddType, AddCancels
      <3>4. Polynomial(q, l, others[i]) \in Element
        BY <2>3, <3>1, PolynomialType
      <3>5. Zero = gf_add(Zero, gf_mul(gf_add(others[i], root), Polynomial(q, l, others[i])))
        BY <2>3, <2>4, <3>1
      <3>6. gf_mul(gf_add(others[i], root), Polynomial(q, l, others[i])) = Zero
        BY <3>3, <3>4, <3>5, MulType, AddIsGroup
      <3> HIDE DEF others, root
      <3> QED
        BY <3>3, <3>4, <3>6, MulType
    <2>6. Injective(others, l)
      BY <2>0 DEF Injective
    <2>7. Vanish(q, l, others)
      BY <1>2, <2>1, <2>3
    <2>8. \A j \in 0..(l - 1) : q[j] = Zero
      BY <2>5, <2>6, <2>7
    <2> QED
      BY <2>3, <2>4, <2>8
  <1> HIDE DEF S
  <1>3. Nat \subseteq S
    BY <1>1, <1>2, SetInduction
  <1> QED
    BY <1>3 DEF S
=============================================================================
