------------------------------- MODULE GF256 -------------------------------
(***************************************************************************)
(* The field GF(2^8) of core/gf.py. A byte is the set of its bits that are *)
(* 1, so that XOR is the symmetric difference.                             *)
(***************************************************************************)
EXTENDS Integers

Bit == 0..7
Element == SUBSET Bit

Byte(i) == {b \in Bit : (i \div 2^b) % 2 = 1}

Zero == {}
One == {0}

gf_add(a, b) == (a \ b) \cup (b \ a)

(* a << 1, reduced by _MODULUS = 0x11B when it overflows.                  *)
Double(a) == gf_add({b + 1 : b \in a \ {7}}, IF 7 \in a THEN {0, 1, 3, 4} ELSE {})

_gf_mul_raw(a, b) ==
    LET Shifted[i \in Bit] == IF i = 0 THEN a ELSE Double(Shifted[i - 1])
        Sum[i \in 0..8] ==
            IF i = 0 THEN Zero
            ELSE IF i - 1 \in b THEN gf_add(Sum[i - 1], Shifted[i - 1]) ELSE Sum[i - 1]
    IN  Sum[8]

_GENERATOR == Byte(3)

(* _build_tables: x of its loop after i rounds is _GENERATOR to the i,     *)
(* halved here so that the recursion is shallow. _LOG[0] keeps the 0 it is *)
(* initialised with; no caller reads it.                                   *)
Powers[i \in 0..254] ==
    IF i = 0 THEN One
    ELSE LET half == Powers[i \div 2]
             square == _gf_mul_raw(half, half)
         IN  IF i % 2 = 0 THEN square ELSE _gf_mul_raw(square, _GENERATOR)
_EXP == [i \in 0..511 |-> Powers[i % 255]]
_LOG == [x \in Element |->
            IF x = Zero THEN 0 ELSE CHOOSE i \in 0..254 : _EXP[i] = x]

gf_mul(a, b) == IF a = Zero \/ b = Zero THEN Zero ELSE _EXP[_LOG[a] + _LOG[b]]
gf_inv(a) == _EXP[255 - _LOG[a]]
gf_pow(a, n) ==
    IF n = 0 THEN One ELSE IF a = Zero THEN Zero ELSE _EXP[(_LOG[a] * n) % 255]

(* What the bytes decide, all 256 of them: the tables are inverse to each  *)
(* other, they start at 1, and the powers are those of an element that     *)
(* multiplies sums term by term. The field axioms follow. Bytes that are   *)
(* written differently differ.                                             *)
ASSUME TablesAssumption ==
    /\ _EXP[0] = One /\ _EXP[1] = _GENERATOR
    /\ \A x \in Element \ {Zero} : _LOG[x] \in 0..254 /\ _EXP[_LOG[x]] = x
    /\ \A i \in 0..254 : _EXP[i] \in Element \ {Zero} /\ _LOG[_EXP[i]] = i
    /\ \A a, b \in Element :
           gf_mul(_GENERATOR, gf_add(a, b))
               = gf_add(gf_mul(_GENERATOR, a), gf_mul(_GENERATOR, b))
    /\ Byte(0) = Zero /\ \A i, j \in 0..255 : Byte(i) = Byte(j) => i = j

(* The polynomial with coefficients poly[0], poly[1], ... at s, by Horner. *)
gf_eval(poly, size, s) ==
    LET Horner[i \in 0..size] ==
            IF i = size THEN Zero ELSE gf_add(gf_mul(Horner[i + 1], s), poly[i])
    IN  Horner[0]

(* The sum of terms[0], ..., terms[size - 1].                              *)
GfSum(terms, size) ==
    LET Sum[i \in 0..size] == IF i = 0 THEN Zero ELSE gf_add(Sum[i - 1], terms[i - 1])
    IN  Sum[size]
=============================================================================
