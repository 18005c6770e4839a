------------------------------- MODULE MCFpcc -------------------------------
(* Instances of Damage, Fpcc and ReedSolomon for TLC.                     *)
EXTENDS Damage

(* The deployed shape (5, 3) and others.                                   *)
SmallShapes == {<<4, 2>>, <<5, 3>>, <<7, 3>>, <<3, 1>>}

(* Contents of up to five bytes: no byte, and each remainder modulo m.     *)
SmallData == UNION {[1..l -> {Byte(0), Byte(137)}] : l \in 0..5}

TwoPoints == <<Byte(2), Byte(201)>>

(* Strings of four bytes. Those of three different ones include the errors *)
(* 2 + x at each place, which have one of the points as a root; the last   *)
(* is (2 + x)(201 + x), which has both and spans three bytes.              *)
FourBytes(a, b, c, d) == [p \in Below(4) |-> Byte(<<a, b, c, d>>[p + 1])]
FewErrors ==
    [Below(4) -> {Byte(0), Byte(1), Byte(2)}] \cup {FourBytes(137, 203, 1, 0)}
TwoChunks == {FourBytes(0, 0, 0, 0), FourBytes(1, 137, 0, 201)}
=============================================================================
