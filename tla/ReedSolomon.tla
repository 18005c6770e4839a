---------------------------- MODULE ReedSolomon ----------------------------
(***************************************************************************)
(* The erasure code of core/rs.py: the systematic generator matrix of an   *)
(* (n, m) code, and the recovery of the data from m received fragments.    *)
(* Both invert a matrix by the Gaussian elimination of _gf_matrix_inverse, *)
(* which takes one step per column here; a client does it on whichever     *)
(* fragments reached it, in whichever order.                               *)
(***************************************************************************)
EXTENDS GF256, Sequences

CONSTANTS
    Shape,      \* the pairs <<n, m>> of clusters considered
    Data        \* contents that clients put: sequences of bytes

(* Rows are made of the points 1 .. n, which must be distinct bytes.       *)
ASSUME ShapeAssumption ==
    \A shape \in Shape : shape \in (1..255) \X (1..255) /\ shape[2] <= shape[1]
ASSUME DataAssumption == Data \subseteq Seq(Element)

VARIABLES
    n, m,       \* the code
    phase,      \* what the elimination is for, or how it ended
    input,      \* the matrix to invert
    aug,        \* the augmented matrix
    col,        \* columns done
    G,          \* _GENERATOR_CACHE[n, m], empty until it is made
    indices     \* indices[j]: index of the j-th fragment received

rsVars == <<n, m, phase, input, aug, col, G, indices>>

Below(k) == 0..(k - 1)

-----------------------------------------------------------------------------
(* Matrices                                                                *)

_make_vandermonde_row(alpha, size) == [j \in Below(size) |-> gf_pow(alpha, j)]

_gf_mat_mul_row_vec(row, vec, size) ==
    GfSum([j \in Below(size) |-> gf_mul(row[j], vec[j])], size)

Augmented(matrix) ==
    [i \in Below(m) |-> [j \in Below(2 * m) |->
        IF j < m THEN matrix[i][j] ELSE IF j - m = i THEN One ELSE Zero]]

Left == [i \in Below(m) |-> [j \in Below(m) |-> aug[i][j]]]
Right == [i \in Below(m) |-> [j \in Below(m) |-> aug[i][m + j]]]

Times(a, rows, b) ==
    [i \in rows |-> [j \in Below(m) |->
        _gf_mat_mul_row_vec(a[i], [k \in Below(m) |-> b[k][j]], m)]]

Identity == [i \in Below(m) |-> [j \in Below(m) |-> IF i = j THEN One ELSE Zero]]

-----------------------------------------------------------------------------
(* _gf_matrix_inverse                                                      *)

Start(matrix) ==
    /\ input' = matrix
    /\ aug' = Augmented(matrix)
    /\ col' = 0

Pivots_Below(c) == {row \in (c + 1)..(m - 1) : aug[row][c] # Zero}
Pivots(c) == {row \in c..(m - 1) : aug[row][c] # Zero}

Swapped_Not(c, pivot) == aug
Swapped(c, pivot) == [aug EXCEPT ![c] = aug[pivot], ![pivot] = aug[c]]

Scaled(a, c) ==
    [a EXCEPT ![c] = [k \in Below(2 * m) |-> gf_mul(a[c][k], gf_inv(a[c][c]))]]

Eliminated(a, c) ==
    [row \in Below(m) |->
        IF row = c THEN a[c]
        ELSE [k \in Below(2 * m) |-> gf_add(a[row][k], gf_mul(a[row][c], a[c][k]))]]

Column ==
    /\ phase \in {"generator", "decode"}
    /\ col < m
    /\ \E pivot \in Pivots(col) :
        /\ \A row \in Pivots(col) : pivot <= row
        /\ aug' = Eliminated(Scaled(Swapped(col, pivot), col), col)
    /\ col' = col + 1
    /\ UNCHANGED <<n, m, phase, input, G, indices>>

(* ValueError: the matrix is singular.                                     *)
RaiseSingular ==
    /\ phase \in {"generator", "decode"}
    /\ col < m
    /\ Pivots(col) = {}
    /\ phase' = "raised"
    /\ UNCHANGED <<n, m, input, aug, col, G, indices>>

-----------------------------------------------------------------------------
(* _make_systematic_generator, get_generator                               *)

Vandermonde == [i \in Below(n) |-> _make_vandermonde_row(Byte(i + 1), m)]

Init ==
    /\ \E shape \in Shape : n = shape[1] /\ m = shape[2]
    /\ phase = "generator"
    /\ input = [i \in Below(m) |-> Vandermonde[i]]
    /\ aug = Augmented(input)
    /\ col = 0
    /\ G = <<>>
    /\ indices = <<>>

Generator_Raw == Vandermonde
Generator == Times(Vandermonde, Below(n), Right)

MakeGenerator ==
    /\ phase = "generator" /\ col = m
    /\ G' = Generator
    /\ phase' = "encode"
    /\ UNCHANGED <<n, m, input, aug, col, indices>>

(* m fragments reach the client that decodes.                              *)
Receive ==
    /\ phase = "encode"
    /\ indices' \in [Below(m) -> Below(n)]
    /\ phase' = "decode"
    /\ Start([j \in Below(m) |-> G[indices'[j]]])
    /\ UNCHANGED <<n, m, G>>

Invert ==
    /\ phase = "decode" /\ col = m
    /\ phase' = "inverted"
    /\ UNCHANGED <<n, m, input, aug, col, G, indices>>

Next == Column \/ RaiseSingular \/ MakeGenerator \/ Receive \/ Invert

Spec == Init /\ [][Next]_rsVars

-----------------------------------------------------------------------------
(* encode and decode, byte by byte                                         *)

chunk_size(data) == (Len(data) + m - 1) \div m

InputChunk_Interleaved(data, j, p) ==
    LET at == p * m + j + 1
    IN  IF at <= Len(data) THEN data[at] ELSE Zero

(* Byte p of input chunk j, after padding with zeros.                      *)
InputChunk(data, j, p) ==
    LET at == j * chunk_size(data) + p + 1
    IN  IF at <= Len(data) THEN data[at] ELSE Zero

encode(data) ==
    [i \in Below(n) |-> [p \in Below(chunk_size(data)) |->
        _gf_mat_mul_row_vec(G[i], [j \in Below(m) |-> InputChunk(data, j, p)], m)]]

(* recovered[j][p] of the chunks received, joined and cut at original_len, *)
(* which the client leaves out when it is 0 (client.py).                   *)
decode(chunks, size, original_len) ==
    LET recovered == [j \in Below(m) |-> [p \in Below(size) |->
            _gf_mat_mul_row_vec(Right[j], [k \in Below(m) |-> chunks[k][p]], m)]]
        joined == [at \in 1..(m * size) |-> recovered[(at - 1) \div size][(at - 1) % size]]
    IN  IF original_len > 0 THEN SubSeq(joined, 1, original_len) ELSE joined

-----------------------------------------------------------------------------
(* Properties                                                              *)

(* Throughout the elimination the left half is the right half times the    *)
(* input, and the columns done are those of the identity: when it ends the *)
(* right half is the inverse, whichever pivots it took.                    *)
EliminationInvariant ==
    /\ Left = Times(Right, Below(m), input)
    /\ \A j \in Below(col), i \in Below(m) : aug[i][j] = Identity[i][j]

(* avid_fp.py "Any m fragments suffice": m rows of the generator are       *)
(* singular only when a fragment was received twice, and always then.      *)
AnyDistinctSuffice ==
    LET distinct == \A j, k \in DOMAIN indices : indices[j] = indices[k] => j = k
    IN  /\ phase = "raised" => ~distinct
        /\ phase = "inverted" => distinct

(* The first m fragments are the data itself: expected_fingerprint takes   *)
(* fp[i] as it is for i < m.                                               *)
Systematic ==
    phase = "encode" => [i \in Below(m) |-> G[i]] = Identity

(* Whatever m distinct fragments of whatever content are decoded give the  *)
(* content back, its last padding cut.                                     *)
RoundTrip ==
    phase = "inverted" => \A data \in Data :
        decode([k \in Below(m) |-> encode(data)[indices[k]]], chunk_size(data), Len(data))
            = data
=============================================================================
