-------------------------------- MODULE Fpcc --------------------------------
(***************************************************************************)
(* The fingerprinted cross-checksum (core/fpcc.py, core/fingerprint.py) of *)
(* the fragments of ReedSolomon, and the check that a server makes of its  *)
(* fragment on /disperse and a client of every fragment it is answered     *)
(* (protocol/avid_fp.py). SHA-256 has no collisions: the hash of a         *)
(* fragment is the fragment. What it derives from the hashes, the points   *)
(* of evaluation, are any distinct bytes other than 0 and 1.               *)
(***************************************************************************)
EXTENDS ReedSolomon

CONSTANTS
    Points,     \* _derive_eval_points(derive_seed(cc), FINGERPRINT_LEN)
    Size,       \* length of the fragments that Error and Chunks range over
    Error,      \* what is XORed to a fragment: functions on 0 .. Size - 1
    Chunks      \* input chunks: functions on 0 .. Size - 1

ASSUME PointsAssumption ==
    /\ Points \in Seq(Element \ {Zero, One}) /\ Len(Points) > 0
    /\ \A k, l \in DOMAIN Points : Points[k] = Points[l] => k = l

ASSUME SizeAssumption ==
    /\ Size \in Nat
    /\ Error \subseteq [Below(Size) -> Element]
    /\ Chunks \subseteq [Below(Size) -> Element]

-----------------------------------------------------------------------------
fingerprint_from_seed(fragment, size) ==
    [l \in DOMAIN Points |-> gf_eval(fragment, size, Points[l])]

build_fpcc(fragments, size) ==
    [cc |-> fragments,
     fp |-> [i \in Below(m) |-> fingerprint_from_seed(fragments[i], size)]]

encode_fingerprints_at(fp, i) ==
    [l \in DOMAIN Points |->
        _gf_mat_mul_row_vec(G[i], [j \in Below(m) |-> fp[j][l]], m)]

expected_fingerprint_Unshifted(fpcc, i) ==
    IF i < m THEN fpcc.fp[i] ELSE encode_fingerprints_at(fpcc.fp, i - m)
expected_fingerprint(fpcc, i) ==
    IF i < m THEN fpcc.fp[i] ELSE encode_fingerprints_at(fpcc.fp, i)

verify_fragment_HashOnly(fragment, size, fpcc, i) == fragment = fpcc.cc[i]
verify_fragment(fragment, size, fpcc, i) ==
    /\ fragment = fpcc.cc[i]
    /\ fingerprint_from_seed(fragment, size) = expected_fingerprint(fpcc, i)

-----------------------------------------------------------------------------
(* Properties                                                              *)

(* Every fragment that an honest client disperses verifies: fingerprinting *)
(* commutes with the erasure code (rs.py "so the homomorphic property      *)
(* holds"), on parity fragments and on systematic ones.                    *)
HonestVerifies ==
    phase = "encode" => \A data \in Data :
        LET size == chunk_size(data)
            fpcc == build_fpcc(encode(data), size)
        IN  \A i \in Below(n) : verify_fragment(encode(data)[i], size, fpcc, i)

(* Fragment i of the input chunks c.                                       *)
Codeword(c, i) ==
    [p \in Below(Size) |->
        _gf_mat_mul_row_vec(G[i], [j \in Below(m) |-> c[j][p]], m)]

(* Whatever FPCC a client made up, what verifies against it is a fragment  *)
(* of the one content that its fingerprints determine, or differs from it  *)
(* in bytes farther apart than there are points (16 in the code): a run of *)
(* wrong bytes of up to that many is never accepted, in a fragment of any  *)
(* length, although its hash is the one that the FPCC names. Servers that  *)
(* agree on an FPCC hold fragments that decode alike, up to such errors.   *)
FarApart(e) ==
    \E p, q \in Below(Size) : e[p] # Zero /\ e[q] # Zero /\ q - p >= Len(Points)

VerifiedAreConsistent ==
    phase = "encode" => \A c \in [Below(m) -> Chunks], e \in Error, i \in Below(n) :
        LET fragment == [p \in Below(Size) |-> gf_add(Codeword(c, i)[p], e[p])]
            fpcc == [cc |-> [k \in Below(n) |-> IF k = i THEN fragment ELSE Codeword(c, k)],
                     fp |-> [j \in Below(m) |-> fingerprint_from_seed(c[j], Size)]]
        IN  verify_fragment(fragment, Size, fpcc, i)
                => fragment = Codeword(c, i) \/ FarApart(e)
=============================================================================
