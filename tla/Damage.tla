------------------------------- MODULE Damage -------------------------------
(***************************************************************************)
(* What /lie and /corrupt (server/routes.py) do to the bytes of a          *)
(* fragment. AvidServer keeps of it which of the two are applied, and      *)
(* takes a fragment with either to fail verification.                      *)
(***************************************************************************)
EXTENDS Fpcc, FiniteSets

Xored(fragment, size, at, mask) ==
    [p \in Below(size) |-> IF p \in at THEN gf_add(fragment[p], mask) ELSE fragment[p]]

(* Every fourth byte is assigned, not XORed.                               *)
lie_Assign(fragment, size) ==
    [p \in Below(size) |-> IF p % 4 = 0 THEN Byte(170) ELSE fragment[p]]
lie(fragment, size) ==
    Xored(fragment, size, {p \in Below(size) : p % 4 = 0}, Byte(170))

(* A fragment without a second byte raises IndexError before it is kept.   *)
corrupt(fragment, size) ==
    IF size < 2 THEN fragment ELSE Xored(fragment, size, {0, 1}, Byte(255))

Calls == UNION {[1..k -> {"lie", "corrupt"}] : k \in 0..3}

(* The bytes after calls that act on one fragment in memory. /corrupt takes *)
(* it out of service, and before the next of the calls a READY has to       *)
(* commit it, which writes its bytes as they are (until then /corrupt is    *)
(* refused, and /lie takes up the file instead).                            *)
After(calls, fragment, size) ==
    LET Bytes[k \in 0..Len(calls)] ==
            IF k = 0 THEN fragment
            ELSE IF calls[k] = "lie" THEN lie(Bytes[k - 1], size)
            ELSE corrupt(Bytes[k - 1], size)
    IN  Bytes[Len(calls)]

(* Which damage is left: what was called an odd number of times, and had   *)
(* a byte to change.                                                       *)
Odd(calls, x) == Cardinality({k \in DOMAIN calls : calls[k] = x}) % 2 = 1
MaskOf(calls, size) ==
    {x \in {"lie", "corrupt"} :
        Odd(calls, x) /\ size >= (IF x = "lie" THEN 1 ELSE 2)}

-----------------------------------------------------------------------------
(* However /lie and /corrupt are mixed, the bytes are a function of the    *)
(* masks that are left, and they verify exactly when no mask is left: the  *)
(* two overlap on the first byte and never cancel out. An empty fragment   *)
(* cannot be damaged, and one of a single byte only by /lie.               *)
DamageIsToggled ==
    phase = "encode" => \A data \in Data, i \in Below(n) :
        LET size == chunk_size(data)
            fragments == encode(data)
            fpcc == build_fpcc(fragments, size)
            Damaged == [calls \in Calls |-> After(calls, fragments[i], size)]
        IN  \A a \in Calls :
                /\ verify_fragment(Damaged[a], size, fpcc, i) <=> MaskOf(a, size) = {}
                /\ \A b \in Calls :
                       Damaged[a] = Damaged[b] <=> MaskOf(a, size) = MaskOf(b, size)
=============================================================================
