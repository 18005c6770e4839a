------------------------------ MODULE AvidSlot ------------------------------
(* The servers of AvidServer implement Slot.                                 *)
EXTENDS AvidServer

(* A server without an FPCC holds nothing; the damage that /lie and /corrupt *)
(* do to the bytes is not seen from outside.                                 *)
SlotOf(s) ==
    [held |-> ks[s].fpcc,
     stored |-> ks[s].stored,
     file |-> IF disk[s] \in File THEN disk[s].fpcc ELSE disk[s]]

Slots == [s \in Correct |-> SlotOf(s)]

Abstract == INSTANCE Slot WITH Place <- Correct, slot <- Slots

(* Whatever clients, peers, crashes and debug endpoints do, in any order, a  *)
(* server's memory and file of a key move only as Slot says: a stored server *)
(* takes no other content, it commits only what it holds, and one handler    *)
(* never does two of these at once.                                          *)
ImplementsSlot == Abstract!Spec
=============================================================================
