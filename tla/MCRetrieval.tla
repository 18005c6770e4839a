----------------------------- MODULE MCRetrieval -----------------------------
(* Instances of Retrieval for TLC.                                           *)
EXTENDS RetrievalSlot, MCAvidServer

TwoLost == Bounds(0, 0, 2, 0)
NoFault == Bounds(0, 0, 0, 0)

-----------------------------------------------------------------------------
(* The state that a put of v1 reaches when every correct server has stored   *)
(* it and every message has arrived.                                         *)
Stored(s) ==
    [Echoed(Server \ {s}) EXCEPT
        !.ready_sent = TRUE, !.stored = TRUE, !.ready_set = Server \ {s}]

InitStored ==
    /\ ks = [s \in Correct |-> Stored(s)]
    /\ disk = [s \in Correct |-> [fragment |-> FragmentOf(v1), fpcc |-> v1]]
    /\ up = Correct
    /\ requests = {} /\ echoes = {} /\ readys = {}
    /\ budget = Budget
    /\ accepted = Correct /\ disturbed = {}
    /\ InitClient
    /\ offered = {v1}

SpecStored == InitStored /\ [][GetNext]_allVars
=============================================================================
