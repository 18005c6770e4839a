---------------------------- MODULE RetrievalSlot ----------------------------
(* A get over the protocol's servers implements a get over slots.            *)
EXTENDS Retrieval, AvidSlot

CONSTANT Nothing

ASSUME NothingAssumption ==
    /\ Nothing # Pending
    /\ Nothing \notin [ver : Version, sound : BOOLEAN]
    /\ Pending \notin [ver : Version, sound : BOOLEAN]

(* Of an answer the vote reads the digest, and what is decoded depends on    *)
(* whether its fragment verifies. A file that cannot be parsed is answered   *)
(* with 500, and counts like no answer.                                      *)
ReplyOf(response) ==
    IF response \in Reply
    THEN [ver |-> response.file.fpcc,
          sound |-> verify_fragment(response.index, response.file.fragment, response.file.fpcc)]
    ELSE IF response = Pending THEN Pending ELSE Nothing

ResultOf(r) == IF r \in Chunk THEN r.ver ELSE r

OverSlots == INSTANCE ChunkGet WITH
    Place <- Correct,
    slot <- Slots,
    replies <- [s \in Server |-> ReplyOf(responses[s])],
    result <- ResultOf(result)

(* Whatever the protocol, its faults and the debug endpoints do between the  *)
(* answers, the get goes on as over slots that commit when they like: what   *)
(* Objects builds on is what the servers and the client do together.         *)
ImplementsChunkGet == [][OverSlots!GetNext]_<<Slots, gathering, responses, result>>
=============================================================================
