------------------------------- MODULE ChunkGet -------------------------------
(***************************************************************************)
(* A client's get of one chunk, seen from outside the protocol: servers    *)
(* that keep a slot each, and others that answer what they like. An answer *)
(* is a content, with a fragment that verifies or does not; the client     *)
(* takes the vote of Vote and needs m fragments that verify. Retrieval is  *)
(* shown to do no more than this (RetrievalSlot), and Objects gets its     *)
(* chunks this way.                                                        *)
(***************************************************************************)
EXTENDS Slot, Vote

(* Place, where a slot is kept, is a set of servers here.                  *)
CONSTANTS
    Pending,    \* no answer yet
    Nothing,    \* an answer without a fragment, or no answer
    Failed,     \* the get raised RuntimeError
    Raised      \* the get raised another exception

VARIABLES
    gathering,  \* the get runs
    replies,    \* replies[s]: what the client has from s
    result      \* None, the content returned, Failed or Raised

get == <<gathering, replies, result>>

Offer == [ver : Version, sound : BOOLEAN]

(* The content that a server answers with: of its memory when the key is   *)
(* stored there, of its file otherwise.                                    *)
Served(entry) ==
    IF entry.stored /\ entry.held # None THEN entry.held
    ELSE IF entry.file \in Version THEN entry.file ELSE Nothing

Votes ==
    [v \in Version |-> {s \in Server : replies[s] \in Offer /\ replies[s].ver = v}]
Sound(v) == {s \in Votes[v] : replies[s].sound}

GetInit ==
    /\ Init
    /\ gathering = FALSE
    /\ replies = [s \in Server |-> Pending]
    /\ result = None

SlotStep == UNCHANGED get /\ Next

Begin ==
    /\ ~gathering /\ result = None
    /\ gathering' = TRUE
    /\ UNCHANGED <<slot, replies, result>>

(* Bytes that a debug endpoint damaged, or that never verified, make the   *)
(* fragment unsound; they do not change what it says it is a fragment of.  *)
Offers(s) ==
    IF s \in Place THEN {offer \in Offer : offer.ver = Served(slot[s])} ELSE Offer

Reply(s) ==
    /\ gathering /\ replies[s] = Pending
    /\ \E reply \in Offers(s) \cup {Nothing} :
           replies' = [replies EXCEPT ![s] = reply]
    /\ UNCHANGED <<slot, gathering, result>>

(* Only the answer of a server that keeps no slot can have the index of    *)
(* another's, which decode cannot use.                                     *)
Outcome(v) ==
    IF Cardinality(Sound(v)) < M THEN {Failed}
    ELSE IF Sound(v) \subseteq Place THEN {v}
    ELSE {v, Raised}

Decide ==
    /\ gathering
    /\ \A s \in Server : replies[s] # Pending
    /\ gathering' = FALSE
    /\ IF \E v \in Version : Elected(Votes, v)
       THEN \E v \in Version : Elected(Votes, v) /\ result' \in Outcome(v)
       ELSE result' = Failed
    /\ UNCHANGED <<slot, replies>>

GetNext ==
    \/ SlotStep
    \/ Begin
    \/ \E s \in Server : Reply(s)
    \/ Decide

GetSpec == GetInit /\ [][GetNext]_<<slot, get>>
=============================================================================
