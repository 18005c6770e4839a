------------------------------ MODULE Retrieval ------------------------------
(***************************************************************************)
(* A client's get of one chunk, _retrieve_chunk of client/client.py, over  *)
(* the servers of AvidServer. The client asks every server at once, and    *)
(* each answers in its own time: between two answers servers may crash,    *)
(* restart, be tampered with, store, or accept another put. When all have  *)
(* answered or timed out, the client picks the FPCC that most answers      *)
(* agree on, verifies every fragment against it and decodes m of them.     *)
(*                                                                         *)
(* A fragment travels with its index and the length of the chunk. A server *)
(* that runs this code has those that the client gave it; in the reply of  *)
(* a Byzantine server they are what it likes, and the FPCC covers neither. *)
(***************************************************************************)
EXTENDS AvidServer

CONSTANTS
    Pending,     \* no answer yet
    Unreachable, \* the call raised: refused, or timed out
    Failed,      \* the get raised RuntimeError
    Raised       \* the get raised another exception

(* original_len: the chunk's own, 0, or anything else.                     *)
Length == {"put", "zero", "other"}
Reply == [file : File, index : Server, original_len : Length]
Chunk == [ver : Version, original_len : Length]

ASSUME ClientAssumption ==
    /\ Pending \notin Reply \cup {None, Torn, Unreachable}
    /\ Unreachable \notin Reply \cup {None, Torn}
    /\ None \notin Reply /\ Torn \notin Reply
    /\ Failed \notin Chunk /\ Raised \notin Chunk
    /\ None \notin Chunk \cup {Failed, Raised}

VARIABLES
    offered,    \* history: contents that clients put
    gathering,  \* the get runs
    committed,  \* history: the servers' files when the get began
    responses,  \* responses[s]: what the client has from s
    result      \* None, the chunk returned, Failed or Raised

client == <<gathering, committed, responses, result>>
allVars == <<vars, offered, client>>

Response == Reply \cup {None, Torn, Unreachable, Pending}

-----------------------------------------------------------------------------
(* The choice of the client                                                *)

(* The client's own f, from n and m only.                                  *)
ClientF == (N - M) \div 2

(* Responses that carry a fragment, with the digest d of their FPCC.       *)
Votes(d) == {s \in Server : responses[s] \in Reply /\ responses[s].file.fpcc = d}

(* Counter.most_common: of digests that are equally frequent, the first to *)
(* answer, which is any of them.                                           *)
Chosen_OneLess(d) ==
    /\ Cardinality(Votes(d)) >= ClientF
    /\ \A e \in Version : Cardinality(Votes(e)) <= Cardinality(Votes(d))
Chosen(d) ==
    /\ Cardinality(Votes(d)) >= ClientF + 1
    /\ \A e \in Version : Cardinality(Votes(e)) <= Cardinality(Votes(d))

Verified(d) ==
    {s \in Votes(d) : verify_fragment(responses[s].index, responses[s].file.fragment, d)}

(* The first m verified fragments in the order of SERVER_URLS, which is    *)
(* any order: m verified fragments. The matrix of their rows is singular   *)
(* when two have the same index (ReedSolomon), and decode raises.          *)
Used(d) == {used \in SUBSET Verified(d) : Cardinality(used) = M}
Singular(used) ==
    \E s, t \in used : s # t /\ responses[s].index = responses[t].index

(* The length that the decoded bytes are cut at is the first positive one; *)
(* without one, the padding stays.                                         *)
Cut(used) ==
    LET lengths == {responses[s].original_len : s \in used} \ {"zero"}
    IN  IF lengths = {} THEN {"zero"} ELSE lengths

-----------------------------------------------------------------------------
InitClient ==
    /\ gathering = FALSE
    /\ committed = [s \in Correct |-> None]
    /\ responses = [s \in Server |-> Pending]
    /\ result = None

GetInit == Init /\ InitClient /\ offered = {}

Get ==
    /\ ~gathering /\ result = None
    /\ gathering' = TRUE
    /\ committed' = disk
    /\ UNCHANGED <<vars, offered, responses, result>>

Gather(s, response) ==
    /\ gathering /\ responses[s] = Pending
    /\ responses' = [responses EXCEPT ![s] = response]
    /\ UNCHANGED <<offered, gathering, committed, result>>

(* /lie and /corrupt drop the length; a second call of either restores the *)
(* bytes and not the length.                                               *)
LengthsOf(s, fragment) ==
    {length \in {"put", "zero"} :
        /\ fragment.mask # {} => length = "zero"
        /\ s \notin disturbed => length = "put"}

(* RetrieveResponse, without a fragment when the server has none.          *)
Answers(s) ==
    IF Retrieve(s) \in File
    THEN [file : {Retrieve(s)}, index : {s},
          original_len : LengthsOf(s, Retrieve(s).fragment)]
    ELSE {Retrieve(s)}

Answer(s) ==
    /\ s \in up
    /\ \E response \in Answers(s) : Gather(s, response)
    /\ UNCHANGED vars

AnswerByzantine(s) ==
    /\ s \in Byzantine
    /\ \E response \in Reply \cup {None} : Gather(s, response)
    /\ UNCHANGED vars

NoAnswer(s) ==
    /\ Gather(s, Unreachable)
    /\ \/ s \notin up /\ UNCHANGED budget
       \/ s \in up /\ Spend("loss")
    /\ UNCHANGED <<ks, disk, up, net, history>>

Decode ==
    /\ gathering
    /\ \A s \in Server : responses[s] # Pending
    /\ gathering' = FALSE
    /\ \/ \E d \in Version :
            /\ Chosen(d)
            /\ \/ Cardinality(Verified(d)) < M /\ result' = Failed
               \/ \E used \in Used(d) : Singular(used) /\ result' = Raised
               \/ \E used \in Used(d) : \E length \in Cut(used) :
                     /\ ~Singular(used)
                     /\ result' = [ver |-> d, original_len |-> length]
       \/ /\ \A d \in Version : ~Chosen(d)
          /\ result' = Failed
    /\ UNCHANGED <<vars, offered, committed, responses>>

ServerStep ==
    /\ Next
    /\ offered' = offered \cup {r.ver : r \in requests'}
    /\ UNCHANGED client

GetNext ==
    \/ ServerStep
    \/ Get
    \/ \E s \in Server : Answer(s) \/ AnswerByzantine(s) \/ NoAnswer(s)
    \/ Decode

GetSpec == GetInit /\ [][GetNext]_allVars

-----------------------------------------------------------------------------
(* Properties                                                              *)

(* Every variable has its type.                                            *)
GetTypeOK ==
    /\ TypeOK
    /\ offered \subseteq Version
    /\ gathering \in BOOLEAN
    /\ committed \in [Correct -> File \cup {None, Torn}]
    /\ responses \in [Server -> Response]
    /\ result \in Chunk \cup {None, Failed, Raised}

(* What a get returns is what some client put: f + 1 equal digests include *)
(* a correct server's, although the client's f is not the servers'.        *)
ReturnedWasPut == result \in Chunk => result.ver \in offered

(* README.md:7 "Byzantine tampering by up to 1 server is detected before   *)
(* data is returned": what is returned has the length that was put.        *)
ReturnedWhole == result \in Chunk => result.original_len = "put"

(* README.md:7: a get fails only if fewer servers than it needs (m, and    *)
(* f + 1 equal digests) are left, once those are set aside that had no     *)
(* file of one content when it began, that did not answer, or that were    *)
(* tampered with; a crash and restart between two answers costs nothing.   *)
Needed == IF M > ClientF + 1 THEN M ELSE ClientF + 1
InjectionsUsed == Budget["injection"] - budget["injection"]
Committed(d) == {s \in Correct : committed[s] = [fragment |-> FragmentOf(d), fpcc |-> d]}
Silent == {s \in Server : responses[s] = Unreachable}

GetSucceeds ==
    result \in {Failed, Raised} => \A d \in Version :
        Cardinality(Committed(d) \ Silent) - InjectionsUsed < Needed

(* A get returns the content that every server had stored when it began,   *)
(* even while another content is put under the same key, which the servers *)
(* answer with already_stored, and one of them forgets that in a crash.    *)
StoredIsReturned ==
    \A d \in Version :
        result \in Chunk /\ Committed(d) = Server => result.ver = d
=============================================================================
