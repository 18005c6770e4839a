-------------------------------- MODULE Vote --------------------------------
(* The choice that a client makes among the answers to /retrieve of all      *)
(* servers, in _retrieve_chunk of client/client.py. votes[v] is the set of   *)
(* servers that answered with the FPCC of v.                                 *)
EXTENDS Integers, FiniteSets

CONSTANTS
    Server,     \* the servers that the client asks
    M           \* fragments needed to decode

N == Cardinality(Server)

(* The client's own f, from n and m only.                                    *)
ClientF == (N - M) \div 2

(* Counter.most_common: any of the most frequent.                            *)
Elected(votes, v) ==
    /\ Cardinality(votes[v]) >= ClientF + 1
    /\ \A w \in DOMAIN votes : Cardinality(votes[w]) <= Cardinality(votes[v])

(* What a get needs of one content: m fragments, and f + 1 equal digests.    *)
Needed == IF M > ClientF + 1 THEN M ELSE ClientF + 1
=============================================================================
