---------------------------- MODULE MCAvidServer ----------------------------
(* Instances of AvidServer for TLC.                                         *)
EXTENDS AvidServer, TLC

CONSTANTS s1, s2, s3, s4, s5, v1, v2

FourServers == {s1, s2, s3, s4}
FiveServers == {s1, s2, s3, s4, s5}

(* Honest clients: every fragment verifies.                                 *)
AllValid == [v \in Version |-> Server]
(* The fragment of v2 that its client sends to s1 does not verify.          *)
OneInvalid == [v \in Version |-> IF v = v2 THEN Server \ {s1} ELSE Server]

Bounds(puts, crashes, losses, injections) ==
    [put |-> puts, crash |-> crashes, loss |-> losses, injection |-> injections]
OnePut == Bounds(1, 0, 0, 0)
TwoPuts == Bounds(2, 0, 0, 0)
OneOfEach == Bounds(1, 1, 1, 1)
TwoPutsFaults == Bounds(2, 1, 1, 2)

Symmetry == Permutations(Correct) \cup Permutations(Server \ Correct)

-----------------------------------------------------------------------------
(* What a put of v1 reaches when every /disperse has arrived and every ECHO *)
(* has arrived or was lost: heard[s] are those whose ECHO came to s. No     *)
(* READY has arrived. Runs about the READY phase start there.               *)
Echoed(votes) ==
    [Hold(EmptyKeyState, v1) EXCEPT
        !.verified = TRUE, !.echoed = TRUE, !.echo_set = votes]

InitHeard(heard) ==
    /\ ks = [s \in Correct |-> _maybe_send_ready(Echoed(heard[s]))]
    /\ disk = [s \in Correct |-> None]
    /\ up = Correct
    /\ requests = {} /\ echoes = {}
    /\ readys = UNION {Broadcast(s, v1) :
                           s \in {t \in Correct : SendsReady(Echoed(heard[t]))}}
    /\ Budget["put"] > 0
    /\ budget = [Budget EXCEPT !["put"] = @ - 1]
    /\ accepted = Correct /\ disturbed = {}

InitEchoed ==
    \E heard \in [Correct -> SUBSET Correct] :
        /\ \A s \in Correct : s \notin heard[s]
        /\ InitHeard(heard)

SpecEchoed == InitEchoed /\ [][Next]_vars

(* From the beginning, or from there: with n = 4 a server that missed some  *)
(* ECHO is in no other position than one that missed them all.              *)
AllOrNone == \A s \in Correct : ks[s].echo_set \in {{}, Correct \ {s}}
SpecPhases == (Init \/ (InitEchoed /\ AllOrNone)) /\ [][Next]_vars

(* Of the faults one at most happens, between the first commit and the last *)
(* of a put of which no ECHO was lost.                                      *)
FaultsSpent ==
    {kind \in Kind \ {"put"} : budget[kind] # Budget[kind]}
OneLateFault ==
    FaultsSpent' # FaultsSpent =>
        /\ FaultsSpent = {}
        /\ {ks[s].stored : s \in Correct} = BOOLEAN
        /\ \A s \in Correct : ks[s].ready_sent
        /\ \A s \in Correct : Correct \ {s} \subseteq ks[s].echo_set
=============================================================================
