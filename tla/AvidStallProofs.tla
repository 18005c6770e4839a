---------------------------- MODULE AvidStallProofs ----------------------------
(* What the thresholds cost, and what they give once they are reached. The   *)
(* cost: a server does not count itself among its peers, so n - f ECHOs are  *)
(* more than the other servers can send as soon as f of them are silent. The *)
(* f silent servers that the protocol is meant to tolerate are enough, and   *)
(* with f = 0 none are needed.                                               *)
EXTENDS AvidServerProofs, MCAvidServer

(* No correct server has announced READY, says stored, or has a file.        *)
NothingStored ==
    \A s \in Correct : ~ks[s].ready_sent /\ ~ks[s].stored /\ disk[s] = None

(* Who can have voted: a correct server never hears its own ECHO, and never  *)
(* a READY.                                                                  *)
Starved(s, k) ==
    /\ k.echo_set \subseteq Correct \ {s}
    /\ k.ready_set = {}
    /\ ~k.ready_sent /\ ~k.stored

StallInv ==
    /\ TypeInv
    /\ NothingStored
    /\ readys = {}
    /\ \A m \in echoes : m.from \in Correct /\ m.from # m.to
    /\ \A s \in Correct : Starved(s, ks[s])

LEMMA InitStallInv == Init => StallInv
  BY InitTypeInv DEF Init, StallInv, NothingStored, Starved, EmptyKeyState

(* The votes that can arrive are below every threshold.                      *)
LEMMA StarvedCounts ==
  ASSUME Cardinality(Faulty) >= F,
         NEW s \in Correct, NEW k \in KeyState, Starved(s, k)
  PROVE  ~SendsReady(k) /\ ~Commits(k)
  <1>1. IsFiniteSet(Correct) /\ Cardinality(Correct) = N - Cardinality(Faulty)
        /\ Cardinality(Faulty) \in Nat
    <2>1. Server \cap Faulty = Faulty /\ Server \ Faulty = Correct
      BY ServerAssumption DEF Faulty
    <2>2. IsFiniteSet(Faulty) /\ Cardinality(Faulty) \in Nat
      BY ServerAssumption, FS_Subset, FS_CardinalityType DEF Faulty
    <2>3. /\ IsFiniteSet(Server \ Faulty)
          /\ Cardinality(Server \ Faulty)
               = Cardinality(Server) - Cardinality(Server \cap Faulty)
      BY ServerAssumption, FS_Difference
    <2> QED
      BY <2>1, <2>2, <2>3 DEF N
  <1>2. IsFiniteSet(Correct \ {s}) /\ Cardinality(Correct \ {s}) = Cardinality(Correct) - 1
    BY <1>1, FS_RemoveElement
  <1>3. Cardinality(k.echo_set) < N - F /\ Cardinality(k.echo_set) \in Nat
    <2>1. /\ Cardinality(k.echo_set) <= Cardinality(Correct \ {s})
          /\ Cardinality(k.echo_set) \in Nat
      BY <1>2, FS_Subset, FS_CardinalityType DEF Starved
    <2> QED
      BY <1>1, <1>2, <2>1, ClusterSize
  <1>4. Cardinality(k.ready_set) = 0
    BY FS_EmptySet DEF Starved
  <1> QED
    BY <1>3, <1>4, ClusterSize
    DEF SendsReady, Commits, EnoughEchos, EnoughReadys, EchoThreshold, ReadyThreshold,
        StoreThreshold

(* An ECHO that arrives leaves its receiver starved.                         *)
LEMMA EchoStarved ==
  ASSUME StallInv, NEW m \in Message, m.from # m.to, m.from \in Correct
  PROVE  Starved(m.to, AfterEcho(m))
  <1>1. m.to \in Correct /\ ks[m.to] \in KeyState /\ Starved(m.to, ks[m.to])
    BY DEF Message, StallInv, TypeInv, TypeOK
  <1> QED
    BY <1>1 DEF AfterEcho, Starved, KeyState

LEMMA NextStallInv ==
  ASSUME Byzantine = {}, Cardinality(Faulty) >= F
  PROVE  StallInv /\ [Next]_vars => StallInv'
  <1> SUFFICES ASSUME StallInv, [Next]_vars
               PROVE  /\ readys' = {}
                      /\ \A m \in echoes' : m.from \in Correct /\ m.from # m.to
                      /\ \A s \in Correct : Starved(s, ks[s])' /\ disk'[s] = None
    BY NextTypeInv DEF StallInv, NothingStored, Starved
  <1> DEFINE Senders == \A m \in echoes' : m.from \in Correct /\ m.from # m.to
             Servers == \A s \in Correct : Starved(s, ks[s])' /\ disk'[s] = None
             Same == readys' = {} /\ Senders /\ Servers
  <1>0. /\ TypeInv /\ TypeOK /\ readys = {} /\ FromByzantine = {}
        /\ ks \in [Correct -> KeyState]
        /\ disk \in [Correct -> File \cup {None, Torn}]
        /\ echoes \subseteq Message /\ requests \subseteq Request
        /\ \A s \in Correct : Starved(s, ks[s]) /\ disk[s] = None
        /\ \A m \in echoes : m.from \in Correct /\ m.from # m.to
    BY NoForgery DEF StallInv, NothingStored, TypeInv, TypeOK
  <1>1. ASSUME readys' \subseteq readys, echoes' \subseteq echoes, NEW s \in Correct,
               \A t \in Correct \ {s} : ks'[t] = ks[t] /\ disk'[t] = disk[t],
               Starved(s, ks'[s]), disk'[s] = None
        PROVE  Same
    BY <1>0, <1>1 DEF Starved
  <1>2. ASSUME readys' \subseteq readys, echoes' \subseteq echoes, UNCHANGED <<ks, disk>>
        PROVE  Same
    BY <1>0, <1>2 DEF Starved
  <1>3. ASSUME NEW r \in requests, Disperse(r) PROVE Same
    <2> DEFINE s == r.to
    <2>1. /\ s \in Correct /\ disk' = disk /\ readys' = readys
          /\ \A t \in Correct \ {s} : ks'[t] = ks[t]
          /\ ks'[s].echo_set = ks[s].echo_set /\ ks'[s].ready_set = ks[s].ready_set
          /\ ~ks'[s].stored
      BY <1>0, <1>3, DisperseStep DEF Disperse, Starved
    <2>2. ks'[s].ready_sent = ks[s].ready_sent
      BY <1>0, <1>3, <2>1, DisperseKeepsSent
    <2>3. Starved(s, ks'[s])
      BY <1>0, <2>1, <2>2 DEF Starved
    <2>4. Senders
      <3>1. \A m \in Broadcast(s, r.ver) : m.from = s /\ m.from # m.to
        BY DEF Broadcast
      <3>2. echoes' \subseteq echoes \cup Broadcast(s, r.ver)
        BY <1>0, <1>3, DisperseStep
      <3> QED
        BY <1>0, <2>1, <3>1, <3>2
    <2> QED
      BY <1>0, <2>1, <2>3, <2>4 DEF Starved
  <1>4. ASSUME NEW m \in echoes, ReceiveEcho(m) PROVE Same
    <2> DEFINE k == AfterEcho(m)
    <2>1. m \in Message /\ m.to \in Correct /\ k \in KeyState /\ Starved(m.to, k)
      BY <1>0, EchoStarved, ReceiveType DEF Message
    <2>2. ~SendsReady(k)
      BY <2>1, StarvedCounts
    <2>3. /\ ks' = [ks EXCEPT ![m.to] = k] /\ disk' = disk
          /\ readys' = readys /\ echoes' \subseteq echoes
      BY <1>4, <2>2 DEF ReceiveEcho, _maybe_send_ready
    <2> HIDE DEF k
    <2> QED
      BY <1>0, <1>1, <2>1, <2>3
  <1>5. ASSUME NEW s \in Correct, ks' = [ks EXCEPT ![s] = EmptyKeyState],
               \A t \in Correct \ {s} : disk'[t] = disk[t], disk'[s] = None,
               UNCHANGED <<echoes, readys>>
        PROVE  Same
    <2>1. Starved(s, EmptyKeyState)
      BY DEF Starved, EmptyKeyState
    <2> QED
      BY <1>0, <1>1, <1>5, <2>1
  <1>6. ASSUME NEW s \in Correct, Crash(s) PROVE Same
    BY <1>0, <1>5, <1>6 DEF Crash, Halt, net
  <1>7. ASSUME NEW s \in Correct, Reset(s) PROVE Same
    BY <1>0, <1>5, <1>7 DEF Reset, Inject, net
  <1>8. ASSUME NEW s \in Correct PROVE ~Lie(s) /\ ~Corrupt(s)
    BY <1>0, NoneAssumption DEF Lie, Corrupt, Serving, Starved
  <1>9. ASSUME \/ \E v \in Version : Put(v)
               \/ Lose
               \/ \E s \in Correct : Restart(s)
               \/ UNCHANGED vars
        PROVE  Same
    BY <1>2, <1>9 DEF Put, Lose, Restart, vars, net
  <1> HIDE DEF Same
  <1>10. Same
    <2>1. /\ ~DeliverByzantine
          /\ ~\E m \in readys : ReceiveReady(m)
          /\ ~\E m \in readys \cup FromByzantine : CrashInStore(m)
      BY <1>0 DEF DeliverByzantine
    <2>2. Deliver => Same
      BY <1>3, <1>4, <2>1 DEF Deliver
    <2>3. Faults => Same
      BY <1>6, <1>7, <1>8, <1>9, <2>1 DEF Faults
    <2> QED
      BY <1>9, <2>1, <2>2, <2>3 DEF Next
  <1> QED
    BY <1>10 DEF Same

(* With f silent servers, whatever clients put and however often, no correct *)
(* server ever announces READY and no file is ever written: a put is not     *)
(* stored late, it is never stored (the ECHO threshold n - f of state.py     *)
(* over the peers of main.py, which leave out the server itself). A server   *)
(* that sends votes under the silent servers' names would end the stall: no  *)
(* handler compares a sender_id with who is calling.                         *)
THEOREM SilentServersStall ==
  ASSUME Byzantine = {}, Cardinality(Faulty) >= F
  PROVE  Spec => []NothingStored
  <1>1. StallInv => NothingStored
    BY DEF StallInv
  <1> QED
    BY <1>1, InitStallInv, NextStallInv, PTL DEF Spec


-----------------------------------------------------------------------------
(* Totality. Once every correct server has verified its fragment, and as     *)
(* long as no call is lost and no server fails, READYs spread: one that is   *)
(* announced is on its way to or counted by every other correct server, and  *)
(* f + 1 of them make whoever counts them announce its own.                  *)

Announced(t) == ks[t].ready_sent

(* What a correct server has done with the votes that it counts.             *)
VotesActedOn(k) ==
    /\ k.verified /\ k.fragment # None
    /\ EnoughEchos(k) \/ EnoughReadys(k) => k.ready_sent
    /\ k.stored <=> Cardinality(k.ready_set) >= StoreThreshold

ReadyReaches(s, t) ==
    s \in ks[t].ready_set \/ \E m \in readys : m.from = s /\ m.to = t

TotalInv ==
    /\ up = Correct
    /\ \A s \in Correct : VotesActedOn(ks[s])
    /\ \A s \in Correct : \A t \in ks[s].ready_set : t \in Correct /\ Announced(t)
    /\ \A m \in readys : m.from \in Correct /\ Announced(m.from)
    /\ \A s \in Correct : Announced(s) => \A t \in Correct \ {s} : ReadyReaches(s, t)

LossesCounted == budget["loss"] <= Budget["loss"]

UntilDisturbed == TypeInv /\ LossesCounted /\ (Undisturbed => TotalInv)

(* What _maybe_send_ready leaves owes no READY, if it was verified.           *)
LEMMA SentWhenEnough ==
  ASSUME NEW k \in KeyState
  PROVE  /\ _maybe_send_ready(k) \in KeyState
         /\ _maybe_send_ready(k).verified = k.verified
         /\ _maybe_send_ready(k).echoed = k.echoed
         /\ _maybe_send_ready(k).fragment = k.fragment
         /\ _maybe_send_ready(k).stored = k.stored
         /\ _maybe_send_ready(k).ready_set = k.ready_set
         /\ _maybe_send_ready(k).ready_sent <=> (k.ready_sent \/ SendsReady(k))
         /\ k.verified /\ (EnoughEchos(k) \/ EnoughReadys(k))
                => _maybe_send_ready(k).ready_sent
         /\ k.verified /\ (EnoughEchos(_maybe_send_ready(k))
                              \/ EnoughReadys(_maybe_send_ready(k)))
                => _maybe_send_ready(k).ready_sent
  <1> DEFINE sent == _maybe_send_ready(k)
  <1>1. /\ sent \in KeyState /\ sent.verified = k.verified /\ sent.fragment = k.fragment
        /\ sent.echoed = k.echoed
        /\ sent.stored = k.stored /\ sent.ready_set = k.ready_set
        /\ sent.echo_set = k.echo_set
        /\ sent.ready_sent <=> (k.ready_sent \/ SendsReady(k))
    BY SendType DEF _maybe_send_ready, KeyState
  <1> HIDE DEF sent
  <1>2. /\ k.verified /\ (EnoughEchos(sent) \/ EnoughReadys(sent)) => sent.ready_sent
        /\ k.verified /\ (EnoughEchos(k) \/ EnoughReadys(k)) => sent.ready_sent
    BY <1>1 DEF EnoughEchos, EnoughReadys, SendsReady
  <1> QED
    BY <1>1, <1>2 DEF sent

(* A READY that is broadcast is on its way to every other correct server.    *)
Announces(s) ==
    /\ \A r \in readys' \ readys : r.from = s /\ ks'[s].ready_sent
    /\ ks'[s].ready_sent /\ ~ks[s].ready_sent =>
           \A t \in Correct \ {s} : \E r \in readys' : r.from = s /\ r.to = t

LEMMA BroadcastAnnounces ==
  ASSUME NEW s, NEW d,
         Broadcast(s, d) \subseteq readys', readys' \subseteq readys \cup Broadcast(s, d),
         ks'[s].ready_sent
  PROVE  Announces(s)
  <1>1. \A r \in Broadcast(s, d) : r.from = s
    BY DEF Broadcast
  <1>2. ASSUME NEW t \in Correct \ {s} PROVE \E r \in readys' : r.from = s /\ r.to = t
    <2> DEFINE r == [from |-> s, to |-> t, digest |-> d]
    <2>1. r \in readys' /\ r.from = s /\ r.to = t
      BY DEF Broadcast
    <2> QED
      BY <2>1
  <1> QED
    BY <1>1, <1>2 DEF Announces

LEMMA EchoActedOn ==
  ASSUME TypeInv, NEW m \in Message, ReceiveEcho(m), VotesActedOn(ks[m.to])
  PROVE  /\ VotesActedOn(ks'[m.to])
         /\ ks[m.to].ready_sent => ks'[m.to].ready_sent
         /\ readys \subseteq readys'
         /\ Announces(m.to)
  <1> DEFINE k == AfterEcho(m)
             sent == _maybe_send_ready(k)
  <1>1. ks[m.to] \in KeyState /\ m.to \in Correct /\ ks \in [Correct -> KeyState]
    BY DEF Message, TypeInv, TypeOK
  <1>2. k \in KeyState
    BY ReceiveType DEF TypeInv
  <1>3. /\ k.verified = ks[m.to].verified /\ k.fragment = ks[m.to].fragment
        /\ k.stored = ks[m.to].stored /\ k.ready_sent = ks[m.to].ready_sent
        /\ k.ready_set = ks[m.to].ready_set
    BY <1>1 DEF AfterEcho, KeyState
  <1>4. /\ ks'[m.to] = sent
        /\ readys' = readys \cup (IF SendsReady(k) THEN Broadcast(m.to, m.digest) ELSE {})
    BY <1>1 DEF ReceiveEcho
  <1> HIDE DEF k
  <1>5. k.verified /\ k.fragment # None
        /\ (k.stored <=> Cardinality(k.ready_set) >= StoreThreshold)
    BY <1>3 DEF VotesActedOn
  <1>6. VotesActedOn(sent) /\ (sent.ready_sent <=> (k.ready_sent \/ SendsReady(k)))
    BY <1>2, <1>5, SentWhenEnough DEF VotesActedOn
  <1> HIDE DEF sent
  <1>7. Announces(m.to)
    <2>1. CASE SendsReady(k)
      BY <1>4, <1>6, <2>1, BroadcastAnnounces
    <2>2. CASE ~SendsReady(k)
      BY <1>3, <1>4, <1>6, <2>2 DEF Announces
    <2> QED
      BY <2>1, <2>2
  <1> QED
    BY <1>3, <1>4, <1>6, <1>7

LEMMA ReadyActedOn ==
  ASSUME TypeInv, NEW m \in Message, ReceiveReady(m), VotesActedOn(ks[m.to])
  PROVE  /\ VotesActedOn(ks'[m.to])
         /\ ks[m.to].ready_sent => ks'[m.to].ready_sent
         /\ readys \ {m} \subseteq readys'
         /\ Announces(m.to)
  <1> DEFINE k == AfterReady(m)
             sent == _maybe_send_ready(k)
             d == OrElse(k.fpcc_digest, m.digest)
  <1>1. ks[m.to] \in KeyState /\ m.to \in Correct /\ ks \in [Correct -> KeyState]
    BY DEF Message, TypeInv, TypeOK
  <1>2. k \in KeyState
    BY ReceiveType DEF TypeInv
  <1>3. /\ k.verified = ks[m.to].verified /\ k.fragment = ks[m.to].fragment
        /\ k.stored = ks[m.to].stored /\ k.ready_sent = ks[m.to].ready_sent
        /\ k.ready_set = ks[m.to].ready_set \cup {m.from}
    BY <1>1 DEF AfterReady, KeyState
  <1>4. /\ ks'[m.to] = IF Commits(k) THEN [sent EXCEPT !.stored = TRUE] ELSE sent
        /\ readys' = (readys \ {m}) \cup (IF SendsReady(k) THEN Broadcast(m.to, d) ELSE {})
    BY <1>1 DEF ReceiveReady
  <1> HIDE DEF k, d
  <1>5. Cardinality(ks[m.to].ready_set) <= Cardinality(k.ready_set)
        /\ Cardinality(ks[m.to].ready_set) \in Nat /\ Cardinality(k.ready_set) \in Nat
    <2>1. ks[m.to].ready_set \subseteq k.ready_set /\ k.ready_set \subseteq Server
      BY <1>2, <1>3 DEF KeyState
    <2> QED
      BY <2>1, ClusterSize, FS_Subset, FS_CardinalityType
  <1>6. /\ k.verified /\ k.fragment # None
        /\ k.stored => Cardinality(k.ready_set) >= StoreThreshold
        /\ Commits(k) <=> (~k.stored /\ Cardinality(k.ready_set) >= StoreThreshold)
    BY <1>3, <1>5, ClusterSize DEF VotesActedOn, Commits, StoreThreshold
  <1>7. /\ sent \in KeyState
        /\ sent.verified /\ sent.fragment # None
        /\ sent.stored = k.stored /\ sent.ready_set = k.ready_set
        /\ EnoughEchos(sent) \/ EnoughReadys(sent) => sent.ready_sent
        /\ sent.ready_sent <=> (k.ready_sent \/ SendsReady(k))
    BY <1>2, <1>6, SentWhenEnough
  <1> HIDE DEF sent
  <1>8. VotesActedOn(ks'[m.to]) /\ ks'[m.to].ready_sent = sent.ready_sent
    <2>1. CASE Commits(k)
      <3> DEFINE k2 == [sent EXCEPT !.stored = TRUE]
      <3>1. /\ k2.verified /\ k2.fragment # None /\ k2.stored
            /\ k2.ready_set = sent.ready_set /\ k2.echo_set = sent.echo_set
            /\ k2.ready_sent = sent.ready_sent
        BY <1>7 DEF KeyState
      <3> HIDE DEF k2
      <3>2. VotesActedOn(k2)
        BY <1>6, <1>7, <2>1, <3>1 DEF VotesActedOn, EnoughEchos, EnoughReadys
      <3> QED
        BY <1>4, <2>1, <3>1, <3>2 DEF k2
    <2>2. CASE ~Commits(k)
      BY <1>4, <1>6, <1>7, <2>2 DEF VotesActedOn
    <2> QED
      BY <2>1, <2>2
  <1>9. Announces(m.to)
    <2>1. CASE SendsReady(k)
      BY <1>4, <1>7, <1>8, <2>1, BroadcastAnnounces
    <2>2. CASE ~SendsReady(k)
      BY <1>3, <1>4, <1>7, <1>8, <2>2 DEF Announces
    <2> QED
      BY <2>1, <2>2
  <1> QED
    BY <1>3, <1>4, <1>7, <1>8, <1>9

(* Until something fails, or a call is lost, every step is one of a client or *)
(* one of a handler.                                                         *)
CallStep ==
    \/ \E v \in Version : Put(v)
    \/ \E r \in requests : Disperse(r)
    \/ \E m \in echoes \cup FromByzantine : ReceiveEcho(m)
    \/ \E m \in readys \cup FromByzantine : ReceiveReady(m)
    \/ UNCHANGED vars

LEMMA UndisturbedStep ==
  ASSUME TypeInv, LossesCounted, [Next]_vars
  PROVE  /\ LossesCounted'
         /\ Undisturbed' => Undisturbed
         /\ Undisturbed' /\ up = Correct => CallStep /\ up' = up
  <1> DEFINE Step == /\ LossesCounted'
                     /\ Undisturbed' => Undisturbed
                     /\ Undisturbed' /\ up = Correct => CallStep /\ up' = up
  <1>1. /\ budget \in [Kind -> Nat] /\ Budget \in [Kind -> Nat]
        /\ requests \subseteq Request /\ echoes \subseteq Message /\ readys \subseteq Message
        /\ "loss" \in Kind
    BY BudgetAssumption DEF TypeInv, TypeOK, Kind
  <1>2. ASSUME NEW kind \in Kind \ {"loss"}, Spend(kind)
        PROVE  budget'["loss"] = budget["loss"]
    BY <1>1, <1>2 DEF Spend
  <1>3. ASSUME CallStep, budget'["loss"] = budget["loss"], UNCHANGED <<up, disturbed>>
        PROVE  Step
    BY <1>3 DEF Undisturbed, LossesCounted
  <1>4. ASSUME NEW v \in Version, Put(v) PROVE Step
    BY <1>2, <1>3, <1>4 DEF Put, CallStep, Kind, history
  <1>5. CASE Deliver \/ DeliverByzantine
    <2>1. /\ CallStep /\ UNCHANGED <<up, budget, disturbed>>
      BY <1>5
      DEF Deliver, DeliverByzantine, Disperse, ReceiveEcho, ReceiveReady, CallStep, history
    <2> QED
      BY <1>3, <2>1
  <1>6. CASE Lose
    <2>1. UNCHANGED <<up, disturbed>> /\ (UNCHANGED budget \/ Spend("loss"))
      BY <1>6 DEF Lose, Lost, history
    <2>2. up = Correct => Spend("loss")
      BY <1>6 DEF Lose, Lost
    <2>3. Spend("loss") => budget'["loss"] = budget["loss"] - 1
      BY <1>1 DEF Spend
    <2>4. budget["loss"] \in Nat /\ Budget["loss"] \in Nat
      BY <1>1
    <2> QED
      BY <2>1, <2>2, <2>3, <2>4 DEF Undisturbed, LossesCounted
  <1>7. ASSUME NEW s, s \in disturbed', NEW kind \in Kind \ {"loss"}, Spend(kind)
        PROVE  Step
    BY <1>2, <1>7 DEF Undisturbed, LossesCounted
  <1>8. ASSUME NEW s \in Correct, Crash(s) \/ Lie(s) \/ Corrupt(s) \/ Reset(s)
        PROVE  Step
    BY <1>7, <1>8 DEF Crash, Halt, Lie, Corrupt, Reset, Inject, Kind
  <1>9. ASSUME NEW m \in readys \cup FromByzantine, CrashInStore(m) PROVE Step
    BY <1>7, <1>9 DEF CrashInStore, Halt, Kind
  <1>10. ASSUME NEW s \in Correct, Restart(s) PROVE Step
    BY <1>10 DEF Restart, Undisturbed, LossesCounted, history
  <1>11. CASE UNCHANGED vars
    BY <1>3, <1>11 DEF vars, history, CallStep
  <1> QED
    BY <1>4, <1>5, <1>6, <1>8, <1>9, <1>10, <1>11 DEF Next, Faults

(* A vote that its receiver acts on keeps every announcement reaching.       *)
LEMMA VoteKeepsTotal ==
  ASSUME TotalInv, up' = up, NEW m \in Message,
         \A t \in Correct \ {m.to} : ks'[t] = ks[t],
         VotesActedOn(ks'[m.to]),
         ks[m.to].ready_sent => ks'[m.to].ready_sent,
         Announces(m.to),
         \/ /\ readys \subseteq readys'
            /\ ks'[m.to].ready_set = ks[m.to].ready_set
         \/ /\ readys \ {m} \subseteq readys'
            /\ ks'[m.to].ready_set = ks[m.to].ready_set \cup {m.from}
            /\ m \in readys
  PROVE  TotalInv'
  <1>1. m.to \in Correct
    BY DEF Message
  <1>2. \A s \in Correct : Announced(s) => Announced(s)'
    BY DEF Announced
  <1>3. \A s \in Correct : VotesActedOn(ks'[s])
    BY DEF TotalInv
  <1>4. \A s \in Correct : \A t \in ks'[s].ready_set : t \in Correct /\ Announced(t)'
    BY <1>1, <1>2 DEF TotalInv
  <1>5. \A r \in readys' : r.from \in Correct /\ Announced(r.from)'
    BY <1>1, <1>2 DEF TotalInv, Announces, Announced
  <1>6. ASSUME NEW s \in Correct, NEW t \in Correct \ {s}, ReadyReaches(s, t)
        PROVE  ReadyReaches(s, t)'
    <2>1. CASE s \in ks[t].ready_set
      BY <2>1 DEF ReadyReaches
    <2>2. ASSUME NEW r \in readys, r.from = s, r.to = t PROVE ReadyReaches(s, t)'
      BY <2>2 DEF ReadyReaches
    <2> QED
      BY <1>6, <2>1, <2>2 DEF ReadyReaches
  <1>7. ASSUME NEW s \in Correct, Announced(s)', NEW t \in Correct \ {s}
        PROVE  ReadyReaches(s, t)'
    <2>1. CASE Announced(s)
      BY <1>6, <1>7, <2>1 DEF TotalInv
    <2>2. CASE ~Announced(s)
      BY <1>7, <2>2 DEF Announced, Announces, ReadyReaches
    <2> QED
      BY <2>1, <2>2
  <1> QED
    BY <1>3, <1>4, <1>5, <1>7 DEF TotalInv

LEMMA NextTotalInv ==
  ASSUME Byzantine = {}, TypeInv, CallStep, TotalInv, up' = up
  PROVE  TotalInv'
  <1>1. /\ requests \subseteq Request
        /\ echoes \subseteq Message /\ readys \subseteq Message
        /\ \A s \in Correct : VotesActedOn(ks[s])
        /\ FromByzantine = {}
    BY NoForgery DEF TotalInv, TypeInv, TypeOK
  <1>2. ASSUME (\E v \in Version : Put(v)) \/ UNCHANGED vars PROVE TotalInv'
    <2>1. ks' = ks /\ readys' = readys
      BY <1>2 DEF Put, vars, net
    <2> QED
      BY <1>1, <2>1 DEF TotalInv, Announced, ReadyReaches
  <1>3. ASSUME NEW r \in requests, Disperse(r) PROVE TotalInv'
    <2>1. readys' = readys
      BY <1>3 DEF Disperse
    <2>2. ASSUME NEW s \in Correct
          PROVE  /\ ks'[s].ready_set = ks[s].ready_set
                 /\ ks'[s].ready_sent = ks[s].ready_sent
                 /\ VotesActedOn(ks'[s])
      <3>1. /\ ks'[s].ready_set = ks[s].ready_set /\ ks'[s].echo_set = ks[s].echo_set
            /\ ks'[s].ready_sent = ks[s].ready_sent
            /\ ks'[s].verified \/ ks'[s].verified = ks[s].verified
            /\ \/ ks'[s] = ks[s]
               \/ ~ks[s].stored /\ ~ks'[s].stored /\ ks'[s].fragment = FragmentOf(r.ver)
                  /\ r.ver \in Version
        BY <1>1, <1>3, DisperseStep, DisperseKeepsSent
      <3>2. r.ver \in Version => FragmentOf(r.ver) # None
        BY FragmentType, NoneAssumption
      <3> QED
        BY <1>1, <3>1, <3>2 DEF VotesActedOn, EnoughEchos, EnoughReadys
    <2> QED
      BY <1>1, <2>1, <2>2 DEF TotalInv, Announced, ReadyReaches
  <1>4. ASSUME NEW m \in echoes, ReceiveEcho(m) PROVE TotalInv'
    <2>1. m \in Message /\ m.to \in Correct
      BY <1>1 DEF Message
    <2> QED
      BY <1>1, <1>4, <2>1, EchoStep, EchoActedOn, VoteKeepsTotal
  <1>5. ASSUME NEW m \in readys, ReceiveReady(m) PROVE TotalInv'
    <2>1. m \in Message /\ m.to \in Correct
      BY <1>1 DEF Message
    <2>2. /\ \A t \in Correct \ {m.to} : ks'[t] = ks[t]
          /\ ks'[m.to].ready_set = ks[m.to].ready_set \cup {m.from}
      BY <1>1, <1>5, <2>1, ReadyStep
    <2> QED
      BY <1>1, <1>5, <2>1, <2>2, ReadyActedOn, VoteKeepsTotal
  <1> QED
    BY <1>1, <1>2, <1>3, <1>4, <1>5 DEF CallStep

LEMMA NextUntilDisturbed ==
  ASSUME Byzantine = {}
  PROVE  UntilDisturbed /\ [Next]_vars => UntilDisturbed'
  <1> SUFFICES ASSUME UntilDisturbed, [Next]_vars PROVE UntilDisturbed'
    OBVIOUS
  <1>1. TypeInv /\ LossesCounted /\ TypeInv' /\ LossesCounted'
    BY NextTypeInv, UndisturbedStep DEF UntilDisturbed
  <1>2. Undisturbed' => TotalInv /\ CallStep /\ up' = up
    BY <1>1, UndisturbedStep DEF UntilDisturbed, TotalInv
  <1>3. Undisturbed' => TotalInv'
    BY <1>1, <1>2, NextTotalInv
  <1> QED
    BY <1>1, <1>3 DEF UntilDisturbed

(* Whoever counts 2f + 1 READYs counts f + 1 others that reach everybody, so *)
(* everybody has announced, and all but itself reach each server: 2f + 1 of  *)
(* them when at least 2f + 2 servers are correct.                            *)
LEMMA TotalIsAllOrNothing ==
  ASSUME Cardinality(Correct) >= 2 * F + 2, UntilDisturbed
  PROVE  AllOrNothing
  <1> SUFFICES ASSUME Quiet, Undisturbed, NEW s \in Correct, ks[s].stored, NEW u \in Correct
               PROVE  ks[u].stored
    BY DEF AllOrNothing
  <1> DEFINE A == {t \in Correct : Announced(t)}
  <1>1. /\ TotalInv
        /\ \A t \in Correct : ks[t].ready_set \in SUBSET Server
        /\ \A t \in Correct : VotesActedOn(ks[t])
        /\ \A t \in Correct : ks[t].ready_set \subseteq A
    BY DEF UntilDisturbed, TotalInv, TypeInv, TypeOK, KeyState
  <1>2. ASSUME NEW t \in Correct PROVE A \ {t} \subseteq ks[t].ready_set
    BY <1>1 DEF TotalInv, Quiet, ReadyReaches
  <1>3. /\ IsFiniteSet(A) /\ Cardinality(A) \in Nat
        /\ Cardinality(A) >= F + 1
    <2>1. Cardinality(ks[s].ready_set) >= 2 * F + 1
      BY <1>1 DEF VotesActedOn, StoreThreshold
    <2>2. IsFiniteSet(A) /\ Cardinality(A) \in Nat
      BY ClusterSize, FS_Subset, FS_CardinalityType
    <2>3. /\ Cardinality(ks[s].ready_set) <= Cardinality(A)
          /\ Cardinality(ks[s].ready_set) \in Nat
      BY <1>1, <2>2, FS_Subset, FS_CardinalityType
    <2> QED
      BY <2>1, <2>2, <2>3, ClusterSize
  <1>4. ASSUME NEW t \in Correct PROVE Announced(t)
    <2> SUFFICES ASSUME t \notin A PROVE FALSE
      OBVIOUS
    <2>1. A \subseteq ks[t].ready_set
      BY <1>2
    <2>2. IsFiniteSet(ks[t].ready_set)
      BY <1>1, ClusterSize, FS_Subset
    <2>3. Cardinality(A) <= Cardinality(ks[t].ready_set) /\ Cardinality(ks[t].ready_set) \in Nat
      BY <2>1, <2>2, FS_Subset, FS_CardinalityType
    <2>4. EnoughReadys(ks[t])
      BY <1>3, <2>3, ClusterSize DEF EnoughReadys, ReadyThreshold
    <2> QED
      BY <1>1, <2>4 DEF VotesActedOn, Announced
  <1>5. Correct \ {u} \subseteq ks[u].ready_set
    BY <1>2, <1>4
  <1>6. Cardinality(Correct \ {u}) = Cardinality(Correct) - 1 /\ Cardinality(Correct) \in Nat
    BY ClusterSize, FS_RemoveElement, FS_CardinalityType
  <1>7. Cardinality(Correct \ {u}) <= Cardinality(ks[u].ready_set)
        /\ Cardinality(ks[u].ready_set) \in Nat
    <2>1. IsFiniteSet(ks[u].ready_set)
      BY <1>1, ClusterSize, FS_Subset
    <2> QED
      BY <1>5, <2>1, FS_Subset, FS_CardinalityType
  <1>8. Cardinality(ks[u].ready_set) >= StoreThreshold
    BY <1>6, <1>7, ClusterSize DEF StoreThreshold
  <1> QED
    BY <1>1, <1>8 DEF VotesActedOn

(* The end of the ECHO phase of a put, whoever has heard whom by then, is a   *)
(* state from which READYs spread.                                           *)
LEMMA InitUntilDisturbed ==
  ASSUME v1 \in Version
  PROVE  InitEchoed => UntilDisturbed
  <1> SUFFICES ASSUME NEW heard \in [Correct -> SUBSET Correct], InitHeard(heard)
               PROVE  UntilDisturbed
    BY DEF InitEchoed
  <1> DEFINE k(s) == Echoed(heard[s])
             sent(s) == _maybe_send_ready(k(s))
  <1>1. ASSUME NEW s \in Correct
        PROVE  /\ k(s) \in KeyState /\ k(s).verified
               /\ k(s).fragment = FragmentOf(v1) /\ k(s).fpcc = v1
               /\ ~k(s).stored /\ ~k(s).ready_sent
               /\ k(s).ready_set = {}
    <2>1. /\ Hold(EmptyKeyState, v1) \in KeyState
          /\ Hold(EmptyKeyState, v1).fragment = FragmentOf(v1)
          /\ Hold(EmptyKeyState, v1).fpcc = v1
          /\ ~Hold(EmptyKeyState, v1).stored /\ ~Hold(EmptyKeyState, v1).ready_sent
          /\ Hold(EmptyKeyState, v1).ready_set = {}
      BY EmptyType, HoldType DEF Hold, EmptyKeyState
    <2>2. heard[s] \subseteq Server
      BY ServerAssumption
    <2> QED
      BY <2>1, <2>2 DEF Echoed, KeyState
  <1>2. FragmentOf(v1) # None /\ v1 # None
    BY FragmentType, NoneAssumption
  <1>3. ASSUME NEW s \in Correct
        PROVE  /\ ks[s] = sent(s) /\ ks[s] \in KeyState
               /\ ks[s].fpcc # None
               /\ VotesActedOn(ks[s]) /\ ks[s].ready_set = {}
               /\ Announced(s) <=> SendsReady(k(s))
    <2>1. ks[s] = sent(s)
      BY DEF InitHeard
    <2>2. sent(s).fpcc = k(s).fpcc
      BY <1>1 DEF _maybe_send_ready, KeyState
    <2> HIDE DEF sent
    <2>3. /\ sent(s) \in KeyState /\ sent(s).verified
          /\ sent(s).fragment = FragmentOf(v1) /\ ~sent(s).stored
          /\ sent(s).ready_set = {}
          /\ sent(s).ready_sent <=> SendsReady(k(s))
          /\ EnoughEchos(sent(s)) \/ EnoughReadys(sent(s)) => sent(s).ready_sent
      BY <1>1, SentWhenEnough DEF sent
    <2>4. ~(Cardinality({}) >= StoreThreshold)
      BY FS_EmptySet, ClusterSize DEF StoreThreshold
    <2> QED
      BY <1>1, <1>2, <2>1, <2>2, <2>3, <2>4 DEF VotesActedOn, Announced
  <1>4. /\ \A m \in readys : m \in Message /\ m.from \in Correct /\ Announced(m.from)
        /\ \A s \in Correct : Announced(s) => Broadcast(s, v1) \subseteq readys
    <2>1. readys = UNION {Broadcast(s, v1) : s \in {t \in Correct : SendsReady(k(t))}}
      BY DEF InitHeard
    <2>2. \A s \in Correct : \A m \in Broadcast(s, v1) : m \in Message /\ m.from = s
      BY MessageType DEF Broadcast
    <2> QED
      BY <1>3, <2>1, <2>2
  <1>5. budget \in [Kind -> Nat] /\ budget["loss"] = Budget["loss"]
    BY BudgetAssumption DEF InitHeard, Kind
  <1>6. TypeInv /\ LossesCounted
    <2>1. ks \in [Correct -> KeyState]
      BY <1>3 DEF InitHeard
    <2>2. Budget["loss"] \in Nat
      BY BudgetAssumption DEF Kind
    <2> HIDE DEF k
    <2> QED
      BY <1>3, <1>4, <1>5, <2>1, <2>2
      DEF InitHeard, TypeInv, TypeOK, HeldTogether, LossesCounted
  <1>7. ASSUME NEW s \in Correct, Announced(s), NEW t \in Correct \ {s}
        PROVE  ReadyReaches(s, t)
    <2> DEFINE r == [from |-> s, to |-> t, digest |-> v1]
    <2>1. r \in readys /\ r.from = s /\ r.to = t
      BY <1>4, <1>7 DEF Broadcast
    <2> QED
      BY <2>1 DEF ReadyReaches
  <1>8. TotalInv
    <2>1. up = Correct
      BY DEF InitHeard
    <2> QED
      BY <1>3, <1>4, <1>7, <2>1 DEF TotalInv
  <1> QED
    BY <1>6, <1>8 DEF UntilDisturbed

(* Totality: from the end of the ECHO phase of a put, whichever ECHOs were    *)
(* lost in it, with at least 2f + 2 servers that run this code and the others *)
(* silent, as long as no READY is lost and no server fails, once nothing is   *)
(* on its way either no server has stored the key or all of them have,        *)
(* whatever clients put meanwhile under the same key. Not with a server that  *)
(* sends READYs under other names, which /ready believes: 2f + 1 of them,     *)
(* sent to one server, make that one store alone.                             *)
THEOREM AllOrNothingCorrect ==
  ASSUME Byzantine = {}, Cardinality(Correct) >= 2 * F + 2, v1 \in Version
  PROVE  SpecEchoed => []AllOrNothing
  <1>1. UntilDisturbed => AllOrNothing
    BY TotalIsAllOrNothing
  <1> QED
    BY <1>1, InitUntilDisturbed, NextUntilDisturbed, PTL DEF SpecEchoed

-----------------------------------------------------------------------------
(* Completion of puts with f = 1, when every server runs and no call is lost. *)
(* n - f ECHOs are then those of all peers, so nobody announces READY before  *)
(* every server has verified its fragment. The last one to do so may have     *)
(* heard every ECHO before, and /disperse sends no READY: it owes one, which  *)
(* it sends when it hears the others' READYs.                                 *)

NoFaultLeft == \A kind \in {"crash", "loss", "injection"} : budget[kind] = 0

NothingFails ==
    /\ Correct = Server /\ F = 1
    /\ \A v \in Version : Valid[v] = Server
    /\ \A kind \in {"crash", "loss", "injection"} : Budget[kind] = 0

EchoReaches(s, t) ==
    s \in ks[t].echo_set \/ \E m \in echoes : m.from = s /\ m.to = t

Owes(s) == ks[s].verified /\ EnoughEchos(ks[s]) /\ ~ks[s].ready_sent

EchoesSpread ==
    /\ \A s \in Correct : ks[s].verified <=> ks[s].echoed
    /\ \A s \in Correct : ks[s].verified =>
           ks[s].fragment # None /\ \A t \in Correct \ {s} : EchoReaches(s, t)
    /\ \A s \in Correct : \A t \in ks[s].echo_set : t # s /\ ks[t].verified
    /\ \A s \in Correct : Owes(s) =>
           \A t \in Correct \ {s} : ks[t].verified /\ ~Owes(t)
    /\ \A m \in echoes : m.from # m.to /\ ks[m.from].verified

ReadysSpread ==
    /\ \A s \in Correct : ks[s].verified /\ EnoughReadys(ks[s]) => ks[s].ready_sent
    /\ \A s \in Correct : ks[s].stored <=> Cardinality(ks[s].ready_set) >= StoreThreshold
    /\ \A s \in Correct : \A t \in ks[s].ready_set : Announced(t)
    /\ \A s \in Correct : Announced(s) => \A t \in Correct : ks[t].verified
    /\ \A s \in Correct : Announced(s) => \A t \in Correct \ {s} : ReadyReaches(s, t)
    /\ \A m \in readys : Announced(m.from)

PutArrives ==
    budget["put"] # Budget["put"] =>
        \A s \in Correct : ks[s].verified \/ \E r \in requests : r.to = s

PutInv ==
    TypeInv /\ up = Correct /\ NoFaultLeft /\ EchoesSpread /\ ReadysSpread /\ PutArrives

(* The calls that could be lost and the faults are used up.                  *)
LEMMA FaultlessStep ==
  ASSUME TypeInv, up = Correct, NoFaultLeft, [Next]_vars
  PROVE  CallStep /\ up' = up /\ NoFaultLeft'
  <1> DEFINE Step == CallStep /\ up' = up /\ NoFaultLeft'
  <1>1. /\ NoFaultLeft /\ up = Correct /\ budget \in [Kind -> Nat]
        /\ requests \subseteq Request /\ echoes \subseteq Message /\ readys \subseteq Message
    BY DEF TypeInv, TypeOK
  <1>2. ASSUME NEW kind \in {"crash", "loss", "injection"} PROVE ~Spend(kind)
    BY <1>1 DEF Spend, NoFaultLeft
  <1>3. ASSUME NEW v \in Version, Put(v) PROVE Step
    BY <1>1, <1>3 DEF Put, Spend, NoFaultLeft, Kind, CallStep
  <1>4. CASE Deliver \/ DeliverByzantine
    BY <1>1, <1>4
    DEF Deliver, DeliverByzantine, Disperse, ReceiveEcho, ReceiveReady, NoFaultLeft,
        CallStep
  <1>6. ~Lose
    BY <1>1, <1>2 DEF Lose, Lost
  <1>7. ASSUME NEW s \in Correct
        PROVE  ~Crash(s) /\ ~Restart(s) /\ ~Lie(s) /\ ~Corrupt(s) /\ ~Reset(s)
    BY <1>1, <1>2 DEF Crash, Halt, Restart, Lie, Corrupt, Reset, Inject
  <1>8. ASSUME NEW m \in readys \cup FromByzantine PROVE ~CrashInStore(m)
    BY <1>2 DEF CrashInStore, Halt
  <1>9. CASE UNCHANGED vars
    BY <1>1, <1>9 DEF vars, net, NoFaultLeft, CallStep
  <1> QED
    BY <1>3, <1>4, <1>6, <1>7, <1>8, <1>9 DEF Next, Faults

LEMMA AllPeers ==
  ASSUME NothingFails
  PROVE  /\ FromByzantine = {}
         /\ \A s \in Correct : \A Q \in SUBSET (Correct \ {s}) :
                Cardinality(Q) >= EchoThreshold <=> Q = Correct \ {s}
         /\ \A s \in Correct : \A Q \in SUBSET Server : Correct \ {s} \subseteq Q =>
                Cardinality(Q) >= StoreThreshold /\ Cardinality(Q) >= ReadyThreshold
         /\ ~(Cardinality({}) >= ReadyThreshold) /\ ~(Cardinality({}) >= StoreThreshold)
  <1>1. /\ N \in Nat /\ N >= 4 /\ EchoThreshold = N - 1 /\ StoreThreshold = 3
        /\ ReadyThreshold = 2
    BY ThresholdAssumption, ClusterSize
    DEF NothingFails, EchoThreshold, StoreThreshold, ReadyThreshold
  <1>2. FromByzantine = {}
    BY ServerAssumption, NoForgery DEF NothingFails, Faulty
  <1>3. ASSUME NEW s \in Correct
        PROVE  IsFiniteSet(Correct \ {s}) /\ Cardinality(Correct \ {s}) = N - 1
    BY ClusterSize, FS_RemoveElement DEF NothingFails, N
  <1>4. ASSUME NEW s \in Correct, NEW Q \in SUBSET (Correct \ {s})
        PROVE  Cardinality(Q) >= EchoThreshold <=> Q = Correct \ {s}
    <2> DEFINE P == Correct \ {s}
    <2>1. IsFiniteSet(P) /\ Cardinality(P) = N - 1 /\ Q \in SUBSET P
      BY <1>3
    <2> HIDE DEF P
    <2>2. /\ IsFiniteSet(Q) /\ Cardinality(Q) <= Cardinality(P)
          /\ Cardinality(P) = Cardinality(Q) => P = Q
      BY <2>1, FS_Subset
    <2>3. Cardinality(Q) \in Nat
      BY <2>2, FS_CardinalityType
    <2>4. Cardinality(Q) >= EchoThreshold => Q = P
      BY <1>1, <2>1, <2>2, <2>3
    <2>5. Q = P => Cardinality(Q) >= EchoThreshold
      BY <1>1, <2>1
    <2> QED
      BY <2>4, <2>5 DEF P
  <1>5. ASSUME NEW s \in Correct, NEW Q \in SUBSET Server, Correct \ {s} \subseteq Q
        PROVE  Cardinality(Q) >= StoreThreshold /\ Cardinality(Q) >= ReadyThreshold
    <2>1. IsFiniteSet(Q) /\ Cardinality(Q) \in Nat
      BY ClusterSize, FS_Subset, FS_CardinalityType
    <2>2. N - 1 <= Cardinality(Q)
      <3>1. Cardinality(Correct \ {s}) <= Cardinality(Q)
        BY <1>5, <2>1, FS_Subset
      <3> QED
        BY <1>3, <3>1
    <2> QED
      BY <1>1, <2>1, <2>2
  <1>6. Cardinality({}) = 0
    BY FS_EmptySet
  <1> QED
    BY <1>1, <1>2, <1>4, <1>5, <1>6

(* A READY is sent by who heard all ECHOs or some READY.                      *)
LEMMA WhoeverSends ==
  ASSUME NothingFails, PutInv, NEW s \in Correct, NEW k \in KeyState,
         \A t \in k.echo_set : t # s /\ t \in Correct /\ ks[t].verified,
         \A t \in k.ready_set : Announced(t),
         ks[s].verified,
         EnoughEchos(k) \/ EnoughReadys(k)
  PROVE  \A t \in Correct : ks[t].verified
  <1>1. CASE EnoughEchos(k)
    <2>1. k.echo_set \in SUBSET (Correct \ {s})
      OBVIOUS
    <2>2. k.echo_set = Correct \ {s}
      BY <1>1, <2>1, AllPeers DEF EnoughEchos
    <2> QED
      BY <2>2
  <1>2. CASE EnoughReadys(k)
    <2>1. k.ready_set # {}
      BY <1>2, AllPeers DEF EnoughReadys
    <2>2. k.ready_set \subseteq Correct
      BY DEF KeyState, NothingFails
    <2> QED
      BY <2>1, <2>2 DEF PutInv, ReadysSpread
  <1> QED
    BY <1>1, <1>2

(* What a vote changes, whatever its receiver has.                            *)
LEMMA EchoVotes ==
  ASSUME TypeInv, NEW m \in Message, ReceiveEcho(m)
  PROVE  /\ ks'[m.to] \in KeyState
         /\ ks'[m.to].echoed = ks[m.to].echoed
         /\ ks[m.to].ready_sent => ks'[m.to].ready_sent
         /\ ks'[m.to].ready_sent /\ ~ks[m.to].ready_sent =>
                ks[m.to].verified /\ (EnoughEchos(ks'[m.to]) \/ EnoughReadys(ks'[m.to]))
         /\ ks'[m.to].verified /\ (EnoughEchos(ks'[m.to]) \/ EnoughReadys(ks'[m.to]))
                => ks'[m.to].ready_sent
         /\ readys \subseteq readys' /\ Announces(m.to)
         /\ echoes' = echoes \ {m} /\ requests' = requests /\ budget' = budget
  <1> DEFINE k == AfterEcho(m)
             sent == _maybe_send_ready(k)
  <1>1. ks[m.to] \in KeyState /\ m.to \in Correct /\ ks \in [Correct -> KeyState]
    BY DEF Message, TypeInv, TypeOK
  <1>2. k \in KeyState
    BY ReceiveType DEF TypeInv
  <1>3. /\ k.verified = ks[m.to].verified /\ k.echoed = ks[m.to].echoed
        /\ k.ready_sent = ks[m.to].ready_sent
    BY <1>1 DEF AfterEcho, KeyState
  <1>4. /\ ks'[m.to] = sent
        /\ readys' = readys \cup (IF SendsReady(k) THEN Broadcast(m.to, m.digest) ELSE {})
        /\ echoes' = echoes \ {m} /\ requests' = requests /\ budget' = budget
    BY <1>1 DEF ReceiveEcho
  <1> HIDE DEF k
  <1>5. /\ sent \in KeyState /\ sent.verified = k.verified /\ sent.echoed = k.echoed
        /\ sent.ready_sent <=> (k.ready_sent \/ SendsReady(k))
        /\ k.verified /\ (EnoughEchos(sent) \/ EnoughReadys(sent)) => sent.ready_sent
    BY <1>2, SentWhenEnough
  <1>6. SendsReady(k) => k.verified /\ (EnoughEchos(sent) \/ EnoughReadys(sent))
    BY <1>2 DEF SendsReady, _maybe_send_ready, KeyState, EnoughEchos, EnoughReadys
  <1> HIDE DEF sent
  <1>7. Announces(m.to)
    <2>1. CASE SendsReady(k)
      BY <1>4, <1>5, <2>1, BroadcastAnnounces
    <2>2. CASE ~SendsReady(k)
      BY <1>3, <1>4, <1>5, <2>2 DEF Announces
    <2> QED
      BY <2>1, <2>2
  <1> QED
    BY <1>3, <1>4, <1>5, <1>6, <1>7

LEMMA ReadyVotes ==
  ASSUME TypeInv, NEW m \in Message, ReceiveReady(m)
  PROVE  /\ ks'[m.to] \in KeyState
         /\ ks'[m.to].echoed = ks[m.to].echoed
         /\ ks[m.to].ready_sent => ks'[m.to].ready_sent
         /\ ks'[m.to].verified /\ (EnoughEchos(ks'[m.to]) \/ EnoughReadys(ks'[m.to]))
                => ks'[m.to].ready_sent
         /\ readys \ {m} \subseteq readys' /\ Announces(m.to)
         /\ Commits(AfterReady(m)) <=>
                /\ ~ks[m.to].stored /\ ks[m.to].fragment # None
                /\ Cardinality(ks'[m.to].ready_set) >= StoreThreshold
         /\ echoes' = echoes /\ requests' = requests /\ budget' = budget
  <1> DEFINE k == AfterReady(m)
             sent == _maybe_send_ready(k)
             after == IF Commits(k) THEN [sent EXCEPT !.stored = TRUE] ELSE sent
             d == OrElse(k.fpcc_digest, m.digest)
  <1>1. ks[m.to] \in KeyState /\ m.to \in Correct /\ ks \in [Correct -> KeyState]
    BY DEF Message, TypeInv, TypeOK
  <1>2. k \in KeyState
    BY ReceiveType DEF TypeInv
  <1>3. /\ k.verified = ks[m.to].verified /\ k.echoed = ks[m.to].echoed
        /\ k.ready_sent = ks[m.to].ready_sent /\ k.fragment = ks[m.to].fragment
        /\ k.stored = ks[m.to].stored
    BY <1>1 DEF AfterReady, KeyState
  <1>4. /\ ks'[m.to] = after
        /\ readys' = (readys \ {m}) \cup (IF SendsReady(k) THEN Broadcast(m.to, d) ELSE {})
        /\ echoes' = echoes /\ requests' = requests /\ budget' = budget
    BY <1>1 DEF ReceiveReady
  <1> HIDE DEF k, d
  <1>5. /\ sent \in KeyState /\ sent.verified = k.verified /\ sent.echoed = k.echoed
        /\ sent.ready_sent <=> (k.ready_sent \/ SendsReady(k))
        /\ sent.ready_set = k.ready_set
        /\ k.verified /\ (EnoughEchos(sent) \/ EnoughReadys(sent)) => sent.ready_sent
    BY <1>2, SentWhenEnough
  <1> HIDE DEF sent
  <1>6. /\ after \in KeyState /\ after.verified = k.verified /\ after.echoed = k.echoed
        /\ after.ready_sent = sent.ready_sent /\ after.ready_set = k.ready_set
        /\ after.echo_set = sent.echo_set
    BY <1>5 DEF KeyState
  <1> HIDE DEF after
  <1>7. k.verified /\ (EnoughEchos(after) \/ EnoughReadys(after)) => after.ready_sent
    BY <1>5, <1>6 DEF EnoughEchos, EnoughReadys
  <1>8. Announces(m.to)
    <2>1. CASE SendsReady(k)
      BY <1>4, <1>5, <1>6, <2>1, BroadcastAnnounces
    <2>2. CASE ~SendsReady(k)
      BY <1>3, <1>4, <1>5, <1>6, <2>2 DEF Announces
    <2> QED
      BY <2>1, <2>2
  <1>9. Commits(k) <=> /\ ~ks[m.to].stored /\ ks[m.to].fragment # None
                       /\ Cardinality(after.ready_set) >= StoreThreshold
    BY <1>3, <1>6 DEF Commits
  <1> QED
    BY <1>3, <1>4, <1>5, <1>6, <1>7, <1>8, <1>9 DEF k

LEMMA PutDisperse ==
  ASSUME NothingFails, PutInv, NEW r \in requests, Disperse(r)
  PROVE  /\ r.to \in Correct
         /\ \A t \in Correct \ {r.to} : ks'[t] = ks[t]
         /\ ks'[r.to].verified /\ ks'[r.to].echoed /\ ks'[r.to].fragment # None
         /\ ks'[r.to].stored = ks[r.to].stored
         /\ echoes \subseteq echoes' /\ echoes' \subseteq echoes \cup Broadcast(r.to, r.ver)
         /\ ~ks[r.to].verified => Broadcast(r.to, r.ver) \subseteq echoes'
         /\ readys' = readys /\ requests' = requests \ {r} /\ budget' = budget
  <1> DEFINE s == r.to
             v == r.ver
             h == Hold(ks[s], v)
  <1>1. /\ r \in Request /\ TypeInv /\ s \in Correct /\ v \in Version
        /\ ks[s] \in KeyState /\ ks \in [Correct -> KeyState]
    BY DEF PutInv, Request, TypeInv, TypeOK
  <1>2. readys' = readys /\ requests' = requests \ {r} /\ budget' = budget
    BY DEF Disperse
  <1>3. CASE DisperseAlreadyStored(s, v)
    <2>1. ks' = ks /\ echoes' = echoes /\ ks[s].stored
      BY <1>3 DEF DisperseAlreadyStored
    <2>2. ks[s].ready_set # {}
      <3>1. Cardinality(ks[s].ready_set) >= StoreThreshold
        BY <1>1, <2>1 DEF PutInv, ReadysSpread
      <3> QED
        BY <3>1, AllPeers
    <2>3. PICK t \in Correct : Announced(t)
      BY <1>1, <2>2 DEF PutInv, ReadysSpread, KeyState, NothingFails
    <2>4. ks[s].verified
      BY <1>1, <2>3 DEF PutInv, ReadysSpread
    <2> QED
      BY <1>1, <1>2, <2>1, <2>4 DEF PutInv, EchoesSpread
  <1>4. CASE DisperseInvalid(s, v)
    BY <1>1, <1>4 DEF DisperseInvalid, verify_fragment, NothingFails
  <1>5. CASE DisperseAccepted(s, v)
    <2> DEFINE k == [h EXCEPT !.verified = TRUE, !.echoed = TRUE]
    <2>1. /\ ks' = [ks EXCEPT ![s] = k]
          /\ echoes' = echoes \cup (IF ks[s].echoed THEN {} ELSE Broadcast(s, v))
      BY <1>5 DEF DisperseAccepted
    <2>2. h \in KeyState /\ h.fragment = FragmentOf(v) /\ h.stored = ks[s].stored
      BY <1>1, HoldType DEF Hold, KeyState
    <2> HIDE DEF h
    <2>3. /\ k.fragment = FragmentOf(v) /\ k.stored = ks[s].stored /\ k.verified /\ k.echoed
      BY <2>2 DEF KeyState
    <2> HIDE DEF k
    <2>4. FragmentOf(v) # None
      BY <1>1, FragmentType, NoneAssumption
    <2>5. ks[s].echoed => ks[s].verified
      BY <1>1 DEF PutInv, EchoesSpread
    <2> QED
      BY <1>1, <1>2, <2>1, <2>3, <2>4, <2>5
  <1> QED
    BY <1>3, <1>4, <1>5 DEF Disperse

LEMMA DisperseKeepsPut ==
  ASSUME NothingFails, PutInv, NEW r \in requests, Disperse(r)
  PROVE  EchoesSpread' /\ ReadysSpread' /\ PutArrives'
  <1> DEFINE s == r.to
  <1>1. /\ r \in Request /\ TypeInv /\ EchoesSpread /\ ReadysSpread /\ PutArrives
        /\ \A t \in Correct : ks[t].echo_set \subseteq Correct /\ ks[t].ready_set \subseteq Correct
        /\ \A m \in echoes : m.from \in Correct /\ m.to \in Correct
    BY DEF PutInv, TypeInv, TypeOK, KeyState, Message, NothingFails
  <1>2. /\ s \in Correct
        /\ \A t \in Correct \ {s} : ks'[t] = ks[t]
        /\ ks'[s].verified /\ ks'[s].echoed /\ ks'[s].fragment # None
        /\ ks'[s].stored = ks[s].stored
        /\ echoes \subseteq echoes' /\ echoes' \subseteq echoes \cup Broadcast(s, r.ver)
        /\ ~ks[s].verified => Broadcast(s, r.ver) \subseteq echoes'
        /\ readys' = readys /\ requests' = requests \ {r} /\ budget' = budget
    BY PutDisperse
  <1>3. /\ ks'[s].echo_set = ks[s].echo_set /\ ks'[s].ready_set = ks[s].ready_set
        /\ \A t \in Correct : ks'[t].ready_sent = ks[t].ready_sent
    BY <1>1, DisperseStep, DisperseKeepsSent
  <1>4. \A t \in Correct : /\ ks'[t].echo_set = ks[t].echo_set
                           /\ ks'[t].ready_set = ks[t].ready_set
                           /\ ks'[t].stored = ks[t].stored
                           /\ ks[t].verified => ks'[t].verified
    BY <1>2, <1>3
  <1> HIDE DEF s
  <1>5. \A t \in Correct : ks'[t].verified <=> ks'[t].echoed
    BY <1>1, <1>2 DEF EchoesSpread
  <1>6. ASSUME NEW t \in Correct, ks'[t].verified
        PROVE  ks'[t].fragment # None /\ \A u \in Correct \ {t} : EchoReaches(t, u)'
    <2>1. ASSUME ks[t].verified, NEW u \in Correct \ {t} PROVE EchoReaches(t, u)'
      BY <1>1, <1>2, <1>4, <2>1 DEF EchoesSpread, EchoReaches
    <2>2. ASSUME ~ks[t].verified, NEW u \in Correct \ {t} PROVE EchoReaches(t, u)'
      <3>1. t = s
        BY <1>2, <1>6, <2>2
      <3> DEFINE e == [from |-> t, to |-> u, digest |-> r.ver]
      <3>2. e \in echoes' /\ e.from = t /\ e.to = u
        BY <1>2, <2>2, <3>1 DEF Broadcast
      <3> QED
        BY <3>2 DEF EchoReaches
    <2>3. ks'[t].fragment # None
      BY <1>1, <1>2, <1>6 DEF EchoesSpread
    <2> QED
      BY <2>1, <2>2, <2>3
  <1>7. \A t \in Correct : \A u \in ks'[t].echo_set : u # t /\ ks'[u].verified
    BY <1>1, <1>4 DEF EchoesSpread
  <1>8. ASSUME NEW t \in Correct, Owes(t)', NEW u \in Correct \ {t}
        PROVE  ks'[u].verified /\ ~Owes(u)'
    <2>1. /\ EnoughEchos(ks[t]) /\ ~ks[t].ready_sent
          /\ Owes(u)' => EnoughEchos(ks[u]) /\ ~ks[u].ready_sent
      BY <1>3, <1>4, <1>8 DEF Owes, EnoughEchos
    <2>2. CASE ks[t].verified
      <3>1. ks[u].verified /\ ~Owes(u)
        BY <1>1, <2>1, <2>2 DEF EchoesSpread, Owes
      <3> QED
        BY <1>4, <2>1, <3>1 DEF Owes
    <2>3. CASE ~ks[t].verified
      <3>1. ks[t].echo_set = Correct \ {t}
        <4>1. ks[t].echo_set \in SUBSET (Correct \ {t})
          BY <1>1 DEF EchoesSpread
        <4> QED
          BY <2>1, <4>1, AllPeers DEF EnoughEchos
      <3>2. ks[u].verified
        BY <1>1, <3>1 DEF EchoesSpread
      <3>3. t \notin ks[u].echo_set
        BY <1>1, <2>3 DEF EchoesSpread
      <3>4. ~EnoughEchos(ks[u])
        <4>1. ks[u].echo_set \in SUBSET (Correct \ {u})
          BY <1>1 DEF EchoesSpread
        <4> QED
          BY <3>3, <4>1, AllPeers DEF EnoughEchos
      <3> QED
        BY <1>4, <2>1, <3>2, <3>4
    <2> QED
      BY <2>2, <2>3
  <1>9. \A m \in echoes' : m.from # m.to /\ ks'[m.from].verified
    <2>1. \A m \in Broadcast(s, r.ver) : m.from = s /\ m.to # s
      BY DEF Broadcast
    <2> QED
      BY <1>1, <1>2, <1>4, <2>1 DEF EchoesSpread
  <1>10. EchoesSpread'
    BY <1>5, <1>6, <1>7, <1>8, <1>9 DEF EchoesSpread
  <1>11. ASSUME NEW t \in Correct, ks'[t].verified, EnoughReadys(ks'[t])
         PROVE  ks'[t].ready_sent
    <2>1. EnoughReadys(ks[t])
      BY <1>4, <1>11 DEF EnoughReadys
    <2>2. ks[t].ready_set # {}
      BY <2>1, AllPeers DEF EnoughReadys
    <2>3. ks[t].verified
      BY <1>1, <2>2 DEF ReadysSpread
    <2> QED
      BY <1>1, <1>3, <2>1, <2>3 DEF ReadysSpread
  <1>12. ReadysSpread'
    <2>1. \A t \in Correct : Announced(t)' <=> Announced(t)
      BY <1>3 DEF Announced
    <2>2. \A t, u \in Correct : ReadyReaches(t, u)' <=> ReadyReaches(t, u)
      BY <1>2, <1>4 DEF ReadyReaches
    <2>3. \A t \in Correct : \A u \in ks'[t].ready_set : Announced(u)'
      BY <1>1, <1>4, <2>1 DEF ReadysSpread
    <2>4. \A m \in readys' : Announced(m.from)'
      <3>1. \A m \in readys : m.from \in Correct
        BY DEF PutInv, TypeInv, TypeOK, Message, NothingFails
      <3> QED
        BY <1>1, <1>2, <2>1, <3>1 DEF ReadysSpread
    <2>5. \A t \in Correct : ks'[t].stored <=> Cardinality(ks'[t].ready_set) >= StoreThreshold
      BY <1>1, <1>4 DEF ReadysSpread
    <2>6. \A t \in Correct : Announced(t)' => \A u \in Correct : ks'[u].verified
      BY <1>1, <1>4, <2>1 DEF ReadysSpread
    <2>7. \A t \in Correct : Announced(t)' => \A u \in Correct \ {t} : ReadyReaches(t, u)'
      BY <1>1, <2>1, <2>2 DEF ReadysSpread
    <2> QED
      BY <1>11, <2>3, <2>4, <2>5, <2>6, <2>7 DEF ReadysSpread
  <1>13. PutArrives'
    <2>1. ASSUME NEW t \in Correct, NEW q \in requests, q.to = t, t # s
          PROVE  q \in requests'
      BY <1>2, <2>1 DEF s
    <2> QED
      BY <1>1, <1>2, <1>4, <2>1 DEF PutArrives
  <1> QED
    BY <1>10, <1>12, <1>13

LEMMA EchoKeepsPut ==
  ASSUME NothingFails, PutInv, NEW m \in echoes, ReceiveEcho(m)
  PROVE  EchoesSpread' /\ ReadysSpread' /\ PutArrives'
  <1> DEFINE s == m.to
  <1>1. /\ m \in Message /\ TypeInv /\ EchoesSpread /\ ReadysSpread /\ PutArrives
        /\ \A t \in Correct : ks[t].echo_set \subseteq Correct /\ ks[t].ready_set \subseteq Correct
        /\ m.from \in Correct /\ s \in Correct
        /\ m.from # s /\ ks[m.from].verified
    BY DEF PutInv, TypeInv, TypeOK, KeyState, Message, NothingFails, EchoesSpread
  <1>2. /\ \A t \in Correct \ {s} : ks'[t] = ks[t]
        /\ ks'[s].fragment = ks[s].fragment /\ ks'[s].verified = ks[s].verified
        /\ ks'[s].stored = ks[s].stored /\ ks'[s].ready_set = ks[s].ready_set
        /\ ks'[s].echo_set = ks[s].echo_set \cup {m.from}
    BY <1>1, EchoStep
  <1>3. /\ ks'[s] \in KeyState /\ ks'[s].echoed = ks[s].echoed
        /\ ks[s].ready_sent => ks'[s].ready_sent
        /\ ks'[s].ready_sent /\ ~ks[s].ready_sent =>
                ks[s].verified /\ (EnoughEchos(ks'[s]) \/ EnoughReadys(ks'[s]))
        /\ ks'[s].verified /\ (EnoughEchos(ks'[s]) \/ EnoughReadys(ks'[s]))
                => ks'[s].ready_sent
        /\ readys \subseteq readys' /\ Announces(s)
        /\ echoes' = echoes \ {m} /\ requests' = requests /\ budget' = budget
    BY <1>1, EchoVotes
  <1> HIDE DEF s
  <1>4. \A t \in Correct : /\ ks'[t].verified = ks[t].verified
                           /\ ks'[t].echoed = ks[t].echoed
                           /\ ks'[t].fragment = ks[t].fragment
                           /\ ks'[t].ready_set = ks[t].ready_set
                           /\ ks'[t].stored = ks[t].stored
                           /\ ks[t].ready_sent => ks'[t].ready_sent
                           /\ ks[t].echo_set \subseteq ks'[t].echo_set
    BY <1>2, <1>3
  <1>5. ASSUME NEW t \in Correct, NEW u \in Correct \ {t}, EchoReaches(t, u)
        PROVE  EchoReaches(t, u)'
    <2>1. CASE t \in ks[u].echo_set
      BY <1>4, <2>1 DEF EchoReaches
    <2>2. ASSUME NEW e \in echoes, e.from = t, e.to = u PROVE EchoReaches(t, u)'
      <3>1. CASE e = m
        BY <1>2, <2>2, <3>1 DEF EchoReaches, s
      <3>2. CASE e # m
        BY <1>3, <2>2, <3>2 DEF EchoReaches
      <3> QED
        BY <3>1, <3>2
    <2> QED
      BY <1>5, <2>1, <2>2 DEF EchoReaches
  <1>6. \A t \in Correct : \A u \in ks'[t].echo_set : u # t /\ u \in Correct /\ ks[u].verified
    BY <1>1, <1>2 DEF EchoesSpread
  <1>7. ~Owes(s)'
    BY <1>3 DEF Owes
  <1>8. \A t \in Correct \ {s} : Owes(t)' <=> Owes(t)
    BY <1>2 DEF Owes
  <1>9. EchoesSpread'
    <2>1. \A t \in Correct : ks'[t].verified =>
             ks'[t].fragment # None /\ \A u \in Correct \ {t} : EchoReaches(t, u)'
      BY <1>1, <1>4, <1>5 DEF EchoesSpread
    <2>2. \A t \in Correct : \A u \in ks'[t].echo_set : u # t /\ ks'[u].verified
      BY <1>4, <1>6
    <2>3. \A t \in Correct : Owes(t)' =>
             \A u \in Correct \ {t} : ks'[u].verified /\ ~Owes(u)'
      BY <1>1, <1>4, <1>7, <1>8 DEF EchoesSpread
    <2>4. \A e \in echoes' : e.from # e.to /\ ks'[e.from].verified
      <3>1. \A e \in echoes : e.from \in Correct
        BY DEF PutInv, TypeInv, TypeOK, Message, NothingFails
      <3> QED
        BY <1>1, <1>3, <1>4, <3>1 DEF EchoesSpread
    <2>5. \A t \in Correct : ks'[t].verified <=> ks'[t].echoed
      BY <1>1, <1>4 DEF EchoesSpread
    <2> QED
      BY <2>1, <2>2, <2>3, <2>4, <2>5 DEF EchoesSpread
  <1>10. ASSUME ks'[s].ready_sent, ~ks[s].ready_sent
         PROVE  \A t \in Correct : ks[t].verified
    <2>1. \A t \in ks'[s].ready_set : Announced(t)
      BY <1>1, <1>2 DEF ReadysSpread
    <2> QED
      BY <1>1, <1>3, <1>6, <1>10, <2>1, WhoeverSends
  <1>11. ReadysSpread'
    <2>1. \A t \in Correct : ks'[t].verified /\ EnoughReadys(ks'[t]) => ks'[t].ready_sent
      BY <1>1, <1>2, <1>3 DEF ReadysSpread
    <2>2. \A t \in Correct : Announced(t) => Announced(t)'
      BY <1>4 DEF Announced
    <2>3. \A t \in Correct : \A u \in ks'[t].ready_set : Announced(u)'
      BY <1>1, <1>4, <2>2 DEF ReadysSpread
    <2>4. ASSUME NEW t \in Correct, Announced(t)', ~Announced(t) PROVE t = s
      BY <1>2, <2>4 DEF Announced
    <2>5. \A t \in Correct : Announced(t)' => \A u \in Correct : ks'[u].verified
      BY <1>1, <1>4, <1>10, <2>4 DEF ReadysSpread, Announced
    <2>6. ASSUME NEW t \in Correct, Announced(t)', NEW u \in Correct \ {t}
          PROVE  ReadyReaches(t, u)'
      <3>1. CASE Announced(t)
        BY <1>1, <1>3, <1>4, <3>1 DEF ReadysSpread, ReadyReaches
      <3>2. CASE ~Announced(t)
        BY <1>3, <2>4, <2>6, <3>2 DEF Announces, Announced, ReadyReaches
      <3> QED
        BY <3>1, <3>2
    <2>7. \A e \in readys' : Announced(e.from)'
      <3>1. \A e \in readys : e.from \in Correct
        BY DEF PutInv, TypeInv, TypeOK, Message, NothingFails
      <3> QED
        BY <1>1, <1>3, <2>2, <3>1 DEF ReadysSpread, Announces, Announced
    <2>8. \A t \in Correct : ks'[t].stored <=> Cardinality(ks'[t].ready_set) >= StoreThreshold
      BY <1>1, <1>4 DEF ReadysSpread
    <2> QED
      BY <2>1, <2>3, <2>5, <2>6, <2>7, <2>8 DEF ReadysSpread
  <1>12. PutArrives'
    BY <1>1, <1>3, <1>4 DEF PutArrives
  <1> QED
    BY <1>9, <1>11, <1>12

LEMMA ReadyKeepsPut ==
  ASSUME NothingFails, PutInv, NEW m \in readys, ReceiveReady(m)
  PROVE  EchoesSpread' /\ ReadysSpread' /\ PutArrives'
  <1> DEFINE s == m.to
  <1>1. /\ m \in Message /\ TypeInv /\ EchoesSpread /\ ReadysSpread /\ PutArrives
        /\ m.from \in Correct /\ s \in Correct /\ Announced(m.from)
        /\ \A t \in Correct : ks[t] \in KeyState
    BY DEF PutInv, TypeInv, TypeOK, Message, NothingFails, ReadysSpread
  <1>2. /\ \A t \in Correct \ {s} : ks'[t] = ks[t]
        /\ ks'[s].fragment = ks[s].fragment /\ ks'[s].verified = ks[s].verified
        /\ ks'[s].echo_set = ks[s].echo_set
        /\ ks'[s].ready_set = ks[s].ready_set \cup {m.from}
        /\ \/ Commits(AfterReady(m)) /\ ks'[s].stored
           \/ ~Commits(AfterReady(m)) /\ ks'[s].stored = ks[s].stored
    BY <1>1, ReadyStep
  <1>3. /\ ks'[s] \in KeyState /\ ks'[s].echoed = ks[s].echoed
        /\ ks[s].ready_sent => ks'[s].ready_sent
        /\ ks'[s].verified /\ (EnoughEchos(ks'[s]) \/ EnoughReadys(ks'[s]))
                => ks'[s].ready_sent
        /\ readys \ {m} \subseteq readys' /\ Announces(s)
        /\ Commits(AfterReady(m)) <=>
                /\ ~ks[s].stored /\ ks[s].fragment # None
                /\ Cardinality(ks'[s].ready_set) >= StoreThreshold
        /\ echoes' = echoes /\ requests' = requests /\ budget' = budget
    BY <1>1, ReadyVotes
  <1> HIDE DEF s
  <1>4. \A t \in Correct : ks[t].verified /\ ks[t].fragment # None
    BY <1>1 DEF ReadysSpread, EchoesSpread
  <1>5. \A t \in Correct : /\ ks'[t].verified /\ ks'[t].echoed = ks[t].echoed
                           /\ ks'[t].fragment = ks[t].fragment
                           /\ ks'[t].echo_set = ks[t].echo_set
                           /\ ks[t].ready_sent => ks'[t].ready_sent
                           /\ ks[t].ready_set \subseteq ks'[t].ready_set
    BY <1>2, <1>3, <1>4
  <1>6. EchoesSpread'
    <2>1. ~Owes(s)' /\ \A t \in Correct \ {s} : Owes(t)' <=> Owes(t)
      BY <1>2, <1>3 DEF Owes
    <2>2. \A t, u \in Correct : EchoReaches(t, u) => EchoReaches(t, u)'
      BY <1>3, <1>5 DEF EchoReaches
    <2>3. \A e \in echoes' : e.from # e.to /\ ks'[e.from].verified
      <3>1. \A e \in echoes : e.from \in Correct
        BY DEF PutInv, TypeInv, TypeOK, Message, NothingFails
      <3> QED
        BY <1>1, <1>3, <1>5, <3>1 DEF EchoesSpread
    <2>4. \A t \in Correct : \A u \in ks'[t].echo_set : u # t /\ ks'[u].verified
      <3>1. \A t \in Correct : ks[t].echo_set \subseteq Correct
        BY <1>1 DEF KeyState, NothingFails
      <3> QED
        BY <1>1, <1>5, <3>1 DEF EchoesSpread
    <2>5. \A t \in Correct : Owes(t)' =>
             \A u \in Correct \ {t} : ks'[u].verified /\ ~Owes(u)'
      BY <1>1, <1>5, <2>1 DEF EchoesSpread
    <2>6. \A t \in Correct : ks'[t].verified <=> ks'[t].echoed
      BY <1>1, <1>4, <1>5 DEF EchoesSpread
    <2>7. \A t \in Correct : ks'[t].verified =>
             ks'[t].fragment # None /\ \A u \in Correct \ {t} : EchoReaches(t, u)'
      BY <1>1, <1>4, <1>5, <2>2 DEF EchoesSpread
    <2> QED
      BY <2>3, <2>4, <2>5, <2>6, <2>7 DEF EchoesSpread
  <1>7. ReadysSpread'
    <2>1. \A t \in Correct : ks'[t].verified /\ EnoughReadys(ks'[t]) => ks'[t].ready_sent
      BY <1>1, <1>2, <1>3 DEF ReadysSpread
    <2>2. \A t \in Correct : Announced(t) => Announced(t)'
      BY <1>5 DEF Announced
    <2>3. \A t \in Correct : \A u \in ks'[t].ready_set : Announced(u)'
      <3>1. \A t \in Correct : ks[t].ready_set \subseteq Correct
        BY <1>1 DEF KeyState, NothingFails
      <3> QED
        BY <1>1, <1>2, <2>2, <3>1 DEF ReadysSpread
    <2>4. ASSUME NEW t \in Correct, Announced(t)', ~Announced(t) PROVE t = s
      BY <1>2, <2>4 DEF Announced
    <2>5. ASSUME NEW t \in Correct, NEW u \in Correct \ {t}, ReadyReaches(t, u)
          PROVE  ReadyReaches(t, u)'
      <3>1. CASE t \in ks[u].ready_set
        BY <1>5, <3>1 DEF ReadyReaches
      <3>2. ASSUME NEW e \in readys, e.from = t, e.to = u PROVE ReadyReaches(t, u)'
        <4>1. CASE e = m
          BY <1>2, <3>2, <4>1 DEF ReadyReaches, s
        <4>2. CASE e # m
          BY <1>3, <3>2, <4>2 DEF ReadyReaches
        <4> QED
          BY <4>1, <4>2
      <3> QED
        BY <2>5, <3>1, <3>2 DEF ReadyReaches
    <2>6. ASSUME NEW t \in Correct, Announced(t)', NEW u \in Correct \ {t}
          PROVE  ReadyReaches(t, u)'
      <3>1. CASE Announced(t)
        BY <1>1, <2>5, <3>1 DEF ReadysSpread
      <3>2. CASE ~Announced(t)
        BY <1>3, <2>4, <2>6, <3>2 DEF Announces, Announced, ReadyReaches
      <3> QED
        BY <3>1, <3>2
    <2>7. \A e \in readys' : Announced(e.from)'
      <3>1. \A e \in readys : e.from \in Correct
        BY DEF PutInv, TypeInv, TypeOK, Message, NothingFails
      <3> QED
        BY <1>1, <1>3, <2>2, <3>1 DEF ReadysSpread, Announces, Announced
    <2>8. ASSUME NEW t \in Correct
          PROVE  ks'[t].stored <=> Cardinality(ks'[t].ready_set) >= StoreThreshold
      <3>1. CASE t # s
        BY <1>1, <1>2, <3>1 DEF ReadysSpread
      <3>2. CASE t = s
        <4>1. ks[s].stored => Cardinality(ks[s].ready_set) >= StoreThreshold
          BY <1>1 DEF ReadysSpread
        <4>2. /\ Cardinality(ks[s].ready_set) <= Cardinality(ks'[s].ready_set)
              /\ Cardinality(ks[s].ready_set) \in Nat /\ Cardinality(ks'[s].ready_set) \in Nat
          <5>1. ks[s].ready_set \subseteq ks'[s].ready_set /\ ks'[s].ready_set \subseteq Server
            BY <1>1, <1>3, <1>5 DEF KeyState
          <5> QED
            BY <5>1, ClusterSize, FS_Subset, FS_CardinalityType
        <4>3. StoreThreshold \in Nat
          BY ClusterSize DEF StoreThreshold
        <4>4. ks[s].stored => Cardinality(ks'[s].ready_set) >= StoreThreshold
          BY <4>1, <4>2, <4>3
        <4> QED
          BY <1>1, <1>2, <1>3, <1>4, <3>2, <4>4
      <3> QED
        BY <3>1, <3>2
    <2>9. \A t \in Correct : Announced(t)' => \A u \in Correct : ks'[u].verified
      BY <1>5
    <2> QED
      BY <2>1, <2>3, <2>6, <2>7, <2>8, <2>9 DEF ReadysSpread
  <1>8. PutArrives'
    BY <1>3, <1>5 DEF PutArrives
  <1> QED
    BY <1>6, <1>7, <1>8

LEMMA NextPutInv ==
  ASSUME NothingFails
  PROVE  PutInv /\ [Next]_vars => PutInv'
  <1> SUFFICES ASSUME PutInv, [Next]_vars PROVE PutInv'
    OBVIOUS
  <1>1. /\ TypeInv /\ TypeInv' /\ up = Correct /\ up' = up /\ NoFaultLeft /\ NoFaultLeft'
    BY NextTypeInv, FaultlessStep DEF PutInv
  <1>2. EchoesSpread' /\ ReadysSpread' /\ PutArrives'
    <2>1. ASSUME NEW v \in Version, Put(v)
          PROVE  EchoesSpread' /\ ReadysSpread' /\ PutArrives'
      <3>1. /\ ks' = ks /\ echoes' = echoes /\ readys' = readys
            /\ requests' = requests \cup [to : Correct, ver : {v}]
        BY <2>1 DEF Put
      <3>2. EchoesSpread' /\ ReadysSpread'
        BY <3>1 DEF PutInv, EchoesSpread, ReadysSpread, EchoReaches, ReadyReaches, Owes, Announced
      <3>3. ASSUME NEW s \in Correct PROVE \E r \in requests' : r.to = s
        <4> DEFINE r == [to |-> s, ver |-> v]
        <4>1. r \in requests' /\ r.to = s
          BY <3>1
        <4> QED
          BY <4>1
      <3> QED
        BY <3>2, <3>3 DEF PutArrives
    <2>2. CASE UNCHANGED vars
      BY <2>2 DEF vars, net, PutInv, EchoesSpread, ReadysSpread, PutArrives, EchoReaches,
                  ReadyReaches, Owes, Announced
    <2> QED
      BY <1>1, <2>1, <2>2, FaultlessStep, AllPeers, DisperseKeepsPut, EchoKeepsPut, ReadyKeepsPut
      DEF CallStep
  <1> QED
    BY <1>1, <1>2 DEF PutInv

LEMMA InitPutInv ==
  ASSUME NothingFails
  PROVE  Init => PutInv
  <1> SUFFICES ASSUME Init PROVE PutInv
    OBVIOUS
  <1>1. ASSUME NEW s \in Correct
        PROVE  /\ ~ks[s].verified /\ ~ks[s].echoed /\ ~ks[s].ready_sent /\ ~ks[s].stored
               /\ ks[s].echo_set = {} /\ ks[s].ready_set = {}
    BY DEF Init, EmptyKeyState
  <1>2. echoes = {} /\ readys = {} /\ budget = Budget /\ up = Correct
    BY DEF Init
  <1>3. EchoesSpread
    BY <1>1, <1>2 DEF EchoesSpread, Owes
  <1>4. ReadysSpread
    BY <1>1, <1>2, AllPeers DEF ReadysSpread, Announced
  <1> QED
    BY <1>2, <1>3, <1>4, InitTypeInv DEF PutInv, PutArrives, NoFaultLeft, NothingFails

LEMMA PutIsDone == ASSUME NothingFails, PutInv PROVE PutsAreStored
  <1> SUFFICES ASSUME Quiet, budget["put"] # Budget["put"], NEW u \in Correct
               PROVE  ks[u].stored
    BY DEF PutsAreStored
  <1>1. /\ EchoesSpread /\ ReadysSpread /\ PutArrives
        /\ requests = {} /\ echoes = {} /\ readys = {}
        /\ \A s \in Correct : /\ ks[s].echo_set \in SUBSET Correct
                              /\ ks[s].ready_set \in SUBSET Server
    BY DEF PutInv, TypeInv, TypeOK, KeyState, Quiet, NothingFails
  <1>2. \A s \in Correct : ks[s].verified
    BY <1>1 DEF PutArrives
  <1>3. ASSUME NEW s \in Correct PROVE EnoughEchos(ks[s])
    <2>1. Correct \ {s} \subseteq ks[s].echo_set
      BY <1>1, <1>2 DEF EchoesSpread, EchoReaches
    <2>2. ks[s].echo_set = Correct \ {s}
      BY <1>1, <2>1 DEF EchoesSpread
    <2> QED
      BY <2>2, AllPeers DEF EnoughEchos
  <1>4. \A s \in Correct : ~Announced(s) => Owes(s)
    BY <1>2, <1>3 DEF Owes, Announced
  <1>5. ASSUME NEW s \in Correct PROVE Announced(s)
    <2> SUFFICES ASSUME ~Announced(s) PROVE FALSE
      OBVIOUS
    <2>1. \A t \in Correct \ {s} : Announced(t)
      BY <1>1, <1>4 DEF EchoesSpread
    <2>2. Correct \ {s} \subseteq ks[s].ready_set
      BY <1>1, <2>1 DEF ReadysSpread, ReadyReaches
    <2>3. EnoughReadys(ks[s])
      BY <1>1, <2>2, AllPeers DEF EnoughReadys
    <2> QED
      BY <1>1, <1>2, <2>3 DEF ReadysSpread, Announced
  <1>6. Correct \ {u} \subseteq ks[u].ready_set
    BY <1>1, <1>5 DEF ReadysSpread, ReadyReaches
  <1> QED
    BY <1>1, <1>6, AllPeers DEF ReadysSpread

(* With f = 1, every server up, every fragment good and no call lost, a put    *)
(* never comes to rest unfinished: whatever order the calls are handled in,    *)
(* once none is on its way every server has stored the key. This is the half   *)
(* of PutIsStored that needs no fairness, for every n >= 4.                    *)
THEOREM PutsAreStoredCorrect ==
  ASSUME NothingFails
  PROVE  Spec => []PutsAreStored
  <1>1. PutInv => PutsAreStored
    BY PutIsDone
  <1> QED
    BY <1>1, InitPutInv, NextPutInv, PTL DEF Spec
=============================================================================
