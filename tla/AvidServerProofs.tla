-------------------------- MODULE AvidServerProofs --------------------------
(***************************************************************************)
(* Theorems about AvidServer, for every cluster, every set of contents and *)
(* every bound.                                                            *)
(***************************************************************************)
EXTENDS AvidServer, TLAPS, FiniteSetTheorems

-----------------------------------------------------------------------------
(* Operators on one KeyState keep its type                                 *)

LEMMA FragmentType ==
    /\ \A v \in Version : FragmentOf(v) \in Fragment
    /\ \A fragment \in Fragment, x \in Mask : Toggle(fragment, x) \in Fragment
    /\ \A fragment \in Fragment, x \in Mask :
           Toggle(fragment, x).ver = fragment.ver
  BY DEF FragmentOf, Fragment, Mask, Toggle

LEMMA EmptyType == EmptyKeyState \in KeyState
  BY DEF EmptyKeyState, KeyState

LEMMA HoldType ==
  ASSUME NEW k \in KeyState, NEW v \in Version
  PROVE  Hold(k, v) \in KeyState
  BY FragmentType DEF Hold, KeyState

LEMMA SendType ==
  ASSUME NEW k \in KeyState
  PROVE  _maybe_send_ready(k) \in KeyState
  BY DEF _maybe_send_ready, KeyState

LEMMA DisperseType ==
  ASSUME NEW k \in KeyState, NEW v \in Version
  PROVE  [Hold(k, v) EXCEPT !.verified = TRUE, !.echoed = TRUE] \in KeyState
  BY HoldType DEF KeyState

LEMMA TamperedType ==
  ASSUME NEW k \in KeyState, k.fragment # None, NEW x \in Mask
  PROVE  /\ Tampered(k, x) \in KeyState
         /\ Tampered(k, x).fragment = Toggle(k.fragment, x)
         /\ Tampered(k, x).fragment \in Fragment
         /\ Tampered(k, x).fragment.ver = k.fragment.ver
         /\ Tampered(k, x).fpcc = k.fpcc
         /\ Tampered(k, x).stored = k.stored
  BY FragmentType DEF Tampered, KeyState

LEMMA MessageType ==
  /\ FromByzantine \subseteq Message
  /\ \A s \in Correct, d \in Version : Broadcast(s, d) \subseteq Message
  BY ServerAssumption DEF FromByzantine, Message, Broadcast

LEMMA SpendType ==
  ASSUME TypeOK, NEW kind \in Kind, Spend(kind)
  PROVE  budget' \in [Kind -> Nat]
  BY DEF TypeOK, Spend

LEMMA ReceiveType ==
  ASSUME TypeOK, NEW m \in Message
  PROVE  /\ AfterEcho(m) \in KeyState
         /\ AfterReady(m) \in KeyState
         /\ OrElse(AfterReady(m).fpcc_digest, m.digest) \in Version
         /\ AfterReady(m).fragment = ks[m.to].fragment
         /\ AfterReady(m).fpcc = ks[m.to].fpcc
  <1>1. ks[m.to] \in KeyState /\ m.from \in Server /\ m.digest \in Version
    BY DEF TypeOK, Message
  <1> QED
    BY <1>1 DEF AfterEcho, AfterReady, OrElse, KeyState

-----------------------------------------------------------------------------
(* Type correctness. A commit writes the fragment and the FPCC of the      *)
(* KeyState, so the file is well formed only because a server that has a   *)
(* fragment has its FPCC too.                                              *)

HeldTogether == \A s \in Correct : ks[s].fragment # None => ks[s].fpcc # None

TypeInv == TypeOK /\ HeldTogether

LEMMA InitTypeInv == Init => TypeInv
  BY EmptyType, BudgetAssumption
  DEF Init, TypeInv, TypeOK, HeldTogether, EmptyKeyState

LEMMA CommitType ==
  ASSUME TypeInv, NEW m \in Message, Commits(AfterReady(m))
  PROVE  [fragment |-> AfterReady(m).fragment, fpcc |-> AfterReady(m).fpcc] \in File
  <1>1. AfterReady(m) \in KeyState
    BY ReceiveType DEF TypeInv
  <1>2. AfterReady(m).fragment # None /\ AfterReady(m).fpcc # None
    BY ReceiveType DEF TypeInv, HeldTogether, Commits, Message
  <1> QED
    BY <1>1, <1>2 DEF KeyState, File

LEMMA NextTypeInv == TypeInv /\ [Next]_vars => TypeInv'
  <1> SUFFICES ASSUME TypeInv, [Next]_vars PROVE TypeInv'
    OBVIOUS
  <1> USE DEF TypeInv
  <1>1. ASSUME NEW v \in Version, Put(v) PROVE TypeInv'
    <2>1. requests' \subseteq Request
      BY <1>1 DEF Put, TypeOK, Request
    <2> QED
      BY <1>1, <2>1, SpendType DEF Put, TypeOK, HeldTogether, Kind, history
  <1>2. ASSUME NEW r \in requests, Disperse(r) PROVE TypeInv'
    <2> DEFINE s == r.to
               v == r.ver
    <2>1. s \in Correct /\ v \in Version /\ ks[s] \in KeyState
      BY DEF TypeOK, Request
    <2>2. UNCHANGED <<disk, up, readys, budget, disturbed>> /\ requests' \subseteq requests
      BY <1>2 DEF Disperse
    <2>3. CASE DisperseAlreadyStored(s, v)
      BY <2>2, <2>3 DEF DisperseAlreadyStored, TypeOK, HeldTogether
    <2>4. CASE DisperseInvalid(s, v)
      <3>1. Hold(ks[s], v) \in KeyState /\ Hold(ks[s], v).fpcc # None
        BY <2>1, HoldType, NoneAssumption DEF Hold, KeyState
      <3> QED
        BY <2>1, <2>2, <2>4, <3>1 DEF DisperseInvalid, TypeOK, HeldTogether
    <2>5. CASE DisperseAccepted(s, v)
      <3> DEFINE k == [Hold(ks[s], v) EXCEPT !.verified = TRUE, !.echoed = TRUE]
      <3>1. k \in KeyState /\ k.fpcc # None
        BY <2>1, DisperseType, NoneAssumption DEF Hold, KeyState
      <3>2. ks' = [ks EXCEPT ![s] = k]
        BY <2>5 DEF DisperseAccepted
      <3>3. echoes' \subseteq Message /\ accepted' \subseteq Correct
        BY <2>1, <2>5, MessageType DEF DisperseAccepted, TypeOK
      <3> HIDE DEF k
      <3> QED
        BY <2>1, <2>2, <3>1, <3>2, <3>3 DEF TypeOK, HeldTogether
    <2> QED
      BY <1>2, <2>3, <2>4, <2>5 DEF Disperse
  <1>3. ASSUME NEW m \in Message, ReceiveEcho(m) PROVE TypeInv'
    <2> DEFINE k == _maybe_send_ready(AfterEcho(m))
    <2>1. m.to \in Correct /\ ks[m.to] \in KeyState /\ m.digest \in Version
      BY DEF Message, TypeOK
    <2>2. k \in KeyState
      BY ReceiveType, SendType
    <2>3. k.fragment = ks[m.to].fragment /\ k.fpcc = ks[m.to].fpcc
      BY <2>1 DEF AfterEcho, _maybe_send_ready, KeyState
    <2>4. ks' = [ks EXCEPT ![m.to] = k]
      BY <1>3 DEF ReceiveEcho
    <2>5. readys' \subseteq Message /\ echoes' \subseteq Message
      BY <1>3, <2>1, MessageType DEF ReceiveEcho, TypeOK
    <2>6. UNCHANGED <<disk, up, requests, budget, history>>
      BY <1>3 DEF ReceiveEcho
    <2> HIDE DEF k
    <2> QED
      BY <2>1, <2>2, <2>3, <2>4, <2>5, <2>6 DEF TypeOK, HeldTogether, history
  <1>4. ASSUME NEW m \in Message, ReceiveReady(m) PROVE TypeInv'
    <2> DEFINE k == AfterReady(m)
               sent == _maybe_send_ready(k)
    <2>1. m.to \in Correct /\ ks[m.to] \in KeyState /\ m.digest \in Version
      BY DEF Message, TypeOK
    <2>2. sent \in KeyState /\ [sent EXCEPT !.stored = TRUE] \in KeyState
      <3>1. sent \in KeyState
        BY ReceiveType, SendType
      <3> QED
        BY <3>1 DEF KeyState
    <2>3. /\ sent.fragment = ks[m.to].fragment
          /\ sent.fpcc = ks[m.to].fpcc
      BY <2>1 DEF AfterReady, _maybe_send_ready, KeyState
    <2>4. PICK k2 \in {sent, [sent EXCEPT !.stored = TRUE]} : ks' = [ks EXCEPT ![m.to] = k2]
      BY <1>4 DEF ReceiveReady
    <2>5. k2 \in KeyState /\ k2.fragment = ks[m.to].fragment /\ k2.fpcc = ks[m.to].fpcc
      BY <2>2, <2>3 DEF KeyState
    <2>6. disk' \in [Correct -> File \cup {None, Torn}]
      <3>1. CASE Commits(k)
        BY <1>4, <2>1, <3>1, CommitType DEF ReceiveReady, TypeOK
      <3>2. CASE ~Commits(k)
        BY <1>4, <3>2 DEF ReceiveReady, TypeOK
      <3> QED
        BY <3>1, <3>2
    <2>7. readys' \subseteq Message
      BY <1>4, <2>1, MessageType, ReceiveType DEF ReceiveReady, TypeOK
    <2>8. UNCHANGED <<up, requests, echoes, budget, history>>
      BY <1>4 DEF ReceiveReady
    <2> HIDE DEF k, sent
    <2> QED
      BY <2>1, <2>4, <2>5, <2>6, <2>7, <2>8 DEF TypeOK, HeldTogether, history
  <1>5. CASE Lose
    <2>1. budget' \in [Kind -> Nat]
      BY <1>5, SpendType DEF Lose, Lost, Kind, TypeOK
    <2>2. /\ requests' \subseteq requests
          /\ echoes' \subseteq echoes
          /\ readys' \subseteq readys
          /\ UNCHANGED <<ks, disk, up, history>>
      BY <1>5 DEF Lose
    <2> QED
      BY <2>1, <2>2 DEF TypeOK, HeldTogether, history
  <1>6. ASSUME NEW s \in Correct, Crash(s) PROVE TypeInv'
    BY <1>6, EmptyType, SpendType
    DEF Crash, Halt, TypeOK, HeldTogether, Kind, net, EmptyKeyState
  <1>7. ASSUME NEW m \in Message, CrashInStore(m) PROVE TypeInv'
    <2>1. m.to \in Correct
      BY DEF Message
    <2> QED
      BY <1>7, <2>1, EmptyType, SpendType
      DEF CrashInStore, Halt, TypeOK, HeldTogether, Kind, EmptyKeyState
  <1>8. ASSUME NEW s \in Correct, Restart(s) PROVE TypeInv'
    BY <1>8 DEF Restart, TypeOK, HeldTogether, net, history
  <1>9. ASSUME NEW s \in Correct, Lie(s) PROVE TypeInv'
    <2> DEFINE k == Loaded(s)
    <2>1. ks[s] \in KeyState
      BY DEF TypeOK
    <2>2. k \in KeyState /\ k.fragment # None /\ k.fpcc # None
      <3>1. CASE Serving(ks[s])
        BY <2>1, <3>1 DEF Loaded, Serving, KeyState, HeldTogether
      <3>2. CASE ~Serving(ks[s])
        <4>1. disk[s] \in File
          BY <1>9, <3>2 DEF Lie
        <4> QED
          BY <2>1, <3>2, <4>1, NoneAssumption DEF Loaded, KeyState, File
      <3> QED
        BY <3>1, <3>2
    <2>3. ks' = [ks EXCEPT ![s] = Tampered(k, "lie")]
      BY <1>9 DEF Lie
    <2> HIDE DEF k
    <2>4. Tampered(k, "lie") \in KeyState /\ Tampered(k, "lie").fpcc # None
      BY <2>2, TamperedType DEF Mask
    <2> QED
      BY <1>9, <2>3, <2>4, SpendType DEF Lie, Inject, TypeOK, HeldTogether, Kind, net
  <1>10. ASSUME NEW s \in Correct, Corrupt(s) PROVE TypeInv'
    <2> DEFINE k == Tampered(ks[s], "corrupt")
               k2 == [k EXCEPT !.stored = FALSE, !.verified = FALSE]
    <2>1. ks[s] \in KeyState /\ ks[s].fragment # None /\ ks[s].fpcc # None
      BY <1>10 DEF Corrupt, Serving, TypeOK, HeldTogether
    <2>2. k \in KeyState /\ k.fpcc # None
      BY <2>1, TamperedType DEF Mask
    <2>3. ks' = [ks EXCEPT ![s] = k2]
      BY <1>10 DEF Corrupt
    <2> HIDE DEF k
    <2>4. k2 \in KeyState /\ k2.fpcc # None
      BY <2>2 DEF KeyState
    <2> HIDE DEF k2
    <2> QED
      BY <1>10, <2>3, <2>4, SpendType DEF Corrupt, Inject, TypeOK, HeldTogether, Kind, net
  <1>11. ASSUME NEW s \in Correct, Reset(s) PROVE TypeInv'
    BY <1>11, EmptyType, SpendType
    DEF Reset, Inject, TypeOK, HeldTogether, Kind, net, EmptyKeyState
  <1>12. CASE UNCHANGED vars
    BY <1>12 DEF vars, net, history, TypeOK, HeldTogether
  <1>13. echoes \subseteq Message /\ readys \subseteq Message
    BY DEF TypeOK
  <1> QED
    BY <1>1, <1>2, <1>3, <1>4, <1>5, <1>6, <1>7, <1>8, <1>9, <1>10, <1>11, <1>12,
       <1>13, MessageType
    DEF Next, Deliver, DeliverByzantine, Faults

(* Every reachable state is well typed: in particular every file that a    *)
(* server writes is a fragment together with its FPCC.                     *)
THEOREM TypeCorrect == Spec => []TypeOK
  <1>1. TypeInv => TypeOK
    BY DEF TypeInv
  <1> QED
    BY <1>1, InitTypeInv, NextTypeInv, PTL DEF Spec

(* ... which also holds of every KeyState in memory.                       *)
THEOREM HeldTogetherCorrect == Spec => []TypeInv
  BY InitTypeInv, NextTypeInv, PTL DEF Spec

-----------------------------------------------------------------------------
(* Memory and disk agree. A server that says stored has a fragment, so     *)
(* /retrieve, /lie and /corrupt all take the branch that serves memory.    *)

StoredHasFragment == \A s \in Correct : ks[s].stored => ks[s].fragment # None

MemoryInv == TypeInv /\ StoredHasFragment /\ MemoryMatchesDisk

LEMMA LieKeepsObject ==
  ASSUME NEW k \in KeyState, k.fragment # None, NEW file, SameObject(k, file)
  PROVE  SameObject(Tampered(k, "lie"), file)
  <1>1. k.fragment \in Fragment
    BY DEF KeyState
  <1>2. Toggle(k.fragment, "lie").mask \ {"lie"} = k.fragment.mask \ {"lie"}
    BY <1>1 DEF Toggle, Fragment
  <1> QED
    BY <1>2, TamperedType DEF SameObject, Mask

(* The KeyState that a READY leaves behind has the fragment it found.      *)
LEMMA ReadyStep ==
  ASSUME TypeInv, NEW m \in Message, ReceiveReady(m)
  PROVE  /\ m.to \in Correct
         /\ \A t \in Correct \ {m.to} : ks'[t] = ks[t] /\ disk'[t] = disk[t]
         /\ ks'[m.to].fragment = ks[m.to].fragment
         /\ ks'[m.to].fpcc = ks[m.to].fpcc
         /\ ks'[m.to].verified = ks[m.to].verified
         /\ ks'[m.to].echo_set = ks[m.to].echo_set
         /\ ks'[m.to].ready_set = ks[m.to].ready_set \cup {m.from}
         /\ \/ /\ Commits(AfterReady(m))
               /\ ks'[m.to].stored
               /\ disk'[m.to] = [fragment |-> ks[m.to].fragment, fpcc |-> ks[m.to].fpcc]
            \/ /\ ~Commits(AfterReady(m))
               /\ ks'[m.to].stored = ks[m.to].stored
               /\ disk'[m.to] = disk[m.to]
  <1> DEFINE k == AfterReady(m)
             sent == _maybe_send_ready(k)
  <1>1. m.to \in Correct /\ ks[m.to] \in KeyState
    BY DEF Message, TypeInv, TypeOK
  <1>2. ks \in [Correct -> KeyState] /\ disk \in [Correct -> File \cup {None, Torn}]
    BY DEF TypeInv, TypeOK
  <1>3. sent \in KeyState
    BY ReceiveType, SendType DEF TypeInv
  <1>4. k \in KeyState /\ k.fragment = ks[m.to].fragment /\ k.fpcc = ks[m.to].fpcc
    BY ReceiveType DEF TypeInv
  <1>5. /\ sent.fragment = ks[m.to].fragment
        /\ sent.fpcc = ks[m.to].fpcc
        /\ sent.verified = ks[m.to].verified
        /\ sent.echo_set = ks[m.to].echo_set
        /\ sent.ready_set = ks[m.to].ready_set \cup {m.from}
        /\ sent.stored = ks[m.to].stored
    BY <1>1 DEF AfterReady, _maybe_send_ready, KeyState
  <1>6. CASE Commits(k)
    <2>1. /\ ks' = [ks EXCEPT ![m.to] = [sent EXCEPT !.stored = TRUE]]
          /\ disk' = [disk EXCEPT ![m.to] = [fragment |-> k.fragment, fpcc |-> k.fpcc]]
      BY <1>6 DEF ReceiveReady
    <2> HIDE DEF sent, k
    <2>2. /\ ks'[m.to] = [sent EXCEPT !.stored = TRUE]
          /\ disk'[m.to] = [fragment |-> k.fragment, fpcc |-> k.fpcc]
          /\ \A t \in Correct \ {m.to} : ks'[t] = ks[t] /\ disk'[t] = disk[t]
      BY <1>1, <1>2, <2>1
    <2> QED
      BY <1>1, <1>3, <1>4, <1>5, <1>6, <2>2 DEF KeyState, k
  <1>7. CASE ~Commits(k)
    <2>1. ks' = [ks EXCEPT ![m.to] = sent] /\ disk' = disk
      BY <1>7 DEF ReceiveReady
    <2> HIDE DEF sent, k
    <2> QED
      BY <1>1, <1>2, <1>3, <1>5, <1>7, <2>1 DEF KeyState, k
  <1> QED
    BY <1>6, <1>7

(* The KeyState that an ECHO leaves behind has the fragment it found.      *)
LEMMA EchoStep ==
  ASSUME TypeInv, NEW m \in Message, ReceiveEcho(m)
  PROVE  /\ m.to \in Correct
         /\ \A t \in Correct \ {m.to} : ks'[t] = ks[t]
         /\ disk' = disk
         /\ ks'[m.to].fragment = ks[m.to].fragment
         /\ ks'[m.to].fpcc = ks[m.to].fpcc
         /\ ks'[m.to].verified = ks[m.to].verified
         /\ ks'[m.to].stored = ks[m.to].stored
         /\ ks'[m.to].ready_set = ks[m.to].ready_set
         /\ ks'[m.to].echo_set = ks[m.to].echo_set \cup {m.from}
  <1> DEFINE k == _maybe_send_ready(AfterEcho(m))
  <1>1. m.to \in Correct /\ ks[m.to] \in KeyState
    BY DEF Message, TypeInv, TypeOK
  <1>2. /\ k.fragment = ks[m.to].fragment
        /\ k.fpcc = ks[m.to].fpcc
        /\ k.verified = ks[m.to].verified
        /\ k.stored = ks[m.to].stored
        /\ k.ready_set = ks[m.to].ready_set
        /\ k.echo_set = ks[m.to].echo_set \cup {m.from}
    BY <1>1 DEF AfterEcho, _maybe_send_ready, KeyState
  <1>3. ks' = [ks EXCEPT ![m.to] = k] /\ disk' = disk
    BY DEF ReceiveEcho
  <1>4. ks \in [Correct -> KeyState]
    BY DEF TypeInv, TypeOK
  <1> HIDE DEF k
  <1> QED
    BY <1>1, <1>2, <1>3, <1>4

(* A /disperse leaves alone every server but its own, and its own if that  *)
(* has stored the key.                                                     *)
LEMMA DisperseStep ==
  ASSUME TypeInv, NEW r \in Request, Disperse(r)
  PROVE  /\ r.to \in Correct /\ r.ver \in Version
         /\ disk' = disk
         /\ \A t \in Correct : ks[t].stored \/ t # r.to => ks'[t] = ks[t]
         /\ ~ks[r.to].stored =>
                /\ ~ks'[r.to].stored
                /\ ks'[r.to].fragment = FragmentOf(r.ver)
                /\ ks'[r.to].fpcc = r.ver
         /\ ks'[r.to].echo_set = ks[r.to].echo_set
         /\ ks'[r.to].ready_set = ks[r.to].ready_set
         /\ \/ /\ ks'[r.to].verified = ks[r.to].verified
               /\ UNCHANGED <<echoes, accepted>>
            \/ /\ ks'[r.to].verified
               /\ r.to \in Valid[r.ver]
               /\ ~ks[r.to].stored
               /\ echoes' \subseteq echoes \cup Broadcast(r.to, r.ver)
               /\ accepted' = accepted \cup {r.to}
  <1> DEFINE s == r.to
             v == r.ver
             h == Hold(ks[s], v)
  <1>1. s \in Correct /\ v \in Version /\ ks[s] \in KeyState
    BY DEF Request, TypeInv, TypeOK
  <1>2. ks \in [Correct -> KeyState] /\ disk' = disk
    BY DEF Disperse, TypeInv, TypeOK
  <1>3. /\ h \in KeyState
        /\ h.fragment = FragmentOf(v) /\ h.fpcc = v
        /\ h.stored = ks[s].stored /\ h.verified = ks[s].verified
        /\ h.echo_set = ks[s].echo_set /\ h.ready_set = ks[s].ready_set
    BY <1>1, HoldType DEF Hold, KeyState
  <1>4. CASE DisperseAlreadyStored(s, v)
    BY <1>1, <1>2, <1>4 DEF DisperseAlreadyStored
  <1>5. CASE DisperseInvalid(s, v)
    <2>1. ks' = [ks EXCEPT ![s] = h] /\ ~ks[s].stored /\ UNCHANGED <<echoes, accepted>>
      BY <1>5 DEF DisperseInvalid
    <2> HIDE DEF h
    <2> QED
      BY <1>1, <1>2, <1>3, <2>1
  <1>6. CASE DisperseAccepted(s, v)
    <2> DEFINE k == [h EXCEPT !.verified = TRUE, !.echoed = TRUE]
    <2>1. /\ ks' = [ks EXCEPT ![s] = k]
          /\ ~ks[s].stored
          /\ s \in Valid[v]
          /\ echoes' \subseteq echoes \cup Broadcast(s, v)
          /\ accepted' = accepted \cup {s}
      BY <1>6 DEF DisperseAccepted, verify_fragment
    <2> HIDE DEF h
    <2>2. /\ k.fragment = FragmentOf(v) /\ k.fpcc = v
          /\ k.stored = ks[s].stored /\ k.verified
          /\ k.echo_set = ks[s].echo_set /\ k.ready_set = ks[s].ready_set
      BY <1>3 DEF KeyState
    <2> HIDE DEF k
    <2> QED
      BY <1>1, <1>2, <2>1, <2>2
  <1> QED
    BY <1>4, <1>5, <1>6 DEF Disperse

(* A /disperse announces nothing: _maybe_send_ready is left to the votes.     *)
LEMMA DisperseKeepsSent ==
  ASSUME TypeInv, NEW r \in Request, Disperse(r)
  PROVE  \A s \in Correct : ks'[s].ready_sent = ks[s].ready_sent
  <1> DEFINE s == r.to
             h == Hold(ks[s], r.ver)
  <1>1. s \in Correct /\ r.ver \in Version /\ ks \in [Correct -> KeyState]
    BY DEF Request, TypeInv, TypeOK
  <1>2. h \in KeyState /\ h.ready_sent = ks[s].ready_sent
    BY <1>1, HoldType DEF Hold, KeyState
  <1>3. PICK k \in {ks[s], h, [h EXCEPT !.verified = TRUE, !.echoed = TRUE]} :
          ks' = [ks EXCEPT ![s] = k]
    BY <1>1
    DEF Disperse, DisperseAlreadyStored, DisperseInvalid, DisperseAccepted
  <1> HIDE DEF h
  <1>4. k.ready_sent = ks[s].ready_sent
    BY <1>2 DEF KeyState
  <1> QED
    BY <1>1, <1>3, <1>4

(* /lie loads what it does not serve from memory.                          *)
LEMMA LieStep ==
  ASSUME MemoryInv, NEW s \in Correct, Lie(s)
  PROVE  /\ disk' = disk
         /\ \A t \in Correct \ {s} : ks'[t] = ks[t]
         /\ ks'[s].fragment # None
         /\ SameObject(ks'[s], disk[s])
         /\ ks'[s].echo_set = ks[s].echo_set
         /\ ks'[s].ready_set = ks[s].ready_set
         /\ ks'[s].verified = ks[s].verified
  <1> DEFINE k == Loaded(s)
  <1>1. ks \in [Correct -> KeyState] /\ ks[s] \in KeyState
    BY DEF MemoryInv, TypeInv, TypeOK
  <1>2. /\ k \in KeyState /\ k.fragment # None /\ SameObject(k, disk[s])
        /\ k.echo_set = ks[s].echo_set /\ k.ready_set = ks[s].ready_set
        /\ k.verified = ks[s].verified
    <2>1. CASE Serving(ks[s])
      BY <1>1, <2>1 DEF Loaded, Serving, MemoryInv, MemoryMatchesDisk
    <2>2. CASE ~Serving(ks[s])
      <3>1. disk[s] \in File
        BY <2>2 DEF Lie
      <3>2. disk[s].fragment \in Fragment /\ disk[s].fpcc \in Version
        BY <3>1 DEF File
      <3> QED
        BY <1>1, <2>2, <3>1, <3>2, NoneAssumption DEF Loaded, KeyState, SameObject
    <2> QED
      BY <2>1, <2>2
  <1>3. ks' = [ks EXCEPT ![s] = Tampered(k, "lie")] /\ disk' = disk
    BY DEF Lie
  <1> HIDE DEF k
  <1>4. SameObject(Tampered(k, "lie"), disk[s])
    BY <1>2, LieKeepsObject
  <1>5. Tampered(k, "lie").fragment \in Fragment
    BY <1>2, TamperedType DEF Mask
  <1>6. /\ Tampered(k, "lie").echo_set = k.echo_set
        /\ Tampered(k, "lie").ready_set = k.ready_set
        /\ Tampered(k, "lie").verified = k.verified
    BY <1>2 DEF Tampered, KeyState
  <1> QED
    BY <1>1, <1>2, <1>3, <1>4, <1>5, <1>6, NoneAssumption

(* What a READY leaves in memory is what it wrote, or what was there.      *)
LEMMA ReadyKeepsMemory ==
  ASSUME MemoryInv, NEW m \in Message, ReceiveReady(m)
  PROVE  (StoredHasFragment /\ MemoryMatchesDisk)'
  <1> DEFINE s == m.to
  <1> USE DEF MemoryInv
  <1>1. /\ \A t \in Correct \ {s} : ks'[t] = ks[t] /\ disk'[t] = disk[t]
        /\ ks'[s].fragment = ks[s].fragment
        /\ ks'[s].fpcc = ks[s].fpcc
    BY ReadyStep
  <1>2. CASE /\ Commits(AfterReady(m))
             /\ disk'[s] = [fragment |-> ks[s].fragment, fpcc |-> ks[s].fpcc]
    <2>1. ks[s].fragment # None
      BY <1>2, ReceiveType DEF Commits, TypeInv
    <2>2. disk'[s] \in File
      BY <1>2, CommitType, ReceiveType DEF TypeInv
    <2>3. SameObject(ks'[s], disk'[s])
      BY <1>1, <1>2, <2>2 DEF SameObject
    <2> QED
      BY <1>1, <2>1, <2>3 DEF StoredHasFragment, MemoryMatchesDisk, SameObject
  <1>3. CASE /\ ks'[s].stored = ks[s].stored
             /\ disk'[s] = disk[s]
    BY <1>1, <1>3 DEF StoredHasFragment, MemoryMatchesDisk, SameObject
  <1> QED
    BY <1>2, <1>3, ReadyStep

LEMMA NextMemoryInv == MemoryInv /\ [Next]_vars => MemoryInv'
  <1> SUFFICES ASSUME MemoryInv, [Next]_vars
               PROVE  (StoredHasFragment /\ MemoryMatchesDisk)'
    BY NextTypeInv DEF MemoryInv
  <1> USE DEF MemoryInv
  <1> DEFINE Same == StoredHasFragment /\ MemoryMatchesDisk
  <1>0. /\ TypeInv
        /\ ks \in [Correct -> KeyState]
        /\ disk \in [Correct -> File \cup {None, Torn}]
        /\ requests \subseteq Request
        /\ echoes \subseteq Message /\ readys \subseteq Message
    BY DEF TypeInv, TypeOK
  <1>1. ASSUME UNCHANGED <<ks, disk>> PROVE Same'
    BY <1>1 DEF StoredHasFragment, MemoryMatchesDisk, SameObject
  <1>2. ASSUME NEW r \in Request, Disperse(r) PROVE Same'
    BY <1>0, <1>2, DisperseStep
    DEF StoredHasFragment, MemoryMatchesDisk, SameObject
  <1>3. ASSUME NEW m \in Message, ReceiveEcho(m) PROVE Same'
    BY <1>0, <1>3, EchoStep
    DEF StoredHasFragment, MemoryMatchesDisk, SameObject
  <1>4. ASSUME NEW m \in Message, ReceiveReady(m) PROVE Same'
    BY <1>4, ReadyKeepsMemory
  <1>5. ASSUME NEW s \in Correct,
               ks' = [ks EXCEPT ![s] = EmptyKeyState],
               \A t \in Correct \ {s} : disk'[t] = disk[t]
        PROVE  Same'
    BY <1>0, <1>5
    DEF StoredHasFragment, MemoryMatchesDisk, SameObject, EmptyKeyState
  <1>6. ASSUME NEW s \in Correct, Lie(s) PROVE Same'
    BY <1>6, LieStep DEF StoredHasFragment, MemoryMatchesDisk, SameObject
  <1>7. ASSUME NEW s \in Correct, Corrupt(s) PROVE Same'
    <2>1. ks[s] \in KeyState /\ ks[s].fragment # None
      BY <1>0, <1>7 DEF Corrupt, Serving
    <2> DEFINE k == Tampered(ks[s], "corrupt")
               k2 == [k EXCEPT !.stored = FALSE, !.verified = FALSE]
    <2>2. ks' = [ks EXCEPT ![s] = k2] /\ disk' = disk
      BY <1>7 DEF Corrupt
    <2>3. k \in KeyState
      BY <2>1, TamperedType DEF Mask
    <2> HIDE DEF k
    <2>4. ~k2.stored
      BY <2>3 DEF KeyState
    <2> HIDE DEF k2
    <2> QED
      BY <1>0, <2>2, <2>4 DEF StoredHasFragment, MemoryMatchesDisk, SameObject
  <1>8. ASSUME NEW v \in Version, Put(v) PROVE Same'
    BY <1>1, <1>8 DEF Put
  <1>9. CASE Lose
    BY <1>1, <1>9 DEF Lose
  <1>10. ASSUME NEW s \in Correct, Restart(s) PROVE Same'
    BY <1>1, <1>10 DEF Restart
  <1>11. ASSUME NEW s \in Correct, Crash(s) PROVE Same'
    BY <1>5, <1>11 DEF Crash, Halt
  <1>12. ASSUME NEW m \in Message, CrashInStore(m) PROVE Same'
    <2>1. m.to \in Correct
      BY DEF Message
    <2>2. disk' = [disk EXCEPT ![m.to] = Torn] /\ ks' = [ks EXCEPT ![m.to] = EmptyKeyState]
      BY <1>12 DEF CrashInStore, Halt
    <2> QED
      BY <1>0, <1>5, <2>1, <2>2
  <1>13. ASSUME NEW s \in Correct, Reset(s) PROVE Same'
    <2>1. disk' = [disk EXCEPT ![s] = None] /\ ks' = [ks EXCEPT ![s] = EmptyKeyState]
      BY <1>13 DEF Reset
    <2> QED
      BY <1>0, <1>5, <2>1
  <1>14. CASE UNCHANGED vars
    BY <1>1, <1>14 DEF vars
  <1> QED
    BY <1>0, <1>2, <1>3, <1>4, <1>6, <1>7, <1>8, <1>9, <1>10, <1>11, <1>12,
       <1>13, <1>14, MessageType
    DEF Next, Deliver, DeliverByzantine, Faults

LEMMA InitMemoryInv == Init => MemoryInv
  BY InitTypeInv
  DEF Init, MemoryInv, StoredHasFragment, MemoryMatchesDisk, EmptyKeyState

(* /retrieve answers the same object from memory and, after a restart,     *)
(* from disk: a server that says stored has its whole file.                *)
THEOREM MemoryMatchesDiskCorrect == Spec => []MemoryMatchesDisk
  <1>1. MemoryInv => MemoryMatchesDisk
    BY DEF MemoryInv
  <1> QED
    BY <1>1, InitMemoryInv, NextMemoryInv, PTL DEF Spec

-----------------------------------------------------------------------------
(* Every step is a delivery or takes away: it adds no vote, no message     *)
(* between servers and no verified fragment, and touches only servers that *)
(* it counts as disturbed.                                                 *)

(* A READY that makes its receiver commit.                                 *)
CommitReady(m) ==
    /\ m \in readys \cup FromByzantine
    /\ Commits(AfterReady(m))

TakesAway ==
    /\ accepted' = accepted /\ disturbed \subseteq disturbed'
    /\ echoes' \subseteq echoes /\ readys' \subseteq readys
    /\ \A t \in Correct :
         /\ t \notin disturbed' => ks'[t] = ks[t] /\ disk'[t] = disk[t]
         /\ ks'[t].verified => ks[t].verified
         /\ ks'[t].echo_set \subseteq ks[t].echo_set
         /\ ks'[t].ready_set \subseteq ks[t].ready_set
         /\ disk'[t] \in {None, Torn, disk[t]}
         /\ disk'[t] = None \/ disk'[t] = disk[t]
              \/ \E m \in Message : CommitReady(m)
         /\ \/ ks'[t].fpcc \in {None, ks[t].fpcc}
            \/ disk[t] \in File /\ ks'[t].fpcc = disk[t].fpcc

LEMMA StepKind ==
  ASSUME MemoryInv, [Next]_vars
  PROVE  \/ \E r \in requests : Disperse(r)
         \/ \E m \in echoes \cup FromByzantine : ReceiveEcho(m)
         \/ \E m \in readys \cup FromByzantine : ReceiveReady(m)
         \/ TakesAway
  <1>1. ks \in [Correct -> KeyState] /\ disk \in [Correct -> File \cup {None, Torn}]
    BY DEF MemoryInv, TypeInv, TypeOK
  <1>2. ASSUME UNCHANGED <<ks, disk, history>>,
               echoes' \subseteq echoes, readys' \subseteq readys
        PROVE  TakesAway
    BY <1>2 DEF TakesAway, history
  <1>3. ASSUME NEW s \in Correct,
               ks' = [ks EXCEPT ![s] = EmptyKeyState],
               disturbed' = disturbed \cup {s},
               UNCHANGED <<echoes, accepted>>, readys' \subseteq readys,
               \A t \in Correct \ {s} : disk'[t] = disk[t],
               disk'[s] \in {None, Torn, disk[s]},
               disk'[s] = None \/ disk'[s] = disk[s] \/ \E m \in Message : CommitReady(m)
        PROVE  TakesAway
    BY <1>1, <1>3 DEF TakesAway, EmptyKeyState
  <1>4. ASSUME NEW v \in Version, Put(v) PROVE TakesAway
    BY <1>2, <1>4 DEF Put
  <1>5. CASE Lose
    BY <1>2, <1>5 DEF Lose
  <1>6. ASSUME NEW s \in Correct, Restart(s) PROVE TakesAway
    BY <1>2, <1>6 DEF Restart, net
  <1>7. ASSUME NEW s \in Correct, Crash(s) PROVE TakesAway
    BY <1>3, <1>7 DEF Crash, Halt, net
  <1>8. ASSUME NEW m \in readys \cup FromByzantine, CrashInStore(m) PROVE TakesAway
    <2>1. m \in Message /\ m.to \in Correct
      BY MessageType DEF MemoryInv, TypeInv, TypeOK, Message
    <2>2. /\ disk' = [disk EXCEPT ![m.to] = Torn]
          /\ ks' = [ks EXCEPT ![m.to] = EmptyKeyState]
          /\ disturbed' = disturbed \cup {m.to}
          /\ UNCHANGED <<echoes, accepted>> /\ readys' \subseteq readys
          /\ CommitReady(m)
      BY <1>8 DEF CrashInStore, Halt, CommitReady
    <2> QED
      BY <1>1, <1>3, <2>1, <2>2
  <1>9. ASSUME NEW s \in Correct, Lie(s) PROVE TakesAway
    <2>1. /\ disturbed' = disturbed \cup {s}
          /\ UNCHANGED <<echoes, readys, accepted>>
      BY <1>9 DEF Lie, Inject, net
    <2> QED
      BY <1>9, <2>1, LieStep DEF TakesAway, SameObject
  <1>10. ASSUME NEW s \in Correct, Corrupt(s) PROVE TakesAway
    <2> DEFINE k == [Tampered(ks[s], "corrupt") EXCEPT !.stored = FALSE, !.verified = FALSE]
    <2>1. /\ disturbed' = disturbed \cup {s}
          /\ UNCHANGED <<echoes, readys, accepted, disk>>
          /\ ks' = [ks EXCEPT ![s] = k]
      BY <1>10 DEF Corrupt, Inject, net
    <2>2. /\ k.echo_set = ks[s].echo_set /\ k.ready_set = ks[s].ready_set
          /\ ~k.verified /\ k.fpcc = ks[s].fpcc
      BY <1>1 DEF Tampered, KeyState
    <2> HIDE DEF k
    <2> QED
      BY <1>1, <2>1, <2>2 DEF TakesAway
  <1>11. ASSUME NEW s \in Correct, Reset(s) PROVE TakesAway
    <2>1. /\ disturbed' = disturbed \cup {s}
          /\ UNCHANGED <<echoes, readys, accepted>>
          /\ ks' = [ks EXCEPT ![s] = EmptyKeyState]
          /\ disk' = [disk EXCEPT ![s] = None]
      BY <1>11 DEF Reset, Inject, net
    <2> QED
      BY <1>1, <1>3, <2>1
  <1>12. CASE UNCHANGED vars
    BY <1>2, <1>12 DEF vars, net
  <1> QED
    BY <1>4, <1>5, <1>6, <1>7, <1>8, <1>9, <1>10, <1>11, <1>12
    DEF Next, Deliver, DeliverByzantine, Faults

-----------------------------------------------------------------------------
(* A committed file is final. The guards that protect it are in memory, so *)
(* the invariant is that an undisturbed server with a file remembers it.   *)

CommittedInMemory ==
    \A s \in Correct \ disturbed : disk[s] \in File => ks[s].stored

FinalInv == MemoryInv /\ CommittedInMemory

FilesStay ==
    \A s \in Correct \ disturbed' : disk[s] \in File => disk'[s] = disk[s]

LEMMA NextFinalInv == FinalInv /\ [Next]_vars => FinalInv' /\ FilesStay
  <1> SUFFICES ASSUME FinalInv, [Next]_vars
               PROVE  CommittedInMemory' /\ FilesStay
    BY NextMemoryInv DEF FinalInv
  <1>1. /\ MemoryInv /\ TypeInv /\ CommittedInMemory
        /\ requests \subseteq Request
        /\ echoes \subseteq Message /\ readys \subseteq Message
    BY DEF FinalInv, MemoryInv, TypeInv, TypeOK
  <1>2. ASSUME NEW r \in requests, Disperse(r) PROVE CommittedInMemory' /\ FilesStay
    <2>1. disturbed' = disturbed
      BY <1>2 DEF Disperse
    <2> QED
      BY <1>1, <1>2, <2>1, DisperseStep DEF CommittedInMemory, FilesStay
  <1>3. ASSUME NEW m \in Message, ReceiveEcho(m) PROVE CommittedInMemory' /\ FilesStay
    <2>1. disturbed' = disturbed
      BY <1>3 DEF ReceiveEcho, history
    <2> QED
      BY <1>1, <1>3, <2>1, EchoStep DEF CommittedInMemory, FilesStay
  <1>4. ASSUME NEW m \in Message, ReceiveReady(m) PROVE CommittedInMemory' /\ FilesStay
    <2>1. disturbed' = disturbed
      BY <1>4 DEF ReceiveReady, history
    <2>2. Commits(AfterReady(m)) => ~ks[m.to].stored
      <3>1. AfterReady(m).stored = ks[m.to].stored
        BY <1>1 DEF AfterReady, Message, TypeInv, TypeOK, KeyState
      <3> QED
        BY <3>1 DEF Commits
    <2> QED
      BY <1>1, <1>4, <2>1, <2>2, ReadyStep DEF CommittedInMemory, FilesStay
  <1>5. CASE TakesAway
    BY <1>1, <1>5 DEF TakesAway, CommittedInMemory, FilesStay
  <1> QED
    BY <1>1, <1>2, <1>3, <1>4, <1>5, StepKind, MessageType

LEMMA InitFinalInv == Init => FinalInv
  BY InitMemoryInv, NoneAssumption DEF Init, FinalInv, CommittedInMemory

(* No client and no peer makes an undisturbed server replace or lose a     *)
(* file that it has committed.                                             *)
THEOREM CommittedFileIsFinalCorrect == Spec => CommittedFileIsFinal
  <1>1. FinalInv /\ [Next]_vars => [FilesStay]_vars
    BY NextFinalInv
  <1> QED
    BY <1>1, InitFinalInv, NextFinalInv, PTL DEF Spec, CommittedFileIsFinal, FilesStay

-----------------------------------------------------------------------------
(* Quorums. The digest in an ECHO or a READY decides nothing, so what they *)
(* count is servers that verified some fragment of the key.                *)

LEMMA ClusterSize ==
  /\ IsFiniteSet(Server) /\ IsFiniteSet(Correct) /\ IsFiniteSet(Faulty)
  /\ N \in Nat /\ Cardinality(Faulty) \in Nat /\ F \in Nat
  BY ServerAssumption, ThresholdAssumption, FS_Subset, FS_CardinalityType, FS_Difference
  DEF N, Faulty

(* Of any set of servers, at most the faulty ones are not correct.         *)
LEMMA CorrectShare ==
  ASSUME NEW Q \in SUBSET Server
  PROVE  /\ IsFiniteSet(Q \cap Correct)
         /\ Cardinality(Q \cap Correct) \in Nat
         /\ Cardinality(Q) \in Nat
         /\ Cardinality(Q \cap Correct) >= Cardinality(Q) - Cardinality(Faulty)
  <1>1. IsFiniteSet(Q) /\ Cardinality(Q) \in Nat
    BY ClusterSize, FS_Subset, FS_CardinalityType
  <1>2. /\ IsFiniteSet(Q \cap Correct) /\ IsFiniteSet(Q \ Correct)
        /\ Cardinality(Q \cap Correct) \in Nat
        /\ Cardinality(Q \ Correct) = Cardinality(Q) - Cardinality(Q \cap Correct)
    BY <1>1, FS_Intersection, FS_Difference, FS_CardinalityType
  <1>3. Q \ Correct \subseteq Faulty
    BY DEF Faulty
  <1>4. Cardinality(Q \ Correct) <= Cardinality(Faulty)
    BY <1>3, ClusterSize, FS_Subset
  <1> QED
    BY <1>1, <1>2, <1>4, ClusterSize

(* f + 1 servers include a correct one, when at most f are not.            *)
LEMMA ReadyQuorum ==
  ASSUME Cardinality(Faulty) <= F,
         NEW Q \in SUBSET Server, Cardinality(Q) >= ReadyThreshold
  PROVE  Q \cap Correct # {}
  <1>1. Cardinality(Q \cap Correct) >= 1
    BY CorrectShare, ClusterSize DEF ReadyThreshold
  <1> QED
    BY <1>1, FS_EmptySet

(* Where no server is Byzantine, a vote is the vote of a server that runs  *)
(* this code, whatever the sender_id in it.                                *)
LEMMA NoForgery ==
  ASSUME Byzantine = {}
  PROVE  FromByzantine = {}
  BY DEF FromByzantine

EchoInv ==
    /\ \A m \in echoes : m.from \in accepted /\ m.from # m.to
    /\ \A s \in Correct :
         /\ ks[s].echo_set \subseteq accepted \ {s}
         /\ ks[s].verified => s \in accepted

(* Some server has announced READY or committed.                           *)
ReadySeen ==
    readys # {} \/ \E s \in Correct : ks[s].ready_set # {} \/ disk[s] # None

ReadyInv == ReadySeen => Cardinality(accepted) > N - F

(* A server that sends READY because of its echoes has n - f of them, none *)
(* its own; with its own fragment, more than n - f servers have verified   *)
(* theirs.                                                                 *)
LEMMA EchoQuorum ==
  ASSUME accepted \subseteq Correct,
         NEW s \in accepted, NEW Q \in SUBSET (accepted \ {s}),
         Cardinality(Q) >= EchoThreshold
  PROVE  Cardinality(accepted) > N - F
  <1>1. IsFiniteSet(accepted)
    BY ClusterSize, FS_Subset
  <1>2. Cardinality(accepted) \in Nat
    BY <1>1, FS_CardinalityType
  <1>3. IsFiniteSet(accepted \ {s}) /\ Cardinality(accepted \ {s}) = Cardinality(accepted) - 1
    BY <1>1, FS_RemoveElement
  <1>4. Cardinality(Q) <= Cardinality(accepted \ {s}) /\ IsFiniteSet(Q)
    BY <1>3, FS_Subset
  <1>5. Cardinality(Q) \in Nat
    BY <1>4, FS_CardinalityType
  <1> QED
    BY <1>2, <1>3, <1>4, <1>5, ClusterSize DEF EchoThreshold

(* What reaches f + 1 or 2f + 1 is not empty.                              *)
LEMMA SomeVote ==
  ASSUME NEW Q,
         Cardinality(Q) >= ReadyThreshold \/ Cardinality(Q) >= StoreThreshold
  PROVE  Q # {}
  BY FS_EmptySet, ClusterSize DEF ReadyThreshold, StoreThreshold

QuorumInv == MemoryInv /\ EchoInv /\ ReadyInv

LEMMA InitQuorumInv == Init => QuorumInv
  BY InitMemoryInv
  DEF Init, QuorumInv, EchoInv, ReadyInv, ReadySeen, EmptyKeyState

LEMMA NextEchoInv ==
  ASSUME Byzantine = {}, QuorumInv, [Next]_vars
  PROVE  EchoInv' /\ accepted \subseteq accepted'
  <1>1. /\ MemoryInv /\ TypeInv /\ EchoInv
        /\ requests \subseteq Request
        /\ echoes \subseteq Message /\ readys \subseteq Message
    BY DEF QuorumInv, MemoryInv, TypeInv, TypeOK
  <1>2. ASSUME NEW r \in requests, Disperse(r)
        PROVE  EchoInv' /\ accepted \subseteq accepted'
    <2>1. \A m \in Broadcast(r.to, r.ver) : m.from = r.to /\ m.from # m.to
      BY DEF Broadcast
    <2> QED
      BY <1>1, <1>2, <2>1, DisperseStep DEF EchoInv
  <1>3. ASSUME NEW m \in echoes, ReceiveEcho(m)
        PROVE  EchoInv' /\ accepted \subseteq accepted'
    <2>1. accepted' = accepted /\ echoes' \subseteq echoes
      BY <1>3 DEF ReceiveEcho, history
    <2>2. m.from \in accepted /\ m.from # m.to
      BY <1>1 DEF EchoInv
    <2> QED
      BY <1>1, <1>3, <2>1, <2>2, EchoStep DEF EchoInv
  <1>4. ASSUME NEW m \in readys, ReceiveReady(m)
        PROVE  EchoInv' /\ accepted \subseteq accepted'
    <2>1. accepted' = accepted /\ echoes' = echoes
      BY <1>4 DEF ReceiveReady, history
    <2> QED
      BY <1>1, <1>4, <2>1, ReadyStep DEF EchoInv
  <1>5. CASE TakesAway
    BY <1>1, <1>5 DEF TakesAway, EchoInv
  <1> QED
    BY <1>1, <1>2, <1>3, <1>4, <1>5, StepKind, NoForgery

(* A KeyState that sends READY shows the quorum: by its echoes, or by      *)
(* READYs, which another server has sent before.                           *)
LEMMA SenderQuorum ==
  ASSUME accepted \subseteq Correct,
         NEW s \in Correct, NEW k \in KeyState, SendsReady(k),
         k.verified => s \in accepted,
         k.echo_set \subseteq accepted \ {s}
  PROVE  Cardinality(accepted) > N - F \/ k.ready_set # {}
  <1>1. s \in accepted
    BY DEF SendsReady
  <1>2. CASE EnoughEchos(k)
    BY <1>1, <1>2, EchoQuorum DEF EnoughEchos
  <1>3. CASE EnoughReadys(k)
    BY <1>3, SomeVote DEF EnoughReadys
  <1> QED
    BY <1>2, <1>3 DEF SendsReady

LEMMA CommitQuorum ==
  ASSUME Byzantine = {}, NEW m \in Message, CommitReady(m)
  PROVE  ReadySeen
  BY NoForgery DEF CommitReady, ReadySeen

LEMMA NextReadyInv ==
  ASSUME Byzantine = {}, QuorumInv, [Next]_vars
  PROVE  ReadyInv'
  <1> DEFINE Backed == ReadySeen \/ Cardinality(accepted) > N - F
  <1>1. /\ MemoryInv /\ TypeInv /\ TypeOK /\ EchoInv
        /\ ks \in [Correct -> KeyState]
        /\ accepted \subseteq Correct
        /\ requests \subseteq Request
        /\ echoes \subseteq Message /\ readys \subseteq Message
    BY DEF QuorumInv, MemoryInv, TypeInv, TypeOK
  <1>2. ASSUME NEW r \in requests, Disperse(r), ReadySeen' PROVE Backed
    <2>1. readys' = readys
      BY <1>2 DEF Disperse
    <2> QED
      BY <1>1, <1>2, <2>1, DisperseStep DEF ReadySeen
  <1>3. ASSUME NEW m \in echoes, ReceiveEcho(m), ReadySeen'
        PROVE  Backed
    <2> DEFINE k == AfterEcho(m)
    <2>1. /\ k \in KeyState /\ m.to \in Correct
          /\ k.echo_set = ks[m.to].echo_set \cup {m.from}
          /\ k.ready_set = ks[m.to].ready_set
          /\ k.verified = ks[m.to].verified
      BY <1>1, ReceiveType DEF AfterEcho, Message, KeyState
    <2>2. m.from \in accepted /\ m.from # m.to
      BY <1>1 DEF EchoInv
    <2>3. readys' \subseteq readys \/ SendsReady(k)
      BY <1>3 DEF ReceiveEcho
    <2> HIDE DEF k
    <2>4. CASE SendsReady(k)
      <3>1. /\ k.echo_set \subseteq accepted \ {m.to}
            /\ k.verified => m.to \in accepted
        BY <1>1, <2>1, <2>2 DEF EchoInv
      <3>2. Cardinality(accepted) > N - F \/ k.ready_set # {}
        BY <1>1, <2>1, <2>4, <3>1, SenderQuorum
      <3> QED
        BY <2>1, <3>2 DEF ReadySeen
    <2>5. CASE readys' \subseteq readys
      BY <1>1, <1>3, <2>5, EchoStep DEF ReadySeen
    <2> QED
      BY <2>3, <2>4, <2>5
  <1>4. ASSUME NEW m \in readys PROVE Backed
    BY DEF ReadySeen
  <1>5. ASSUME TakesAway, ReadySeen' PROVE Backed
    <2>1. CASE \E m \in Message : CommitReady(m)
      BY <2>1, CommitQuorum
    <2>2. CASE ~\E m \in Message : CommitReady(m)
      BY <1>5, <2>2 DEF TakesAway, ReadySeen
    <2> QED
      BY <2>1, <2>2
  <1>6. ReadySeen' => Backed
    BY <1>1, <1>2, <1>3, <1>4, <1>5, StepKind, NoForgery
  <1>7. Cardinality(accepted') >= Cardinality(accepted)
        /\ Cardinality(accepted) \in Nat /\ Cardinality(accepted') \in Nat
    <2>1. accepted \subseteq accepted' /\ accepted' \subseteq Correct
      BY <1>1, NextEchoInv, NextTypeInv DEF TypeInv, TypeOK
    <2>2. IsFiniteSet(accepted')
      BY <2>1, ClusterSize, FS_Subset
    <2> QED
      BY <2>1, <2>2, FS_Subset, FS_CardinalityType
  <1>8. ReadySeen' => Cardinality(accepted) > N - F
    BY <1>6 DEF QuorumInv, ReadyInv
  <1> QED
    BY <1>7, <1>8, ClusterSize DEF ReadyInv, N

LEMMA NextQuorumInv ==
  ASSUME Byzantine = {}
  PROVE  QuorumInv /\ [Next]_vars => QuorumInv'
  BY NextMemoryInv, NextEchoInv, NextReadyInv DEF QuorumInv

(* READY speaks for a quorum, where no server is Byzantine: once a server   *)
(* has announced READY or written a file, more than n - f servers have      *)
(* verified a fragment of the key, whatever crashes, losses and debug calls *)
(* there were. A Byzantine server takes this away, because the sender_id of *)
(* a vote is believed: run AvidForged shows it.                             *)
THEOREM ReadyCorrect ==
  ASSUME Byzantine = {}
  PROVE  Spec => []ReadyInv
  <1>1. QuorumInv => ReadyInv
    BY DEF QuorumInv
  <1>2. QuorumInv /\ [Next]_vars => QuorumInv'
    BY NextQuorumInv
  <1> QED
    BY <1>1, <1>2, InitQuorumInv, PTL DEF Spec

-----------------------------------------------------------------------------
(* With one content under the key, a server that verified its fragment     *)
(* holds it as long as it is not disturbed: another /disperse can only     *)
(* write the same fragment over it.                                        *)

StillHolds(v) ==
    \A s \in accepted \ disturbed :
        /\ ks[s].fragment = FragmentOf(v)
        /\ ks[s].fpcc = v
        /\ s \in Valid[v]

RecoverableInv(v) == QuorumInv /\ StillHolds(v)

LEMMA NextStillHolds ==
  ASSUME NEW v, Version = {v}, RecoverableInv(v), [Next]_vars
  PROVE  StillHolds(v)'
  <1>1. /\ MemoryInv /\ TypeInv /\ StillHolds(v)
        /\ accepted \subseteq Correct
        /\ requests \subseteq Request
        /\ echoes \subseteq Message /\ readys \subseteq Message
    BY DEF RecoverableInv, QuorumInv, MemoryInv, TypeInv, TypeOK
  <1>2. ASSUME NEW r \in requests, Disperse(r) PROVE StillHolds(v)'
    <2>1. disturbed' = disturbed
      BY <1>2 DEF Disperse
    <2> QED
      BY <1>1, <1>2, <2>1, DisperseStep DEF StillHolds
  <1>3. ASSUME NEW m \in Message, ReceiveEcho(m) PROVE StillHolds(v)'
    <2>1. UNCHANGED <<accepted, disturbed>>
      BY <1>3 DEF ReceiveEcho, history
    <2> QED
      BY <1>1, <1>3, <2>1, EchoStep DEF StillHolds
  <1>4. ASSUME NEW m \in Message, ReceiveReady(m) PROVE StillHolds(v)'
    <2>1. UNCHANGED <<accepted, disturbed>>
      BY <1>4 DEF ReceiveReady, history
    <2> QED
      BY <1>1, <1>4, <2>1, ReadyStep DEF StillHolds
  <1>5. CASE TakesAway
    BY <1>1, <1>5 DEF TakesAway, StillHolds
  <1> QED
    BY <1>1, <1>2, <1>3, <1>4, <1>5, StepKind, MessageType

LEMMA HoldersSuffice ==
  ASSUME Byzantine = {}, NEW v, Version = {v}, RecoverableInv(v)
  PROVE  CommittedIsRecoverable
  <1> SUFFICES ASSUME NEW s \in Correct, disk[s] \in File
               PROVE  Cardinality(Holders(v) \cup disturbed) > N - F
    BY FS_EmptySet, ClusterSize DEF CommittedIsRecoverable, File
  <1>1. accepted \subseteq Correct /\ disturbed \subseteq Correct
    BY DEF RecoverableInv, QuorumInv, MemoryInv, TypeInv, TypeOK
  <1>2. Cardinality(accepted) > N - F
    BY NoneAssumption DEF RecoverableInv, QuorumInv, ReadyInv, ReadySeen
  <1>3. accepted \subseteq Holders(v) \cup disturbed
    <2>1. FragmentOf(v) # None
      BY FragmentType, NoneAssumption
    <2> QED
      BY <1>1, <2>1 DEF RecoverableInv, StillHolds, Holders, verify_fragment
  <1>4. IsFiniteSet(Holders(v) \cup disturbed)
    BY <1>1, ClusterSize, FS_Subset DEF Holders
  <1>5. /\ Cardinality(accepted) <= Cardinality(Holders(v) \cup disturbed)
        /\ Cardinality(accepted) \in Nat
        /\ Cardinality(Holders(v) \cup disturbed) \in Nat
    BY <1>3, <1>4, FS_Subset, FS_CardinalityType
  <1> QED
    BY <1>2, <1>5, ClusterSize

(* A committed object can be recovered: once a server has its file, more   *)
(* than n - f servers hold a fragment of it that verifies, except those    *)
(* that crashed or were tampered with since. With a Byzantine server a run *)
(* shows that it is false; with several contents under one key it is, too. *)
THEOREM CommittedIsRecoverableCorrect ==
  ASSUME Byzantine = {}, NEW CONSTANT v, Version = {v}
  PROVE  Spec => []CommittedIsRecoverable
  <1>1. Init => RecoverableInv(v)
    BY InitQuorumInv DEF Init, RecoverableInv, StillHolds
  <1>2. RecoverableInv(v) /\ [Next]_vars => RecoverableInv(v)'
    BY NextQuorumInv, NextStillHolds DEF RecoverableInv
  <1>3. RecoverableInv(v) => CommittedIsRecoverable
    BY HoldersSuffice
  <1> QED
    BY <1>1, <1>2, <1>3, PTL DEF Spec
=============================================================================
