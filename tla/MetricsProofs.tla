----------------------------- MODULE MetricsProofs -----------------------------
(* Theorems about Metrics, for every cluster and every bound.                *)
EXTENDS Metrics, AvidServerProofs

(* A server is down only after a crash, and a crash is counted.              *)
DownIsDisturbed == Correct \ up \subseteq disturbed

LEMMA NextDownIsDisturbed ==
  ASSUME TypeInv, DownIsDisturbed, [Next]_vars
  PROVE  DownIsDisturbed' /\ disturbed \subseteq disturbed'
  <1> DEFINE Kept == DownIsDisturbed' /\ disturbed \subseteq disturbed'
  <1>1. ASSUME up' = up, disturbed \subseteq disturbed' PROVE Kept
    BY <1>1 DEF DownIsDisturbed
  <1>2. ASSUME NEW s, Halt(s) PROVE Kept
    BY <1>2 DEF Halt, DownIsDisturbed
  <1>3. ASSUME NEW v \in Version, Put(v) PROVE Kept
    BY <1>1, <1>3 DEF Put, history
  <1>4. CASE Deliver \/ DeliverByzantine
    BY <1>1, <1>4
    DEF Deliver, DeliverByzantine, Disperse, ReceiveEcho, ReceiveReady, history
  <1>5. CASE Lose
    BY <1>1, <1>5 DEF Lose, history
  <1>6. ASSUME NEW s \in Correct, Crash(s) PROVE Kept
    BY <1>2, <1>6 DEF Crash
  <1>7. ASSUME NEW s \in Correct, Restart(s) PROVE Kept
    BY <1>7 DEF Restart, DownIsDisturbed, history
  <1>8. ASSUME NEW m \in readys \cup FromByzantine, CrashInStore(m) PROVE Kept
    BY <1>2, <1>8 DEF CrashInStore
  <1>9. ASSUME NEW s \in Correct, Lie(s) \/ Corrupt(s) \/ Reset(s) PROVE Kept
    BY <1>1, <1>9 DEF Lie, Corrupt, Reset, Inject
  <1>10. CASE UNCHANGED vars
    BY <1>1, <1>10 DEF vars, history
  <1> QED
    BY <1>3, <1>4, <1>5, <1>6, <1>7, <1>8, <1>9, <1>10 DEF Next, Faults

CountedInv == FinalInv /\ DownIsDisturbed /\ StoredIsCounted

LEMMA InitCountedInv == MetricsInit => CountedInv
  BY InitFinalInv, NoneAssumption
  DEF MetricsInit, Init, CountedInv, DownIsDisturbed, StoredIsCounted

(* A server that is left alone gets its file in the step that counts it and  *)
(* in no other, and had none before: with a file it says stored.             *)
LEMMA CountedOnce ==
  ASSUME FinalInv, [Next]_vars, NEW s \in Correct \ disturbed'
  PROVE  IF Stores(s)
         THEN disk[s] \in {None, Torn} /\ disk'[s] \in File
         ELSE disk'[s] = disk[s]
  <1>1. /\ MemoryInv /\ TypeInv /\ CommittedInMemory
        /\ ks \in [Correct -> KeyState]
        /\ disk[s] \in File \cup {None, Torn}
        /\ requests \subseteq Request
        /\ echoes \subseteq Message /\ readys \subseteq Message
    BY DEF FinalInv, MemoryInv, TypeInv, TypeOK
  <1>2. ASSUME Stores(s) PROVE disk[s] \in {None, Torn} /\ disk'[s] \in File
    <2>1. PICK m \in readys \cup FromByzantine :
            m.to = s /\ Commits(AfterReady(m)) /\ ReceiveReady(m)
      BY <1>2 DEF Stores
    <2>2. m \in Message
      BY <1>1, MessageType
    <2>3. ~ks[s].stored /\ disturbed' = disturbed
      <3>1. AfterReady(m).stored = ks[s].stored
        BY <1>1, <2>1, <2>2 DEF AfterReady, Message, KeyState
      <3> QED
        BY <2>1, <3>1 DEF Commits, ReceiveReady, history
    <2>4. disk[s] \notin File
      BY <1>1, <2>3 DEF CommittedInMemory
    <2>5. disk'[s] \in File
      <3>1. disk'[s] = [fragment |-> AfterReady(m).fragment, fpcc |-> AfterReady(m).fpcc]
        BY <1>1, <2>1, <2>2, ReadyStep, ReceiveType DEF TypeInv
      <3> QED
        BY <1>1, <2>1, <2>2, <3>1, CommitType
    <2> QED
      BY <1>1, <1>2, <2>4, <2>5
  <1>3. ASSUME ~Stores(s) PROVE disk'[s] = disk[s]
    <2>1. ASSUME NEW m \in readys \cup FromByzantine, ReceiveReady(m)
          PROVE  disk'[s] = disk[s]
      <3>1. m \in Message
        BY <1>1, MessageType
      <3>2. m.to # s \/ ~Commits(AfterReady(m))
        BY <1>3, <2>1 DEF Stores
      <3> QED
        BY <1>1, <2>1, <3>1, <3>2, ReadyStep
    <2>2. ASSUME NEW r \in requests, Disperse(r) PROVE disk'[s] = disk[s]
      BY <2>2 DEF Disperse
    <2>3. ASSUME NEW m \in echoes \cup FromByzantine, ReceiveEcho(m)
          PROVE  disk'[s] = disk[s]
      BY <2>3 DEF ReceiveEcho
    <2>4. ASSUME TakesAway PROVE disk'[s] = disk[s]
      BY <2>4 DEF TakesAway
    <2> QED
      BY <1>1, <2>1, <2>2, <2>3, <2>4, StepKind
  <1> QED
    BY <1>2, <1>3

LEMMA NextCountedInv == CountedInv /\ [MetricsNext]_metricsVars => CountedInv'
  <1> SUFFICES ASSUME CountedInv, [MetricsNext]_metricsVars PROVE CountedInv'
    OBVIOUS
  <1>1. FinalInv /\ TypeInv /\ DownIsDisturbed /\ StoredIsCounted
    BY DEF CountedInv, FinalInv, MemoryInv
  <1>2. [Next]_vars
    BY DEF MetricsNext, metricsVars
  <1>3. FinalInv' /\ DownIsDisturbed' /\ disturbed \subseteq disturbed'
    BY <1>1, <1>2, NextFinalInv, NextDownIsDisturbed
  <1>4. CASE UNCHANGED metricsVars
    BY <1>1, <1>3, <1>4 DEF CountedInv, metricsVars, vars, history, StoredIsCounted
  <1>5. CASE MetricsNext
    <2> SUFFICES ASSUME NEW s \in Correct \ disturbed'
                 PROVE  stored_objects_total'[s] = (IF disk'[s] \in File THEN 1 ELSE 0)
      BY <1>3 DEF CountedInv, StoredIsCounted
    <2>1. s \in up' /\ s \notin disturbed
      BY <1>3 DEF DownIsDisturbed
    <2>2. stored_objects_total'[s]
            = stored_objects_total[s] + (IF Stores(s) THEN 1 ELSE 0)
      BY <1>5, <2>1 DEF MetricsNext
    <2>3. stored_objects_total[s] = (IF disk[s] \in File THEN 1 ELSE 0)
      BY <1>1, <2>1 DEF StoredIsCounted
    <2> QED
      BY <1>1, <1>2, <2>2, <2>3, CountedOnce, NoneAssumption
  <1> QED
    BY <1>4, <1>5

(* The counter of /metrics is the number of files of the key, 0 or 1, on     *)
(* every server that was left alone: a commit counts once, a READY that      *)
(* comes again and a put that is answered already_stored count nothing.      *)
THEOREM StoredIsCountedCorrect == MetricsSpec => []StoredIsCounted
  <1>1. CountedInv => StoredIsCounted
    BY DEF CountedInv
  <1> QED
    BY <1>1, InitCountedInv, NextCountedInv, PTL DEF MetricsSpec
=============================================================================
