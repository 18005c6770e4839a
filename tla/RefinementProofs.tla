--------------------------- MODULE RefinementProofs ---------------------------
(***************************************************************************)
(* The theorems that the detailed specifications implement the abstract ones:*)
(* the servers of AvidServer implement Slot, and a get over them implements*)
(* ChunkGet.                                                               *)
(***************************************************************************)
EXTENDS RetrievalSlot, RetrievalProofs

-----------------------------------------------------------------------------
(***************************************************************************)
(* The servers implement Slot.                                             *)
(***************************************************************************)

LEMMA Unmoved ==
  ASSUME \A s \in Correct : /\ ks'[s].fpcc = ks[s].fpcc
                            /\ ks'[s].stored = ks[s].stored
                            /\ disk'[s] = disk[s]
  PROVE  Slots' = Slots
  BY DEF Slots, SlotOf

LEMMA InitImplements == Init => Abstract!Init
  <1> SUFFICES ASSUME Init PROVE Slots = [s \in Correct |-> Abstract!Empty]
    BY DEF Abstract!Init
  <1>1. ASSUME NEW s \in Correct PROVE SlotOf(s) = Abstract!Empty
    BY NoneAssumption DEF Init, EmptyKeyState, SlotOf, Abstract!Empty
  <1> QED
    BY <1>1 DEF Slots

(* What a file is from outside.                                            *)
Kept(file) == IF file \in File THEN file.fpcc ELSE file

LEMMA Outside ==
  ASSUME NEW s \in Correct
  PROVE  /\ Slots[s].held = ks[s].fpcc
         /\ Slots[s].stored = ks[s].stored
         /\ Slots[s].file = Kept(disk[s])
  BY DEF Slots, SlotOf, Kept

(* A step of server s alone moves its entry to what its KeyState and file  *)
(* become.                                                                 *)
LEMMA MovesTo ==
  ASSUME NEW s \in Correct, NEW held, NEW stored, NEW file,
         \A t \in Correct \ {s} : ks'[t] = ks[t] /\ disk'[t] = disk[t],
         ks'[s].fpcc = held, ks'[s].stored = stored, Kept(disk'[s]) = file
  PROVE  Abstract!Becomes(s, held, stored, file)
  <1>1. \A t \in Correct \ {s} : SlotOf(t)' = SlotOf(t)
    BY DEF SlotOf
  <1>2. SlotOf(s)' = [held |-> held, stored |-> stored, file |-> file]
    BY DEF SlotOf, Kept
  <1> QED
    BY <1>1, <1>2 DEF Slots, Abstract!Becomes

LEMMA DisperseImplements ==
  ASSUME MemoryInv, NEW r \in Request, Disperse(r)
  PROVE  Slots' = Slots \/ Abstract!Hold(r.to, r.ver)
  <1> DEFINE s == r.to
  <1>1. /\ s \in Correct /\ disk' = disk
        /\ \A t \in Correct : ks[t].stored \/ t # s => ks'[t] = ks[t]
        /\ ~ks[s].stored => ks'[s].stored = FALSE /\ ks'[s].fpcc = r.ver
    BY DisperseStep DEF MemoryInv
  <1>2. CASE ks[s].stored
    BY <1>1, <1>2, Unmoved
  <1>3. CASE ~ks[s].stored
    <2>1. Abstract!Becomes(s, r.ver, FALSE, Slots[s].file)
      BY <1>1, <1>3, MovesTo, Outside
    <2> QED
      BY <1>1, <1>3, <2>1, Outside DEF Abstract!Hold
  <1> QED
    BY <1>2, <1>3

LEMMA ReadyImplements ==
  ASSUME MemoryInv, NEW m \in Message, ReceiveReady(m)
  PROVE  Slots' = Slots \/ Abstract!Commit(m.to)
  <1> DEFINE s == m.to
  <1>1. /\ s \in Correct
        /\ \A t \in Correct \ {s} : ks'[t] = ks[t] /\ disk'[t] = disk[t]
        /\ ks'[s].fpcc = ks[s].fpcc
    BY ReadyStep DEF MemoryInv
  <1>2. CASE ~Commits(AfterReady(m))
    <2>1. ks'[s].stored = ks[s].stored /\ disk'[s] = disk[s]
      BY <1>2, ReadyStep DEF MemoryInv
    <2> QED
      BY <1>1, <2>1, Unmoved
  <1>3. CASE Commits(AfterReady(m))
    <2>1. ~ks[s].stored /\ ks[s].fpcc # None
      <3>1. AfterReady(m).stored = ks[s].stored /\ AfterReady(m).fragment = ks[s].fragment
        BY <1>1 DEF AfterReady, KeyState, MemoryInv, TypeInv, TypeOK
      <3> QED
        BY <1>1, <1>3, <3>1 DEF Commits, MemoryInv, TypeInv, HeldTogether
    <2>2. /\ ks'[s].stored = TRUE
          /\ disk'[s] = [fragment |-> ks[s].fragment, fpcc |-> ks[s].fpcc]
      BY <1>1, <1>3, ReadyStep DEF MemoryInv
    <2>3. disk'[s] \in File
      BY <1>1, <1>3, <2>2, CommitType, ReceiveType DEF MemoryInv, TypeInv
    <2>4. Kept(disk'[s]) = ks[s].fpcc
      BY <2>2, <2>3 DEF Kept
    <2>5. Abstract!Becomes(s, ks[s].fpcc, TRUE, ks[s].fpcc)
      BY <1>1, <2>2, <2>4, MovesTo
    <2> QED
      BY <1>1, <2>1, <2>5, Outside DEF Abstract!Commit
  <1> QED
    BY <1>2, <1>3

(* A crash, alone or inside a commit.                                      *)
LEMMA HaltImplements ==
  ASSUME MemoryInv, NEW s \in Correct, ks' = [ks EXCEPT ![s] = EmptyKeyState],
         \A t \in Correct \ {s} : disk'[t] = disk[t]
  PROVE  /\ disk'[s] = disk[s] => Abstract!Forget(s)
         /\ disk'[s] = Torn /\ ~ks[s].stored /\ ks[s].fpcc # None => Abstract!Tear(s)
         /\ disk'[s] = None => Abstract!Wipe(s)
  <1>1. /\ \A t \in Correct \ {s} : ks'[t] = ks[t] /\ disk'[t] = disk[t]
        /\ ks'[s].fpcc = None /\ ks'[s].stored = FALSE
    BY DEF MemoryInv, TypeInv, TypeOK, EmptyKeyState
  <1>2. ASSUME disk'[s] = disk[s] PROVE Abstract!Forget(s)
    <2>1. Abstract!Becomes(s, None, FALSE, Slots[s].file)
      BY <1>1, <1>2, MovesTo, Outside
    <2> QED
      BY <2>1 DEF Abstract!Forget
  <1>3. ASSUME disk'[s] = Torn, ~ks[s].stored, ks[s].fpcc # None PROVE Abstract!Tear(s)
    <2>1. Kept(disk'[s]) = Torn
      BY <1>3, NoneAssumption DEF Kept
    <2>2. Abstract!Becomes(s, None, FALSE, Torn)
      BY <1>1, <2>1, MovesTo
    <2> QED
      BY <1>3, <2>2, Outside DEF Abstract!Tear
  <1>4. ASSUME disk'[s] = None PROVE Abstract!Wipe(s)
    <2>1. Kept(disk'[s]) = None
      BY <1>4, NoneAssumption DEF Kept
    <2>2. Abstract!Becomes(s, None, FALSE, None)
      BY <1>1, <2>1, MovesTo
    <2> QED
      BY <2>2 DEF Abstract!Wipe
  <1> QED
    BY <1>2, <1>3, <1>4

LEMMA LieImplements ==
  ASSUME MemoryInv, NEW s \in Correct, Lie(s)
  PROVE  Slots' = Slots \/ Abstract!Load(s)
  <1> DEFINE k == Loaded(s)
  <1>1. /\ ks \in [Correct -> KeyState] /\ ks[s] \in KeyState
        /\ disk' = disk /\ \A t \in Correct \ {s} : ks'[t] = ks[t]
        /\ ks' = [ks EXCEPT ![s] = Tampered(k, "lie")]
    BY LieStep DEF Lie, MemoryInv, TypeInv, TypeOK
  <1>2. CASE Serving(ks[s])
    <2>1. ks'[s].fpcc = ks[s].fpcc /\ ks'[s].stored = ks[s].stored
      BY <1>1, <1>2 DEF Loaded, Tampered, KeyState
    <2> QED
      BY <1>1, <2>1, Unmoved
  <1>3. CASE ~Serving(ks[s])
    <2>1. disk[s] \in File /\ disk[s].fpcc \in Version
      BY <1>3 DEF Lie, File
    <2>2. Kept(disk[s]) = disk[s].fpcc
      BY <2>1 DEF Kept
    <2>3. ks'[s].fpcc = disk[s].fpcc /\ ks'[s].stored = TRUE
      BY <1>1, <1>3, <2>1 DEF Loaded, Tampered, KeyState
    <2>4. Abstract!Becomes(s, disk[s].fpcc, TRUE, disk[s].fpcc)
      BY <1>1, <2>2, <2>3, MovesTo
    <2> QED
      BY <2>1, <2>2, <2>4, Outside DEF Abstract!Load
  <1> QED
    BY <1>2, <1>3

LEMMA CorruptImplements ==
  ASSUME MemoryInv, NEW s \in Correct, Corrupt(s)
  PROVE  Abstract!OptOut(s)
  <1> DEFINE k == [Tampered(ks[s], "corrupt") EXCEPT !.stored = FALSE, !.verified = FALSE]
  <1>1. /\ ks \in [Correct -> KeyState] /\ ks[s] \in KeyState
        /\ ks' = [ks EXCEPT ![s] = k] /\ disk' = disk /\ ks[s].stored
    BY DEF Corrupt, Serving, MemoryInv, TypeInv, TypeOK
  <1>2. k.fpcc = ks[s].fpcc /\ k.stored = FALSE
    BY <1>1 DEF Tampered, KeyState
  <1> HIDE DEF k
  <1>3. Abstract!Becomes(s, ks[s].fpcc, FALSE, Kept(disk[s]))
    BY <1>1, <1>2, MovesTo
  <1> QED
    BY <1>1, <1>3, Outside DEF Abstract!OptOut

LEMMA NextImplements ==
  MemoryInv /\ [Next]_vars => [Abstract!Next]_Slots
  <1> SUFFICES ASSUME MemoryInv, [Next]_vars PROVE Abstract!Next \/ Slots' = Slots
    OBVIOUS
  <1> USE DEF Abstract!Next
  <1>1. requests \subseteq Request /\ echoes \subseteq Message /\ readys \subseteq Message
    BY DEF MemoryInv, TypeInv, TypeOK
  <1>2. ASSUME UNCHANGED <<ks, disk>> PROVE Slots' = Slots
    BY <1>2, Unmoved
  <1>3. ASSUME NEW r \in requests, Disperse(r) PROVE Abstract!Next \/ Slots' = Slots
    <2>1. r \in Request /\ r.to \in Correct /\ r.ver \in Version
      BY <1>1 DEF Request
    <2> QED
      BY <1>3, <2>1, DisperseImplements
  <1>4. ASSUME NEW m \in Message, ReceiveEcho(m) PROVE Slots' = Slots
    <2>1. \A s \in Correct : ks'[s].fpcc = ks[s].fpcc /\ ks'[s].stored = ks[s].stored
      BY <1>4, EchoStep DEF MemoryInv
    <2> QED
      BY <1>4, <2>1, EchoStep, Unmoved DEF MemoryInv
  <1>5. ASSUME NEW m \in Message, ReceiveReady(m) PROVE Abstract!Next \/ Slots' = Slots
    <2>1. m.to \in Correct
      BY DEF Message
    <2> QED
      BY <1>5, <2>1, ReadyImplements
  <1>6. ASSUME NEW s \in Correct, Crash(s) PROVE Abstract!Next
    BY <1>6, HaltImplements DEF Crash, Halt
  <1>7. ASSUME NEW m \in Message, CrashInStore(m) PROVE Abstract!Next
    <2>1. m.to \in Correct
      BY DEF Message
    <2>2. /\ ks' = [ks EXCEPT ![m.to] = EmptyKeyState]
          /\ disk' = [disk EXCEPT ![m.to] = Torn]
      BY <1>7 DEF CrashInStore, Halt
    <2>3. ~ks[m.to].stored /\ ks[m.to].fpcc # None
      <3>1. /\ AfterReady(m).stored = ks[m.to].stored
            /\ AfterReady(m).fragment = ks[m.to].fragment
        BY <2>1 DEF AfterReady, KeyState, MemoryInv, TypeInv, TypeOK
      <3> QED
        BY <1>7, <2>1, <3>1 DEF CrashInStore, Commits, MemoryInv, TypeInv, HeldTogether
    <2>4. disk'[m.to] = Torn /\ \A t \in Correct \ {m.to} : disk'[t] = disk[t]
      BY <2>1, <2>2 DEF MemoryInv, TypeInv, TypeOK
    <2> QED
      BY <2>1, <2>2, <2>3, <2>4, HaltImplements
  <1>8. ASSUME NEW s \in Correct, Reset(s) PROVE Abstract!Next
    <2>1. disk'[s] = None /\ \A t \in Correct \ {s} : disk'[t] = disk[t]
      BY <1>8 DEF Reset, MemoryInv, TypeInv, TypeOK
    <2> QED
      BY <1>8, <2>1, HaltImplements DEF Reset
  <1>9. ASSUME NEW s \in Correct, Lie(s) \/ Corrupt(s) PROVE Abstract!Next \/ Slots' = Slots
    BY <1>9, LieImplements, CorruptImplements
  <1>10. ASSUME \/ \E v \in Version : Put(v)
                \/ Lose
                \/ \E s \in Correct : Restart(s)
                \/ UNCHANGED vars
         PROVE  Slots' = Slots
    BY <1>2, <1>10 DEF Put, Lose, Restart, vars
  <1> HIDE DEF Abstract!Next
  <1> QED
    BY <1>1, <1>3, <1>4, <1>5, <1>6, <1>7, <1>8, <1>9, <1>10, MessageType
    DEF Next, Deliver, DeliverByzantine, Faults

(* The servers implement Slot: seen from outside, a key on a server is what *)
(* it holds, whether it is stored, and a file. The quorums, the messages    *)
(* and the damage of the debug endpoints decide when it moves, never how.   *)
THEOREM AvidImplementsSlot == Spec => ImplementsSlot
  BY InitImplements, NextImplements, InitMemoryInv, NextMemoryInv, PTL
  DEF Spec, ImplementsSlot, Abstract!Spec

-----------------------------------------------------------------------------
(***************************************************************************)
(* A get over the servers implements ChunkGet.                             *)
(***************************************************************************)

(* A server that runs this code answers with its own index.                  *)
OwnIndex == \A s \in Correct : responses[s] \in Reply => responses[s].index = s

ViewInv == MemoryInv /\ ResponsesType /\ OwnIndex

-----------------------------------------------------------------------------
(* The two instances of Slot are one, and so is what both count with.         *)
LEMMA SameCardinality ==
  ASSUME NEW S
  PROVE  OverSlots!Cardinality(S) = Cardinality(S)
  BY DEF OverSlots!Cardinality, Cardinality

LEMMA SameSlot ==
  /\ Abstract!Init => OverSlots!Init
  /\ Abstract!Next => OverSlots!Next
  <1> USE DEF Abstract!Becomes, OverSlots!Becomes
  <1>1. Abstract!Init => OverSlots!Init
    BY DEF Abstract!Init, OverSlots!Init, Abstract!Empty, OverSlots!Empty
  <1>2. ASSUME NEW s \in Correct, NEW v \in Version, Abstract!Hold(s, v)
        PROVE  OverSlots!Hold(s, v)
    BY <1>2 DEF Abstract!Hold, OverSlots!Hold
  <1>3. ASSUME NEW s \in Correct
        PROVE  /\ Abstract!Commit(s) => OverSlots!Commit(s)
               /\ Abstract!Forget(s) => OverSlots!Forget(s)
               /\ Abstract!Tear(s) => OverSlots!Tear(s)
               /\ Abstract!Load(s) => OverSlots!Load(s)
               /\ Abstract!OptOut(s) => OverSlots!OptOut(s)
               /\ Abstract!Wipe(s) => OverSlots!Wipe(s)
    BY <1>3
    DEF Abstract!Commit, OverSlots!Commit, Abstract!Forget, OverSlots!Forget,
        Abstract!Tear, OverSlots!Tear, Abstract!Load, OverSlots!Load,
        Abstract!OptOut, OverSlots!OptOut, Abstract!Wipe, OverSlots!Wipe
  <1> QED
    BY <1>1, <1>2, <1>3 DEF Abstract!Next, OverSlots!Next

-----------------------------------------------------------------------------
(* What the client sees of an answer                                         *)

LEMMA ReplyView ==
  /\ \A response \in Reply : ReplyOf(response) \in OverSlots!Offer
  /\ \A response \in {None, Torn, Unreachable} : ReplyOf(response) = Nothing
  /\ ReplyOf(Pending) = Pending
  <1>1. ASSUME NEW response \in Reply PROVE ReplyOf(response) \in OverSlots!Offer
    <2>1. response.file.fpcc \in Version
      BY DEF Reply, File
    <2>2. verify_fragment(response.index, response.file.fragment, response.file.fpcc)
            \in BOOLEAN
      BY DEF verify_fragment
    <2> QED
      BY <2>1, <2>2 DEF ReplyOf, OverSlots!Offer
  <1> QED
    BY <1>1, ClientAssumption DEF ReplyOf

(* What a correct server answers is what its slot serves.                    *)
LEMMA ServedView ==
  ASSUME MemoryInv, NEW s \in Correct, NEW response \in Answers(s)
  PROVE  /\ response \in Reply \cup {None, Torn}
         /\ response \in Reply =>
               response.index = s /\ response.file.fpcc = OverSlots!Served(Slots[s])
  <1>1. ks[s] \in KeyState /\ disk[s] \in File \cup {None, Torn}
    BY DEF MemoryInv, TypeInv, TypeOK
  <1>2. Serving(ks[s]) => ks[s].fragment \in Fragment /\ ks[s].fpcc \in Version
    BY <1>1 DEF Serving, MemoryInv, TypeInv, HeldTogether, KeyState
  <1>3. ks[s].stored => Serving(ks[s])
    BY DEF Serving, MemoryInv, StoredHasFragment
  <1>4. Retrieve(s) \in File \cup {None, Torn}
    BY <1>1, <1>2 DEF Retrieve, File
  <1>5. CASE Retrieve(s) \in File
    <2>1. PICK length \in Length :
            response = [file |-> Retrieve(s), index |-> s, original_len |-> length]
      BY <1>5 DEF Answers, LengthsOf, Length
    <2>2. Retrieve(s).fpcc = OverSlots!Served(Slots[s])
      <3>1. CASE ks[s].stored
        BY <1>2, <1>3, <3>1, Outside, NoneAssumption DEF Retrieve, OverSlots!Served
      <3>2. CASE ~ks[s].stored
        <4>1. Retrieve(s) = disk[s] /\ disk[s].fpcc \in Version
          BY <1>5, <3>2 DEF Retrieve, Serving, File
        <4>2. Slots[s].file = disk[s].fpcc
          BY <1>5, <4>1, Outside DEF Kept
        <4> QED
          BY <3>2, <4>1, <4>2, Outside DEF OverSlots!Served
      <3> QED
        BY <3>1, <3>2
    <2> QED
      BY <1>5, <2>1, <2>2, ServerAssumption DEF Reply
  <1>6. CASE Retrieve(s) \in {None, Torn}
    BY <1>6, NoneAssumption, ClientAssumption DEF Answers
  <1> QED
    BY <1>4, <1>5, <1>6

(* An answer that is recorded is a Reply of ChunkGet.                        *)
LEMMA GatherImplements ==
  ASSUME ViewInv, NEW s \in Server, NEW response \in Response \ {Pending},
         Gather(s, response), UNCHANGED <<ks, disk>>,
         s \in Correct /\ response \in Reply =>
             response.index = s /\ response.file.fpcc = OverSlots!Served(Slots[s])
  PROVE  ResponsesType' /\ OwnIndex' /\ OverSlots!Reply(s)
  <1>1. /\ responses \in [Server -> Response] /\ responses[s] = Pending /\ gathering
        /\ responses' = [responses EXCEPT ![s] = response]
        /\ UNCHANGED <<gathering, result>>
    BY DEF Gather, ViewInv, ResponsesType
  <1>2. ResponsesType' /\ OwnIndex'
    BY <1>1, ServerAssumption DEF ViewInv, ResponsesType, OwnIndex
  <1>3. Slots' = Slots
    BY Unmoved
  <1>4. ReplyOf(response) \in OverSlots!Offers(s) \cup {Nothing}
    <2>1. CASE response \in Reply
      <3>1. ReplyOf(response) \in OverSlots!Offer
        BY <2>1, ReplyView
      <3>2. ReplyOf(response).ver = response.file.fpcc
        BY <2>1 DEF ReplyOf
      <3> QED
        BY <2>1, <3>1, <3>2 DEF OverSlots!Offers
    <2>2. CASE response \notin Reply
      BY <2>2, ReplyView DEF Response
    <2> QED
      BY <2>1, <2>2
  <1>5. [t \in Server |-> ReplyOf(responses'[t])]
          = [[t \in Server |-> ReplyOf(responses[t])] EXCEPT ![s] = ReplyOf(response)]
    BY <1>1
  <1>6. ReplyOf(responses[s]) = Pending
    BY <1>1, ReplyView
  <1>7. ResultOf(result)' = ResultOf(result)
    BY <1>1 DEF ResultOf
  <1>8. [t \in Server |-> ReplyOf(responses[t])]' = [t \in Server |-> ReplyOf(responses'[t])]
    BY DEF ReplyOf
  <1> QED
    BY <1>1, <1>2, <1>3, <1>4, <1>5, <1>6, <1>7, <1>8 DEF OverSlots!Reply

-----------------------------------------------------------------------------
(* The decision                                                              *)

(* When every answer is in, both count the same votes.                       *)
LEMMA VotesView ==
  ASSUME ResponsesType, \A s \in Server : responses[s] # Pending, NEW d \in Version
  PROVE  /\ OverSlots!Votes[d] = Votes(d)
         /\ OverSlots!Sound(d) = Verified(d)
         /\ OverSlots!Elected(OverSlots!Votes, d) <=> Chosen(d)
  <1> DEFINE replies == [s \in Server |-> ReplyOf(responses[s])]
  <1>1. ASSUME NEW s \in Server
        PROVE  /\ responses[s] \in Reply <=> replies[s] \in OverSlots!Offer
               /\ responses[s] \in Reply =>
                    /\ replies[s].ver = responses[s].file.fpcc
                    /\ replies[s].sound
                         <=> verify_fragment(responses[s].index, responses[s].file.fragment,
                                             responses[s].file.fpcc)
    <2>1. CASE responses[s] \in Reply
      <3>1. replies[s] \in OverSlots!Offer
        BY <2>1, ReplyView
      <3>2. replies[s] = [ver |-> responses[s].file.fpcc,
                          sound |-> verify_fragment(responses[s].index,
                                      responses[s].file.fragment, responses[s].file.fpcc)]
        BY <2>1 DEF ReplyOf
      <3> HIDE DEF replies
      <3> QED
        BY <2>1, <3>1, <3>2
    <2>2. CASE responses[s] \notin Reply
      <3>1. replies[s] = Nothing
        BY <2>2, ReplyView DEF ResponsesType, Response
      <3> HIDE DEF replies
      <3> QED
        BY <2>2, <3>1, NothingAssumption DEF OverSlots!Offer
    <2> QED
      BY <2>1, <2>2
  <1>2. ASSUME NEW v \in Version PROVE OverSlots!Votes[v] = Votes(v)
    BY <1>1 DEF OverSlots!Votes, Votes
  <1>3. OverSlots!Sound(d) = Verified(d)
    BY <1>1, <1>2 DEF OverSlots!Sound, Verified, Votes
  <1>4. DOMAIN OverSlots!Votes = Version
    BY DEF OverSlots!Votes
  <1>5. OverSlots!ClientF = ClientF
    BY SameCardinality DEF OverSlots!ClientF, ClientF, OverSlots!N, N
  <1>6. OverSlots!Elected(OverSlots!Votes, d) <=> Chosen(d)
    BY <1>2, <1>4, <1>5, SameCardinality DEF OverSlots!Elected, Chosen
  <1> QED
    BY <1>2, <1>3, <1>6

(* Servers that answer with their own index never make decode raise.         *)
LEMMA SingularNeedsOther ==
  ASSUME OwnIndex, NEW d \in Version, NEW used \in Used(d), Singular(used)
  PROVE  ~(Verified(d) \subseteq Correct)
  BY DEF OwnIndex, Used, Singular, Verified, Votes

LEMMA DecodeImplements ==
  ASSUME ViewInv, Decode
  PROVE  OverSlots!Decide
  <1>1. /\ gathering /\ gathering' = FALSE
        /\ \A s \in Server : responses[s] # Pending
        /\ UNCHANGED <<vars, offered, committed, responses>>
    BY DEF Decode
  <1>2. Slots' = Slots
    BY <1>1, Unmoved DEF vars
  <1>3. \A s \in Server : [t \in Server |-> ReplyOf(responses[t])][s] # Pending
    <2> SUFFICES ASSUME NEW s \in Server PROVE ReplyOf(responses[s]) # Pending
      OBVIOUS
    <2>1. responses[s] \in Response \ {Pending}
      BY <1>1 DEF ViewInv, ResponsesType
    <2>2. ReplyOf(responses[s]) \in OverSlots!Offer \cup {Nothing}
      BY <2>1, ReplyView DEF Response
    <2> QED
      BY <2>2, NothingAssumption DEF OverSlots!Offer
  <1>4. [t \in Server |-> ReplyOf(responses[t])]' = [t \in Server |-> ReplyOf(responses[t])]
    BY <1>1
  <1>5. ASSUME NEW d \in Version, Chosen(d), ResultOf(result') \in OverSlots!Outcome(d)
        PROVE  OverSlots!Decide
    <2>1. ResponsesType
      BY DEF ViewInv
    <2>2. OverSlots!Elected(OverSlots!Votes, d)
      BY <1>1, <1>5, <2>1, VotesView
    <2>3. ResultOf(result)' = ResultOf(result')
      BY DEF ResultOf
    <2> QED
      BY <1>1, <1>2, <1>3, <1>4, <1>5, <2>2, <2>3 DEF OverSlots!Decide
  <1>6. ASSUME NEW d \in Version, NEW used \in Used(d)
        PROVE  ~(Cardinality(OverSlots!Sound(d)) < M)
    <2>1. used \subseteq Verified(d) /\ Cardinality(used) = M /\ M \in Nat
      BY ThresholdAssumption DEF Used
    <2>2. IsFiniteSet(Verified(d))
      BY ServerAssumption, FS_Subset DEF Verified, Votes
    <2>3. Cardinality(used) <= Cardinality(Verified(d)) /\ Cardinality(Verified(d)) \in Nat
      BY <2>1, <2>2, FS_Subset, FS_CardinalityType
    <2>4. OverSlots!Sound(d) = Verified(d)
      BY <1>1, VotesView DEF ViewInv
    <2> QED
      BY <2>1, <2>3, <2>4
  <1>7. ASSUME NEW d \in Version, Chosen(d), Cardinality(Verified(d)) < M, result' = Failed
        PROVE  OverSlots!Decide
    <2>1. OverSlots!Sound(d) = Verified(d)
      BY <1>1, VotesView DEF ViewInv
    <2>2. ResultOf(result') = Failed
      BY <1>7, ClientAssumption DEF ResultOf
    <2> QED
      BY <1>5, <1>7, <2>1, <2>2, SameCardinality DEF OverSlots!Outcome
  <1>8. ASSUME NEW d \in Version, Chosen(d), NEW used \in Used(d), Singular(used),
               result' = Raised
        PROVE  OverSlots!Decide
    <2>1. ~(OverSlots!Sound(d) \subseteq Correct)
      BY <1>1, <1>8, VotesView, SingularNeedsOther DEF ViewInv
    <2>2. ResultOf(result') = Raised
      BY <1>8, ClientAssumption DEF ResultOf
    <2>3. Raised \in OverSlots!Outcome(d)
      BY <1>6, <1>8, <2>1, SameCardinality DEF OverSlots!Outcome
    <2> QED
      BY <1>5, <1>8, <2>2, <2>3
  <1>9. ASSUME NEW d \in Version, Chosen(d), NEW used \in Used(d), NEW length \in Cut(used),
               result' = [ver |-> d, original_len |-> length]
        PROVE  OverSlots!Decide
    <2>1. length \in Length
      BY DEF Cut, Used, Verified, Votes, Reply, Length
    <2>2. ResultOf(result') = d
      BY <1>9, <2>1 DEF ResultOf, Chunk
    <2>3. d \in OverSlots!Outcome(d)
      BY <1>6, <1>9, SameCardinality DEF OverSlots!Outcome
    <2> QED
      BY <1>5, <1>9, <2>2, <2>3
  <1>10. ASSUME \A d \in Version : ~Chosen(d), result' = Failed PROVE OverSlots!Decide
    <2>1. \A d \in Version : ~OverSlots!Elected(OverSlots!Votes, d)
      BY <1>1, <1>10, VotesView DEF ViewInv
    <2>2. ResultOf(result)' = Failed
      BY <1>10, ClientAssumption DEF ResultOf
    <2> QED
      BY <1>1, <1>2, <1>3, <1>4, <2>1, <2>2 DEF OverSlots!Decide
  <1> QED
    BY <1>7, <1>8, <1>9, <1>10 DEF Decode

-----------------------------------------------------------------------------
LEMMA GetKeepsMemory ==
  ASSUME MemoryInv, UNCHANGED <<ks, disk, up, net, history>>, budget' \in [Kind -> Nat]
  PROVE  MemoryInv'
  BY DEF MemoryInv, TypeInv, TypeOK, HeldTogether, StoredHasFragment, MemoryMatchesDisk,
         SameObject, net, history

LEMMA NextView ==
  ASSUME ViewInv, [GetNext]_allVars
  PROVE  ViewInv' /\ [OverSlots!GetNext]_<<Slots, gathering, responses, result>>
  <1> DEFINE Goal == ViewInv' /\ [OverSlots!GetNext]_<<Slots, gathering, responses, result>>
  <1>1. MemoryInv /\ ResponsesType /\ OwnIndex /\ budget \in [Kind -> Nat]
    BY DEF ViewInv, MemoryInv, TypeInv, TypeOK
  <1>2. ASSUME UNCHANGED vars PROVE MemoryInv' /\ UNCHANGED <<ks, disk>> /\ Slots' = Slots
    BY <1>1, <1>2, NextMemoryInv, Unmoved DEF vars
  <1>3. ASSUME UNCHANGED <<gathering, responses, result>>, MemoryInv', Slots' = Slots
        PROVE  Goal
    BY <1>1, <1>3 DEF ViewInv, ResponsesType, OwnIndex
  <1>4. CASE ServerStep
    <2>1. /\ Next /\ UNCHANGED <<gathering, responses, result>>
          /\ MemoryInv' /\ [Abstract!Next]_Slots
      BY <1>1, <1>4, NextMemoryInv, NextImplements DEF ServerStep, client
    <2>2. CASE Abstract!Next
      <3>1. OverSlots!Next
        BY <2>2, SameSlot
      <3>2. UNCHANGED OverSlots!get
        BY <2>1 DEF OverSlots!get, ReplyOf, ResultOf
      <3>3. OverSlots!GetNext
        BY <3>1, <3>2 DEF OverSlots!GetNext, OverSlots!SlotStep
      <3>4. ResponsesType' /\ OwnIndex'
        BY <1>1, <2>1 DEF ResponsesType, OwnIndex
      <3> QED
        BY <2>1, <3>3, <3>4 DEF ViewInv
    <2> QED
      BY <1>3, <2>1, <2>2
  <1>5. CASE Get
    <2>1. /\ ~gathering /\ result = None /\ gathering' = TRUE
          /\ UNCHANGED <<vars, responses, result>>
      BY <1>5 DEF Get
    <2>2. ResultOf(result) = None
      BY <2>1, ClientAssumption DEF ResultOf
    <2>3. OverSlots!Begin
      BY <1>2, <2>1, <2>2 DEF OverSlots!Begin, ReplyOf, ResultOf
    <2>4. ResponsesType' /\ OwnIndex'
      BY <1>1, <2>1 DEF ResponsesType, OwnIndex
    <2> QED
      BY <1>2, <2>1, <2>3, <2>4 DEF ViewInv, OverSlots!GetNext
  <1>6. ASSUME NEW s \in Server, OverSlots!Reply(s), MemoryInv', ResponsesType', OwnIndex'
        PROVE  Goal
    BY <1>6 DEF ViewInv, OverSlots!GetNext
  <1>7. ASSUME NEW s \in Server, Answer(s) PROVE Goal
    <2>1. s \in Correct /\ UNCHANGED vars
      BY <1>1, <1>7 DEF Answer, MemoryInv, TypeInv, TypeOK
    <2>2. PICK response \in Answers(s) : Gather(s, response)
      BY <1>7 DEF Answer
    <2>3. response \in Response \ {Pending}
      BY <1>1, <2>1, ServedView, ClientAssumption DEF Response
    <2>4. response \in Reply =>
              response.index = s /\ response.file.fpcc = OverSlots!Served(Slots[s])
      BY <1>1, <2>1, ServedView
    <2>5. ResponsesType' /\ OwnIndex' /\ OverSlots!Reply(s)
      BY <1>2, <2>1, <2>2, <2>3, <2>4, GatherImplements
    <2> QED
      BY <1>2, <1>6, <2>1, <2>5
  <1>8. ASSUME NEW s \in Server, AnswerByzantine(s) PROVE Goal
    <2>1. s \notin Correct /\ UNCHANGED vars
      BY <1>8, ServerAssumption DEF AnswerByzantine, Faulty
    <2>2. PICK response \in Reply \cup {None} : Gather(s, response)
      BY <1>8 DEF AnswerByzantine
    <2>3. response \in Response \ {Pending}
      BY ClientAssumption DEF Response
    <2>4. ResponsesType' /\ OwnIndex' /\ OverSlots!Reply(s)
      BY <1>2, <2>1, <2>2, <2>3, GatherImplements
    <2> QED
      BY <1>2, <1>6, <2>1, <2>4
  <1>9. ASSUME NEW s \in Server, NoAnswer(s) PROVE Goal
    <2>1. Gather(s, Unreachable) /\ UNCHANGED <<ks, disk, up, net, history>>
      BY <1>9 DEF NoAnswer
    <2>2. MemoryInv'
      BY <1>1, <1>9, <2>1, GetKeepsMemory, SpendType
      DEF NoAnswer, Kind, MemoryInv, TypeInv
    <2>3. Unreachable \in Response \ {Pending} /\ Unreachable \notin Reply
      BY ClientAssumption DEF Response
    <2>4. ResponsesType' /\ OwnIndex' /\ OverSlots!Reply(s)
      BY <2>1, <2>3, GatherImplements
    <2> QED
      BY <1>6, <2>2, <2>4
  <1>10. CASE Decode
    <2>1. UNCHANGED <<vars, responses>>
      BY <1>10 DEF Decode
    <2>2. ResponsesType' /\ OwnIndex'
      BY <1>1, <2>1 DEF ResponsesType, OwnIndex
    <2> QED
      BY <1>2, <1>10, <2>1, <2>2, DecodeImplements DEF ViewInv, OverSlots!GetNext
  <1>11. CASE UNCHANGED allVars
    BY <1>2, <1>3, <1>11 DEF allVars, client
  <1> QED
    BY <1>4, <1>5, <1>7, <1>8, <1>9, <1>10, <1>11 DEF GetNext

LEMMA InitView == GetInit => ViewInv /\ OverSlots!GetInit
  <1> SUFFICES ASSUME GetInit PROVE ViewInv /\ OverSlots!GetInit
    OBVIOUS
  <1>1. Init /\ InitClient
    BY DEF GetInit
  <1>2. ViewInv
    BY <1>1, InitMemoryInv, ServerAssumption, ClientAssumption
    DEF InitClient, ViewInv, ResponsesType, OwnIndex, Response
  <1>3. OverSlots!Init
    BY <1>1, InitImplements, SameSlot
  <1>4. [s \in Server |-> ReplyOf(responses[s])] = [s \in Server |-> Pending]
    BY <1>1, ReplyView DEF InitClient
  <1>5. ResultOf(result) = None
    BY <1>1, ClientAssumption DEF InitClient, ResultOf
  <1> QED
    BY <1>1, <1>2, <1>3, <1>4, <1>5 DEF InitClient, OverSlots!GetInit

(* The servers, their protocol and a client's get implement ChunkGet: with   *)
(* any number of faults, a get returns, fails and raises as it would over    *)
(* slots that commit when they like, each answering what it serves.          *)
THEOREM GetImplementsChunkGet == GetSpec => OverSlots!GetSpec /\ ImplementsChunkGet
  <1>1. UNCHANGED <<Slots, gathering, responses, result>>
          => UNCHANGED <<Slots, OverSlots!get>>
    BY DEF OverSlots!get, ReplyOf, ResultOf
  <1>2. ViewInv /\ [GetNext]_allVars
          => ViewInv' /\ [OverSlots!GetNext]_<<Slots, gathering, responses, result>>
    BY NextView
  <1> QED
    BY <1>1, <1>2, InitView, PTL DEF GetSpec, OverSlots!GetSpec, ImplementsChunkGet
===============================================================================
