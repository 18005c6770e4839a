--------------------------- MODULE RetrievalProofs ---------------------------
(* Theorems about Retrieval.                                                 *)
EXTENDS MCRetrieval, AvidServerProofs

(* The client derives its f from n and m alone; it is never less than the    *)
(* servers' f, because m leaves room for 2f missing fragments.               *)
LEMMA ClientFCoversF == ClientF \in Nat /\ ClientF >= F
  <1>1. M \in Nat /\ F \in Nat /\ N \in Nat /\ M <= N - 2 * F
    BY ClusterSize, ThresholdAssumption
  <1> QED
    BY <1>1 DEF ClientF

(* f + 1 equal digests include one that a correct server sent.               *)
LEMMA VoteOfCorrect ==
  ASSUME Cardinality(Faulty) <= F, NEW d \in Version, Chosen(d)
  PROVE  \E s \in Correct : responses[s] \in Reply /\ responses[s].file.fpcc = d
  <1>1. Votes(d) \in SUBSET Server
    BY DEF Votes
  <1>2. Cardinality(Votes(d)) >= ReadyThreshold
    <2>1. Cardinality(Votes(d)) \in Nat
      BY <1>1, CorrectShare
    <2>2. Cardinality(Votes(d)) >= ClientF + 1
      BY DEF Chosen
    <2> QED
      BY <2>1, <2>2, ClientFCoversF, ClusterSize DEF ReadyThreshold
  <1>3. Votes(d) \cap Correct # {}
    BY <1>1, <1>2, ReadyQuorum
  <1> QED
    BY <1>3 DEF Votes

-----------------------------------------------------------------------------
(* Whatever FPCC a correct server or the network has came from a client.     *)

ServersHaveOffered ==
    /\ \A r \in requests : r.ver \in offered
    /\ \A s \in Correct :
         /\ ks[s].fpcc # None => ks[s].fpcc \in offered
         /\ disk[s] \in File => disk[s].fpcc \in offered

ClientHasOffered ==
    /\ \A s \in Correct : responses[s] \in Reply => responses[s].file.fpcc \in offered
    /\ ReturnedWasPut

OfferedInv == MemoryInv /\ ServersHaveOffered /\ ClientHasOffered

LEMMA InitOfferedInv == GetInit => OfferedInv
  <1> SUFFICES ASSUME GetInit PROVE ServersHaveOffered /\ ClientHasOffered
    BY InitMemoryInv DEF OfferedInv, GetInit
  <1>1. ServersHaveOffered
    BY NoneAssumption DEF GetInit, Init, EmptyKeyState, ServersHaveOffered
  <1>2. ClientHasOffered
    BY ServerAssumption, ClientAssumption, NoneAssumption
    DEF GetInit, InitClient, ClientHasOffered, ReturnedWasPut
  <1> QED
    BY <1>1, <1>2

LEMMA ServerStepOffered ==
  ASSUME OfferedInv, ServerStep
  PROVE  MemoryInv' /\ ServersHaveOffered' /\ ClientHasOffered'
  <1>1. /\ MemoryInv /\ TypeInv /\ ServersHaveOffered /\ ClientHasOffered
        /\ requests \subseteq Request
        /\ echoes \subseteq Message /\ readys \subseteq Message
        /\ [Next]_vars
    BY DEF OfferedInv, MemoryInv, TypeInv, TypeOK, ServerStep
  <1>2. /\ offered \subseteq offered'
        /\ \A r \in requests' : r.ver \in offered'
        /\ UNCHANGED <<responses, result>>
    BY DEF ServerStep, client
  <1>3. ClientHasOffered'
    BY <1>1, <1>2 DEF ClientHasOffered, ReturnedWasPut
  <1>4. ASSUME NEW r \in requests, Disperse(r) PROVE ServersHaveOffered'
    BY <1>1, <1>2, <1>4, DisperseStep DEF ServersHaveOffered
  <1>5. ASSUME NEW m \in Message, ReceiveEcho(m) PROVE ServersHaveOffered'
    BY <1>1, <1>2, <1>5, EchoStep DEF ServersHaveOffered
  <1> DEFINE Has(s) == /\ ks'[s].fpcc # None => ks'[s].fpcc \in offered'
                       /\ disk'[s] \in File => disk'[s].fpcc \in offered'
  <1>6. ASSUME \A s \in Correct : Has(s) PROVE ServersHaveOffered'
    BY <1>2, <1>6 DEF ServersHaveOffered
  <1>7. ASSUME NEW m \in Message, ReceiveReady(m), NEW s \in Correct PROVE Has(s)
    <2>1. /\ ks[s].fpcc # None => ks[s].fpcc \in offered'
          /\ disk[s] \in File => disk[s].fpcc \in offered'
      BY <1>1, <1>2 DEF ServersHaveOffered
    <2>2. CASE s # m.to \/ ~Commits(AfterReady(m))
      BY <1>1, <1>7, <2>1, <2>2, ReadyStep
    <2>3. CASE s = m.to /\ Commits(AfterReady(m))
      <3>1. ks[s].fpcc # None
        <4>1. AfterReady(m).fragment # None
          BY <2>3 DEF Commits
        <4>2. AfterReady(m).fragment = ks[s].fragment
          BY <1>1, <2>3, ReceiveType DEF TypeInv
        <4> QED
          BY <1>1, <4>1, <4>2 DEF TypeInv, HeldTogether
      <3>2. /\ ks'[s].fpcc = ks[s].fpcc
            /\ disk'[s] = [fragment |-> ks[s].fragment, fpcc |-> ks[s].fpcc]
        BY <1>1, <1>7, <2>3, ReadyStep
      <3> QED
        BY <2>1, <3>1, <3>2
    <2> QED
      BY <2>2, <2>3
  <1>8. ASSUME TakesAway, NEW s \in Correct PROVE Has(s)
    <2>1. /\ ks[s].fpcc # None => ks[s].fpcc \in offered'
          /\ disk[s] \in File => disk[s].fpcc \in offered'
      BY <1>1, <1>2 DEF ServersHaveOffered
    <2>2. /\ disk'[s] \in {None, Torn, disk[s]}
          /\ \/ ks'[s].fpcc \in {None, ks[s].fpcc}
             \/ disk[s] \in File /\ ks'[s].fpcc = disk[s].fpcc
      BY <1>8 DEF TakesAway
    <2> QED
      BY <2>1, <2>2, NoneAssumption
  <1> HIDE DEF Has
  <1>9. ServersHaveOffered'
    BY <1>1, <1>4, <1>5, <1>6, <1>7, <1>8, StepKind, MessageType
  <1> QED
    BY <1>1, <1>3, <1>9, NextMemoryInv

(* What a correct server answers it has in memory or on disk.                *)
LEMMA AnswerOffered ==
  ASSUME OfferedInv, NEW s \in Correct, Retrieve(s) \in File
  PROVE  Retrieve(s).fpcc \in offered
  <1>1. CASE Serving(ks[s])
    <2>1. ks[s].fpcc # None
      BY <1>1 DEF Serving, OfferedInv, MemoryInv, TypeInv, HeldTogether
    <2> QED
      BY <1>1, <2>1 DEF Retrieve, OfferedInv, ServersHaveOffered
  <1>2. CASE ~Serving(ks[s])
    BY <1>2 DEF Retrieve, OfferedInv, ServersHaveOffered
  <1> QED
    BY <1>1, <1>2

ResponsesType == responses \in [Server -> Response]

LEMMA AnswersAreReplies ==
  ASSUME TypeInv, NEW s \in Correct, NEW response \in Answers(s)
  PROVE  /\ response \in Reply \cup {None, Torn}
         /\ response \in Reply <=> Retrieve(s) \in File
         /\ response \in Reply => response.file = Retrieve(s) /\ response.index = s
  <1>1. ks[s] \in KeyState /\ disk[s] \in File \cup {None, Torn}
    BY DEF TypeInv, TypeOK
  <1>2. Serving(ks[s]) => ks[s].fragment \in Fragment /\ ks[s].fpcc \in Version
    BY <1>1 DEF Serving, TypeInv, HeldTogether, KeyState
  <1>3. Retrieve(s) \in File \cup {None, Torn}
    BY <1>1, <1>2 DEF Retrieve, File
  <1>4. CASE Retrieve(s) \in File
    <2>1. PICK length \in Length :
            response = [file |-> Retrieve(s), index |-> s, original_len |-> length]
      BY <1>4 DEF Answers, LengthsOf, Length
    <2> QED
      BY <1>4, <2>1, ServerAssumption DEF Reply
  <1>5. CASE Retrieve(s) \in {None, Torn}
    BY <1>5, NoneAssumption, ClientAssumption DEF Answers
  <1> QED
    BY <1>3, <1>4, <1>5

LEMMA AnswersType ==
  ASSUME OfferedInv, NEW s \in Correct, NEW response \in Answers(s)
  PROVE  /\ response \in Reply \cup {None, Torn}
         /\ response \in Reply => response.file.fpcc \in offered
  <1>1. TypeInv
    BY DEF OfferedInv, MemoryInv
  <1> QED
    BY <1>1, AnswersAreReplies, AnswerOffered

(* The client's steps leave the servers alone, and an answer is recorded as  *)
(* it was given.                                                             *)
LEMMA GatherOffered ==
  ASSUME OfferedInv, ResponsesType, NEW s \in Server, NEW response \in Response,
         Gather(s, response), MemoryInv',
         s \in Correct /\ response \in Reply => response.file.fpcc \in offered,
         UNCHANGED <<ks, disk, net>>
  PROVE  OfferedInv' /\ ResponsesType'
  <1>1. /\ responses' = [responses EXCEPT ![s] = response]
        /\ UNCHANGED <<offered, result>>
    BY DEF Gather
  <1>2. ResponsesType'
    BY <1>1 DEF ResponsesType
  <1>3. ClientHasOffered'
    BY <1>1, ServerAssumption
    DEF OfferedInv, ClientHasOffered, ReturnedWasPut, ResponsesType
  <1>4. ServersHaveOffered'
    BY <1>1 DEF OfferedInv, ServersHaveOffered, net
  <1> QED
    BY <1>2, <1>3, <1>4 DEF OfferedInv

LEMMA NextOfferedInv ==
  ASSUME Cardinality(Faulty) <= F
  PROVE  OfferedInv /\ ResponsesType /\ [GetNext]_allVars => OfferedInv' /\ ResponsesType'
  <1> SUFFICES ASSUME OfferedInv, ResponsesType, [GetNext]_allVars
               PROVE  OfferedInv' /\ ResponsesType'
    OBVIOUS
  <1>1. CASE ServerStep
    <2>1. ResponsesType'
      BY <1>1 DEF ServerStep, client, ResponsesType
    <2> QED
      BY <1>1, <2>1, ServerStepOffered DEF OfferedInv
  <1>2. ASSUME UNCHANGED vars PROVE MemoryInv' /\ UNCHANGED <<ks, disk, net>>
    BY <1>2, NextMemoryInv DEF OfferedInv, vars
  <1>3. ASSUME UNCHANGED <<vars, offered, responses, result>>
        PROVE  OfferedInv' /\ ResponsesType'
    <2>1. ServersHaveOffered' /\ ClientHasOffered' /\ ResponsesType'
      BY <1>2, <1>3
      DEF OfferedInv, ServersHaveOffered, ClientHasOffered, ReturnedWasPut,
          ResponsesType, net
    <2> QED
      BY <1>2, <1>3, <2>1 DEF OfferedInv
  <1>4. CASE Get
    BY <1>3, <1>4 DEF Get
  <1>5. ASSUME NEW s \in Server, Answer(s) PROVE OfferedInv' /\ ResponsesType'
    <2>1. s \in Correct /\ UNCHANGED vars
      BY <1>5 DEF Answer, OfferedInv, MemoryInv, TypeInv, TypeOK
    <2>2. PICK response \in Answers(s) : Gather(s, response)
      BY <1>5 DEF Answer
    <2>3. /\ response \in Response
          /\ response \in Reply => response.file.fpcc \in offered
      BY <2>1, AnswersType DEF Response
    <2> QED
      BY <1>2, <2>1, <2>2, <2>3, GatherOffered
  <1>6. ASSUME NEW s \in Server, AnswerByzantine(s) PROVE OfferedInv' /\ ResponsesType'
    <2>1. s \notin Correct /\ UNCHANGED vars
      BY <1>6, ServerAssumption DEF AnswerByzantine, Faulty
    <2>2. PICK response \in Reply \cup {None} : Gather(s, response)
      BY <1>6 DEF AnswerByzantine
    <2>3. response \in Response
      BY DEF Response
    <2> QED
      BY <1>2, <2>1, <2>2, <2>3, GatherOffered
  <1>7. ASSUME NEW s \in Server, NoAnswer(s) PROVE OfferedInv' /\ ResponsesType'
    <2>1. Gather(s, Unreachable) /\ UNCHANGED <<ks, disk, net>>
      BY <1>7 DEF NoAnswer
    <2>2. MemoryInv'
      <3>1. budget' \in [Kind -> Nat] /\ UNCHANGED <<ks, disk, up, net, history>>
        BY <1>7, SpendType DEF NoAnswer, Kind, OfferedInv, MemoryInv, TypeInv, TypeOK
      <3> QED
        BY <3>1
        DEF OfferedInv, MemoryInv, TypeInv, TypeOK, HeldTogether, StoredHasFragment,
            MemoryMatchesDisk, SameObject, net, history
    <2>3. Unreachable \in Response /\ Unreachable \notin Reply
      BY ClientAssumption DEF Response
    <2> QED
      BY <2>1, <2>2, <2>3, GatherOffered
  <1>8. CASE Decode
    <2>1. UNCHANGED <<vars, offered, responses>> /\ MemoryInv'
      BY <1>2, <1>8 DEF Decode
    <2>2. ReturnedWasPut'
      <3>1. CASE result' \in {Failed, Raised}
        BY <3>1, ClientAssumption DEF ReturnedWasPut
      <3>2. ASSUME NEW d \in Version, Chosen(d), NEW used \in Used(d),
                   NEW length \in Cut(used),
                   result' = [ver |-> d, original_len |-> length]
            PROVE  ReturnedWasPut'
        <4>1. d \in offered
          BY <3>2, VoteOfCorrect DEF OfferedInv, ClientHasOffered
        <4> QED
          BY <2>1, <3>2, <4>1 DEF ReturnedWasPut
      <3> QED
        BY <1>8, <3>1, <3>2 DEF Decode
    <2>3. ServersHaveOffered' /\ ClientHasOffered' /\ ResponsesType'
      BY <2>1, <2>2
      DEF OfferedInv, ServersHaveOffered, ClientHasOffered, ResponsesType, vars, net
    <2> QED
      BY <2>1, <2>3 DEF OfferedInv
  <1>9. CASE UNCHANGED allVars
    BY <1>3, <1>9 DEF allVars, client
  <1> QED
    BY <1>1, <1>4, <1>5, <1>6, <1>7, <1>8, <1>9 DEF GetNext

(* A get never returns what no client put: the f + 1 digests that the client *)
(* waits for include a correct server's, and a correct server's FPCC came    *)
(* from a client, through /disperse, its memory, its file, or /lie's reload. *)
THEOREM ReturnedWasPutCorrect ==
  ASSUME Cardinality(Faulty) <= F
  PROVE  GetSpec => []ReturnedWasPut
  <1>1. GetInit => OfferedInv /\ ResponsesType
    BY InitOfferedInv DEF GetInit, InitClient, ResponsesType, Response
  <1>2. OfferedInv => ReturnedWasPut
    BY DEF OfferedInv, ClientHasOffered
  <1> QED
    BY <1>1, <1>2, NextOfferedInv, PTL DEF GetSpec

-----------------------------------------------------------------------------
(* Type correctness of the client: what it records and returns is well       *)
(* formed, whatever Byzantine servers reply.                                 *)

GetTypeInv == TypeInv /\ GetTypeOK

LEMMA GatherType ==
  ASSUME GetTypeInv, TypeInv', NEW s \in Server, NEW response \in Response, Gather(s, response)
  PROVE  GetTypeInv'
  <1>1. /\ responses' = [responses EXCEPT ![s] = response]
        /\ UNCHANGED <<offered, gathering, committed, result>>
    BY DEF Gather
  <1>2. TypeOK'
    BY DEF TypeInv
  <1> QED
    BY <1>1, <1>2 DEF GetTypeInv, GetTypeOK

(* The length that the client cuts at is one that came with a fragment, or 0. *)
LEMMA CutType ==
  ASSUME GetTypeOK, NEW d \in Version, NEW used \in Used(d)
  PROVE  Cut(used) \subseteq Length
  <1>1. \A s \in used : s \in Server /\ responses[s] \in Reply
    BY DEF Used, Verified, Votes
  <1>2. \A s \in used : responses[s].original_len \in Length
    BY <1>1 DEF Reply
  <1> QED
    BY <1>2 DEF Cut, Length

LEMMA NextGetTypeInv == GetTypeInv /\ [GetNext]_allVars => GetTypeInv'
  <1> SUFFICES ASSUME GetTypeInv, [GetNext]_allVars PROVE GetTypeInv'
    OBVIOUS
  <1>1. TypeInv /\ TypeOK /\ GetTypeOK
    BY DEF GetTypeInv, TypeInv
  <1>2. ASSUME UNCHANGED vars PROVE TypeInv' /\ TypeOK'
    BY <1>1, <1>2, NextTypeInv DEF TypeInv
  <1>3. CASE ServerStep
    <2>1. TypeInv' /\ TypeOK' /\ requests' \subseteq Request
      BY <1>1, <1>3, NextTypeInv DEF ServerStep, TypeInv, TypeOK
    <2>2. /\ offered' = offered \cup {r.ver : r \in requests'}
          /\ UNCHANGED <<gathering, committed, responses, result>>
      BY <1>3 DEF ServerStep, client
    <2>3. offered' \subseteq Version
      BY <1>1, <2>1, <2>2 DEF GetTypeOK, Request
    <2> QED
      BY <1>1, <2>1, <2>2, <2>3 DEF GetTypeInv, GetTypeOK
  <1>4. CASE Get
    <2>1. committed' = disk /\ gathering' \in BOOLEAN
          /\ UNCHANGED <<vars, offered, responses, result>>
      BY <1>4 DEF Get
    <2> QED
      BY <1>1, <1>2, <2>1 DEF GetTypeInv, GetTypeOK, TypeOK
  <1>5. ASSUME NEW s \in Server, Answer(s) PROVE GetTypeInv'
    <2>1. s \in Correct /\ UNCHANGED vars
      BY <1>1, <1>5 DEF Answer, TypeOK
    <2>2. PICK response \in Answers(s) : Gather(s, response)
      BY <1>5 DEF Answer
    <2>3. response \in Response
      BY <1>1, <2>1, AnswersAreReplies DEF Response
    <2> QED
      BY <1>2, <2>1, <2>2, <2>3, GatherType
  <1>6. ASSUME NEW s \in Server, AnswerByzantine(s) PROVE GetTypeInv'
    <2>1. PICK response \in Reply \cup {None} : Gather(s, response)
      BY <1>6 DEF AnswerByzantine
    <2>2. response \in Response /\ UNCHANGED vars
      BY <1>6 DEF Response, AnswerByzantine
    <2> QED
      BY <1>2, <2>1, <2>2, GatherType
  <1>7. ASSUME NEW s \in Server, NoAnswer(s) PROVE GetTypeInv'
    <2>1. budget' \in [Kind -> Nat] /\ UNCHANGED <<ks, disk, up, net, history>>
      BY <1>1, <1>7, SpendType DEF NoAnswer, Kind, TypeOK
    <2>2. TypeInv'
      BY <1>1, <2>1 DEF TypeInv, TypeOK, HeldTogether, net, history
    <2>3. Unreachable \in Response
      BY DEF Response
    <2> QED
      BY <1>7, <2>2, <2>3, GatherType DEF NoAnswer
  <1>8. CASE Decode
    <2>1. gathering' \in BOOLEAN /\ UNCHANGED <<vars, offered, committed, responses>>
      BY <1>8 DEF Decode
    <2>2. result' \in Chunk \cup {None, Failed, Raised}
      <3>1. CASE result' \in {Failed, Raised}
        BY <3>1
      <3>2. ASSUME NEW d \in Version, NEW used \in Used(d), NEW length \in Cut(used),
                   result' = [ver |-> d, original_len |-> length]
            PROVE  result' \in Chunk
        BY <1>1, <3>2, CutType DEF Chunk
      <3> QED
        BY <1>8, <3>1, <3>2 DEF Decode
    <2> QED
      BY <1>1, <1>2, <2>1, <2>2 DEF GetTypeInv, GetTypeOK
  <1>9. CASE UNCHANGED allVars
    BY <1>1, <1>2, <1>9 DEF allVars, client, GetTypeInv, GetTypeOK
  <1> QED
    BY <1>3, <1>4, <1>5, <1>6, <1>7, <1>8, <1>9 DEF GetNext

LEMMA InitGetTypeInv == GetInit => GetTypeInv
  BY InitTypeInv, ServerAssumption
  DEF GetInit, InitClient, GetTypeInv, GetTypeOK, TypeInv, Response

(* Whatever servers answer and however many fail, the client's record of     *)
(* them and its result are well formed: a chunk of a known content cut at a  *)
(* length that some answer carried, or one of the two errors.                *)
THEOREM GetTypeCorrect == GetSpec => []GetTypeOK
  <1>1. GetTypeInv => GetTypeOK
    BY DEF GetTypeInv
  <1> QED
    BY <1>1, InitGetTypeInv, NextGetTypeInv, PTL DEF GetSpec


-----------------------------------------------------------------------------
(* From the state that a put of v1 reaches when every server has stored it.  *)
(* With every server correct, a second content gets no further than ECHO:    *)
(* only servers that forgot v1 in a crash or a reset take it up, and they    *)
(* are fewer than the n - f that a READY needs. So no READY is ever sent     *)
(* again, and no file is ever written.                                       *)

AllCorrect ==
    /\ Correct = Server
    /\ v1 \in Version
    /\ Budget["crash"] + Budget["injection"] < N - F

FileOfV1 == [fragment |-> FragmentOf(v1), fpcc |-> v1]

Remembers(s) ==
    /\ ks[s].ready_sent \/ (ks[s].ready_set = {} /\ ks[s].echo_set \subseteq disturbed)
    /\ ks[s].stored \/ s \in disturbed
    /\ disk[s] \in {FileOfV1, None}

FewDisturbed ==
    Cardinality(disturbed) + budget["crash"] + budget["injection"]
        <= Budget["crash"] + Budget["injection"]

SettledInv ==
    /\ MemoryInv
    /\ readys = {}
    /\ \A m \in echoes : m.from \in disturbed
    /\ \A s \in Correct : Remembers(s)
    /\ FewDisturbed

LEMMA AllCorrectSends ==
  ASSUME AllCorrect
  PROVE  FromByzantine = {} /\ Faulty = {}
  BY ServerAssumption DEF AllCorrect, FromByzantine, Faulty

LEMMA BudgetIsNat ==
  ASSUME SettledInv
  PROVE  /\ \A kind \in Kind : budget[kind] \in Nat /\ Budget[kind] \in Nat
         /\ budget \in [Kind -> Nat]
         /\ IsFiniteSet(disturbed) /\ Cardinality(disturbed) \in Nat
         /\ disturbed \subseteq Correct
  BY BudgetAssumption, ClusterSize, FS_Subset, FS_CardinalityType
  DEF SettledInv, MemoryInv, TypeInv, TypeOK

(* The votes that a server that forgot can hear are too few.                 *)
LEMMA TooFewEchoes ==
  ASSUME AllCorrect, SettledInv, NEW m \in echoes
  PROVE  ~SendsReady(AfterEcho(m))
  <1> DEFINE k == AfterEcho(m)
  <1>1. /\ m \in Message /\ m.to \in Correct /\ ks[m.to] \in KeyState
        /\ m.from \in disturbed /\ Remembers(m.to)
    BY DEF SettledInv, MemoryInv, TypeInv, TypeOK, Message
  <1>2. /\ k.ready_sent = ks[m.to].ready_sent
        /\ k.ready_set = ks[m.to].ready_set
        /\ k.echo_set = ks[m.to].echo_set \cup {m.from}
    BY <1>1 DEF AfterEcho, KeyState
  <1> HIDE DEF k
  <1> SUFFICES ASSUME ~k.ready_sent PROVE ~EnoughEchos(k) /\ ~EnoughReadys(k)
    BY DEF SendsReady, k
  <1>3. k.ready_set = {} /\ k.echo_set \subseteq disturbed
    BY <1>1, <1>2 DEF Remembers
  <1>4. Cardinality(k.echo_set) <= Cardinality(disturbed) /\ Cardinality(k.echo_set) \in Nat
    BY <1>3, BudgetIsNat, FS_Subset, FS_CardinalityType
  <1>5. Cardinality(disturbed) < N - F
    BY BudgetIsNat, ClusterSize DEF SettledInv, FewDisturbed, AllCorrect, Kind
  <1>6. ~EnoughEchos(k)
    BY <1>4, <1>5, BudgetIsNat, ClusterSize DEF EnoughEchos, EchoThreshold
  <1>7. ~EnoughReadys(k)
    BY <1>3, FS_EmptySet, ClusterSize DEF EnoughReadys, ReadyThreshold
  <1> QED
    BY <1>6, <1>7

(* An ECHO is counted and does nothing else.                                 *)
LEMMA EchoOnlyCounts ==
  ASSUME AllCorrect, SettledInv, NEW m \in echoes, ReceiveEcho(m)
  PROVE  /\ m.to \in Correct /\ m.from \in disturbed
         /\ ks' = [ks EXCEPT ![m.to] = AfterEcho(m)]
         /\ AfterEcho(m).ready_sent = ks[m.to].ready_sent
         /\ AfterEcho(m).ready_set = ks[m.to].ready_set
         /\ AfterEcho(m).echo_set = ks[m.to].echo_set \cup {m.from}
         /\ AfterEcho(m).stored = ks[m.to].stored
         /\ AfterEcho(m).fragment = ks[m.to].fragment
         /\ echoes' \subseteq echoes /\ readys' = readys
         /\ UNCHANGED <<disk, budget, disturbed>>
  <1>1. /\ m \in Message /\ m.to \in Correct /\ ks[m.to] \in KeyState
        /\ m.from \in disturbed
    BY DEF SettledInv, MemoryInv, TypeInv, TypeOK, Message
  <1>2. ~SendsReady(AfterEcho(m))
    BY TooFewEchoes
  <1>3. /\ ks' = [ks EXCEPT ![m.to] = AfterEcho(m)]
        /\ echoes' \subseteq echoes /\ readys' = readys
        /\ UNCHANGED <<disk, budget, disturbed>>
    BY <1>2 DEF ReceiveEcho, _maybe_send_ready, history
  <1>4. /\ AfterEcho(m).ready_sent = ks[m.to].ready_sent
        /\ AfterEcho(m).ready_set = ks[m.to].ready_set
        /\ AfterEcho(m).echo_set = ks[m.to].echo_set \cup {m.from}
        /\ AfterEcho(m).stored = ks[m.to].stored
        /\ AfterEcho(m).fragment = ks[m.to].fragment
    BY <1>1 DEF AfterEcho, KeyState
  <1> QED
    BY <1>1, <1>3, <1>4

(* A server that is disturbed is paid for.                                   *)
LEMMA DisturbedIsPaid ==
  ASSUME SettledInv, NEW kind \in {"crash", "injection"}, Spend(kind),
         NEW s \in Correct, disturbed' = disturbed \cup {s}
  PROVE  FewDisturbed'
  <1>1. /\ budget' = [budget EXCEPT ![kind] = @ - 1] /\ budget[kind] > 0
        /\ budget \in [Kind -> Nat]
        /\ budget["crash"] \in Nat /\ budget["injection"] \in Nat
        /\ Budget["crash"] \in Nat /\ Budget["injection"] \in Nat
        /\ IsFiniteSet(disturbed) /\ Cardinality(disturbed) \in Nat
    BY BudgetIsNat DEF Spend, Kind
  <1>2. budget'["crash"] + budget'["injection"] = budget["crash"] + budget["injection"] - 1
    <2>1. CASE kind = "crash"
      BY <1>1, <2>1 DEF Kind
    <2>2. CASE kind = "injection"
      BY <1>1, <2>2 DEF Kind
    <2> QED
      BY <2>1, <2>2
  <1>3. Cardinality(disturbed') <= Cardinality(disturbed) + 1 /\ Cardinality(disturbed') \in Nat
    <2>1. Cardinality(disturbed \cup {s}) \in {Cardinality(disturbed), Cardinality(disturbed) + 1}
      BY <1>1, FS_AddElement
    <2> QED
      BY <1>1, <2>1
  <1>4. budget'["crash"] \in Int /\ budget'["injection"] \in Int
    BY <1>1 DEF Kind
  <1> QED
    BY <1>1, <1>2, <1>3, <1>4 DEF SettledInv, FewDisturbed

LEMMA NextSettledInv ==
  ASSUME AllCorrect
  PROVE  SettledInv /\ [Next]_vars => SettledInv'
  <1> SUFFICES ASSUME SettledInv, [Next]_vars
               PROVE  /\ readys' = {}
                      /\ \A m \in echoes' : m.from \in disturbed'
                      /\ \A s \in Correct : Remembers(s)'
                      /\ FewDisturbed'
    BY NextMemoryInv DEF SettledInv
  <1> DEFINE Same == /\ readys' = {}
                     /\ \A m \in echoes' : m.from \in disturbed'
                     /\ \A s \in Correct : Remembers(s)'
                     /\ FewDisturbed'
  <1>0. /\ MemoryInv /\ TypeInv /\ TypeOK /\ readys = {} /\ FromByzantine = {}
        /\ ks \in [Correct -> KeyState]
        /\ disk \in [Correct -> File \cup {None, Torn}]
        /\ requests \subseteq Request /\ echoes \subseteq Message
        /\ \A m \in echoes : m.from \in disturbed
        /\ \A s \in Correct : Remembers(s)
        /\ FewDisturbed
    BY AllCorrectSends DEF SettledInv, MemoryInv, TypeInv, TypeOK
  <1>1. ASSUME UNCHANGED <<ks, disk, disturbed>>,
               budget'["crash"] = budget["crash"], budget'["injection"] = budget["injection"],
               echoes' \subseteq echoes, readys' \subseteq readys
        PROVE  Same
    BY <1>0, <1>1 DEF Remembers, FewDisturbed
  <1>2. ASSUME NEW r \in requests, Disperse(r) PROVE Same
    <2> DEFINE s == r.to
    <2>1. /\ s \in Correct /\ UNCHANGED <<disk, budget, disturbed, readys>>
          /\ \A t \in Correct : ks[t].stored \/ t # s => ks'[t] = ks[t]
          /\ ~ks[s].stored => s \in disturbed
      BY <1>0, <1>2, DisperseStep DEF Disperse, Remembers
    <2>2. /\ ks'[s].ready_sent = ks[s].ready_sent
          /\ ks'[s].ready_set = ks[s].ready_set /\ ks'[s].echo_set = ks[s].echo_set
      BY <1>0, <1>2, <2>1, DisperseStep, DisperseKeepsSent
    <2>3. \A t \in Correct : Remembers(t)'
      BY <1>0, <2>1, <2>2 DEF Remembers
    <2>4. \A m \in echoes' : m.from \in disturbed'
      <3>1. \A m \in Broadcast(s, r.ver) : m.from = s
        BY DEF Broadcast
      <3>2. \/ echoes' = echoes
            \/ ~ks[s].stored /\ echoes' \subseteq echoes \cup Broadcast(s, r.ver)
        BY <1>0, <1>2, DisperseStep
      <3> QED
        BY <1>0, <2>1, <3>1, <3>2
    <2> QED
      BY <1>0, <2>1, <2>3, <2>4 DEF FewDisturbed
  <1>3. ASSUME NEW m \in echoes, ReceiveEcho(m) PROVE Same
    <2> DEFINE k == AfterEcho(m)
    <2>1. /\ m.to \in Correct /\ m.from \in disturbed
          /\ ks' = [ks EXCEPT ![m.to] = k]
          /\ k.ready_sent = ks[m.to].ready_sent
          /\ k.ready_set = ks[m.to].ready_set
          /\ k.echo_set = ks[m.to].echo_set \cup {m.from}
          /\ k.stored = ks[m.to].stored
          /\ echoes' \subseteq echoes /\ readys' = readys
          /\ UNCHANGED <<disk, budget, disturbed>>
      BY <1>3, EchoOnlyCounts
    <2> HIDE DEF k
    <2>2. \A t \in Correct : Remembers(t)'
      BY <1>0, <2>1 DEF Remembers
    <2> QED
      BY <1>0, <2>1, <2>2 DEF FewDisturbed
  <1>4. ASSUME NEW s \in Correct, NEW kind \in {"crash", "injection"}, Spend(kind),
               disturbed' = disturbed \cup {s},
               \A t \in Correct \ {s} : ks'[t] = ks[t] /\ disk'[t] = disk[t],
               \/ ks'[s] = EmptyKeyState
               \/ /\ ks'[s].ready_sent = ks[s].ready_sent
                  /\ ks'[s].ready_set = ks[s].ready_set
                  /\ ks'[s].echo_set = ks[s].echo_set,
               disk'[s] \in {disk[s], None},
               UNCHANGED <<echoes, readys>>
        PROVE  Same
    <2>1. FewDisturbed'
      BY <1>4, DisturbedIsPaid
    <2>2. \A t \in Correct : Remembers(t)'
      BY <1>0, <1>4 DEF Remembers, EmptyKeyState
    <2> QED
      BY <1>0, <1>4, <2>1, <2>2
  <1>5. ASSUME NEW s \in Correct, Crash(s) PROVE Same
    BY <1>0, <1>4, <1>5 DEF Crash, Halt, net
  <1>6. ASSUME NEW s \in Correct, Reset(s) PROVE Same
    BY <1>0, <1>4, <1>6 DEF Reset, Inject, net
  <1>7. ASSUME NEW s \in Correct, Lie(s) PROVE Same
    <2> DEFINE k == Loaded(s)
    <2>1. k.fragment # None /\ k \in KeyState /\ k.ready_sent = ks[s].ready_sent
      <3>1. ks[s] \in KeyState
        BY <1>0
      <3>2. CASE Serving(ks[s])
        BY <3>1, <3>2 DEF Loaded, Serving
      <3>3. CASE ~Serving(ks[s])
        <4>1. /\ disk[s].fragment \in Fragment /\ disk[s].fpcc \in Version
              /\ disk[s].fragment # None
          BY <1>7, <3>3, NoneAssumption DEF Lie, File
        <4>2. k = [ks[s] EXCEPT !.fragment = disk[s].fragment, !.fpcc = disk[s].fpcc,
                                !.stored = TRUE]
          BY <3>3 DEF Loaded
        <4> HIDE DEF k
        <4> QED
          BY <3>1, <4>1, <4>2 DEF KeyState
      <3> QED
        BY <3>2, <3>3
    <2>2. ks' = [ks EXCEPT ![s] = Tampered(k, "lie")]
      BY <1>7 DEF Lie
    <2> HIDE DEF k
    <2>3. Tampered(k, "lie").ready_sent = k.ready_sent
      BY <2>1 DEF Tampered, KeyState
    <2>4. ks'[s].ready_sent = ks[s].ready_sent
      BY <1>0, <2>1, <2>2, <2>3
    <2> QED
      BY <1>0, <1>4, <1>7, <2>4, LieStep DEF Lie, Inject, net
  <1>8. ASSUME NEW s \in Correct, Corrupt(s) PROVE Same
    <2> DEFINE k == [Tampered(ks[s], "corrupt") EXCEPT !.stored = FALSE, !.verified = FALSE]
    <2>1. /\ k.echo_set = ks[s].echo_set /\ k.ready_set = ks[s].ready_set
          /\ k.ready_sent = ks[s].ready_sent
      BY <1>0 DEF Tampered, KeyState
    <2>2. ks' = [ks EXCEPT ![s] = k] /\ disk' = disk
      BY <1>8 DEF Corrupt
    <2> HIDE DEF k
    <2> QED
      BY <1>0, <1>4, <1>8, <2>1, <2>2 DEF Corrupt, Inject, net
  <1>9. ASSUME NEW v \in Version, Put(v) PROVE Same
    BY <1>0, <1>1, <1>9 DEF Put, Spend, history, Kind
  <1>10. ASSUME Lose PROVE Same
    <2>1. budget'["crash"] = budget["crash"] /\ budget'["injection"] = budget["injection"]
      <3>1. budget' = budget \/ Spend("loss")
        BY <1>10 DEF Lose, Lost
      <3> QED
        BY <1>0, <3>1 DEF Spend, TypeOK, Kind
    <2>2. /\ echoes' \subseteq echoes /\ readys' \subseteq readys
          /\ UNCHANGED <<ks, disk, disturbed>>
      BY <1>10 DEF Lose, history
    <2> QED
      BY <1>1, <2>1, <2>2
  <1>11. ASSUME NEW s \in Correct, Restart(s) PROVE Same
    BY <1>1, <1>11 DEF Restart, net, history
  <1>12. ASSUME UNCHANGED vars PROVE Same
    BY <1>1, <1>12 DEF vars, net, history
  <1> HIDE DEF Same
  <1>13. Same
    BY <1>0, <1>2, <1>3, <1>5, <1>6, <1>7, <1>8, <1>9, <1>10, <1>11, <1>12
    DEF Next, Deliver, DeliverByzantine, Faults
  <1> QED
    BY <1>13 DEF Same

(* A server that was not tampered with answers v1, from memory or from disk. *)
Intact(s) ==
    /\ disk[s] = FileOfV1
    /\ ks[s].stored => ks[s].fragment = FragmentOf(v1)

LEMMA IntactStep ==
  ASSUME AllCorrect, SettledInv, [Next]_vars
  PROVE  \E X \in SUBSET Server :
             /\ IsFiniteSet(X) /\ Cardinality(X) \in Nat
             /\ Cardinality(X) <= budget["injection"] - budget'["injection"]
             /\ \A s \in Correct \ X : Intact(s) => Intact(s)'
  <1> DEFINE Few(X) ==
                 /\ IsFiniteSet(X) /\ Cardinality(X) \in Nat
                 /\ Cardinality(X) <= budget["injection"] - budget'["injection"]
                 /\ \A s \in Correct \ X : Intact(s) => Intact(s)'
             Goal == \E X \in SUBSET Server : Few(X)
  <1>0. /\ MemoryInv /\ TypeInv /\ TypeOK /\ readys = {} /\ FromByzantine = {}
        /\ ks \in [Correct -> KeyState] /\ budget \in [Kind -> Nat]
        /\ disk \in [Correct -> File \cup {None, Torn}]
        /\ requests \subseteq Request /\ echoes \subseteq Message
        /\ Correct = Server
    BY AllCorrectSends DEF SettledInv, MemoryInv, TypeInv, TypeOK, AllCorrect
  <1>1. ASSUME budget'["injection"] = budget["injection"],
               \A s \in Correct : Intact(s) => Intact(s)'
        PROVE  Goal
    <2>1. Few({})
      BY <1>0, <1>1, FS_EmptySet DEF Kind
    <2> QED
      BY <2>1
  <1>2. ASSUME NEW s \in Correct, Spend("injection"),
               \A t \in Correct \ {s} : ks'[t] = ks[t] /\ disk'[t] = disk[t]
        PROVE  Goal
    <2>1. IsFiniteSet({s}) /\ Cardinality({s}) = 1
      BY FS_Singleton
    <2>2. budget'["injection"] = budget["injection"] - 1
      BY <1>0, <1>2 DEF Spend, Kind
    <2>3. \A t \in Correct \ {s} : Intact(t) => Intact(t)'
      BY <1>2 DEF Intact
    <2>4. Few({s})
      BY <1>0, <2>1, <2>2, <2>3 DEF Kind
    <2> QED
      BY <1>0, <2>4
  <1>3. ASSUME UNCHANGED <<ks, disk>>, budget'["injection"] = budget["injection"] PROVE Goal
    BY <1>1, <1>3 DEF Intact
  <1>4. ASSUME NEW r \in requests, Disperse(r) PROVE Goal
    BY <1>0, <1>1, <1>4, DisperseStep DEF Disperse, Intact
  <1>5. ASSUME NEW m \in echoes, ReceiveEcho(m) PROVE Goal
    <2>1. UNCHANGED <<disk, budget>>
      BY <1>5 DEF ReceiveEcho
    <2> QED
      BY <1>0, <1>1, <1>5, <2>1, EchoStep DEF Intact
  <1>6. ASSUME NEW s \in Correct, Crash(s) PROVE Goal
    <2>1. /\ ks' = [ks EXCEPT ![s] = EmptyKeyState] /\ disk' = disk
          /\ budget'["injection"] = budget["injection"]
      BY <1>0, <1>6 DEF Crash, Halt, Spend, Kind
    <2> QED
      BY <1>0, <1>1, <2>1 DEF Intact, EmptyKeyState
  <1>7. ASSUME NEW s \in Correct, Lie(s) \/ Corrupt(s) \/ Reset(s) PROVE Goal
    BY <1>0, <1>2, <1>7 DEF Lie, Corrupt, Reset, Inject
  <1>8. ASSUME NEW v \in Version, Put(v) PROVE Goal
    BY <1>0, <1>3, <1>8 DEF Put, Spend, Kind
  <1>9. ASSUME Lose PROVE Goal
    <2>1. budget' = budget \/ Spend("loss")
      BY <1>9 DEF Lose, Lost
    <2>2. budget'["injection"] = budget["injection"]
      BY <1>0, <2>1 DEF Spend, Kind
    <2> QED
      BY <1>3, <1>9, <2>2 DEF Lose
  <1>10. ASSUME NEW s \in Correct, Restart(s) PROVE Goal
    BY <1>3, <1>10 DEF Restart
  <1>11. ASSUME UNCHANGED vars PROVE Goal
    BY <1>3, <1>11 DEF vars
  <1> HIDE DEF Goal
  <1>12. Goal
    BY <1>0, <1>4, <1>5, <1>6, <1>7, <1>8, <1>9, <1>10, <1>11
    DEF Next, Deliver, DeliverByzantine, Faults
  <1> QED
    BY <1>12 DEF Goal

HeardIntact(s) ==
    \/ responses[s] \in {Pending, Unreachable}
    \/ responses[s] \in Reply /\ responses[s].file = FileOfV1

(* The servers that were tampered with are at most the debug calls made, and *)
(* every other one holds and has answered v1.                                *)
FewTampered ==
    \E T \in SUBSET Server :
        /\ IsFiniteSet(T) /\ Cardinality(T) \in Nat
        /\ Cardinality(T) <= InjectionsUsed
        /\ \A s \in Correct \ T : Intact(s) /\ HeardIntact(s)

ClientHasV1 ==
    /\ \A s \in Server : responses[s] \in Reply =>
           responses[s].index = s /\ responses[s].file.fpcc = v1
    /\ \A s \in Correct : committed[s] \in {FileOfV1, None}
    /\ gathering => result = None
    /\ result \in Chunk => result.ver = v1

StoredGetInv ==
    SettledInv /\ GetTypeInv /\ ClientHasV1 /\ FewTampered /\ GetSucceeds

LEMMA SettledAnswers ==
  ASSUME AllCorrect, SettledInv, NEW s \in Correct, NEW response \in Answers(s)
  PROVE  /\ response \in Response
         /\ response \in Reply => response.index = s /\ response.file.fpcc = v1
         /\ Intact(s) => response \in Reply /\ response.file = FileOfV1
  <1>1. /\ TypeInv /\ disk[s] \in {FileOfV1, None}
        /\ ks[s].stored => SameObject(ks[s], disk[s])
    BY DEF SettledInv, MemoryInv, MemoryMatchesDisk, Remembers
  <1>2. FileOfV1 \in File /\ FileOfV1.fpcc = v1
    BY FragmentType DEF FileOfV1, File, AllCorrect
  <1>3. Retrieve(s) \in File => Retrieve(s).fpcc = v1
    BY <1>1, <1>2, NoneAssumption DEF Retrieve, Serving, SameObject
  <1>4. Intact(s) => Retrieve(s) = FileOfV1
    <2> SUFFICES ASSUME Intact(s) PROVE Retrieve(s) = FileOfV1
      OBVIOUS
    <2>1. CASE Serving(ks[s])
      BY <1>1, <1>2, <2>1 DEF Retrieve, Serving, SameObject, Intact, FileOfV1
    <2>2. CASE ~Serving(ks[s])
      BY <2>2 DEF Retrieve, Intact
    <2> QED
      BY <2>1, <2>2
  <1> QED
    BY <1>1, <1>2, <1>3, <1>4, AnswersAreReplies DEF Response

(* An answer, or its absence, from one server.                               *)
LEMMA GatherStored ==
  ASSUME StoredGetInv, SettledInv', GetTypeInv', NEW s \in Server, NEW response \in Response,
         Gather(s, response), UNCHANGED <<ks, disk>>,
         budget'["injection"] = budget["injection"],
         response \in Reply => response.index = s /\ response.file.fpcc = v1,
         Intact(s) => \/ response = Unreachable
                      \/ response \in Reply /\ response.file = FileOfV1
  PROVE  StoredGetInv'
  <1>1. /\ responses' = [responses EXCEPT ![s] = response]
        /\ responses \in [Server -> Response]
        /\ UNCHANGED <<offered, gathering, committed, result>>
        /\ gathering /\ result = None
    BY DEF Gather, StoredGetInv, GetTypeInv, GetTypeOK, ClientHasV1
  <1>2. ClientHasV1'
    BY <1>1, ClientAssumption DEF StoredGetInv, ClientHasV1
  <1>3. FewTampered'
    <2>1. PICK T \in SUBSET Server :
            /\ IsFiniteSet(T) /\ Cardinality(T) \in Nat
            /\ Cardinality(T) <= InjectionsUsed
            /\ \A t \in Correct \ T : Intact(t) /\ HeardIntact(t)
      BY DEF StoredGetInv, FewTampered
    <2>2. \A t \in Correct \ T : Intact(t)' /\ HeardIntact(t)'
      BY <1>1, <2>1, ServerAssumption DEF Intact, HeardIntact
    <2>3. InjectionsUsed' = InjectionsUsed
      BY DEF InjectionsUsed
    <2> QED
      BY <2>1, <2>2, <2>3 DEF FewTampered
  <1>4. GetSucceeds'
    BY <1>1, ClientAssumption DEF GetSucceeds
  <1> QED
    BY <1>2, <1>3, <1>4 DEF StoredGetInv

LEMMA ServerStepStored ==
  ASSUME AllCorrect, StoredGetInv, SettledInv', GetTypeInv', ServerStep
  PROVE  StoredGetInv'
  <1>1. UNCHANGED <<gathering, committed, responses, result>> /\ [Next]_vars
    BY DEF ServerStep, client
  <1>2. ClientHasV1'
    BY <1>1 DEF StoredGetInv, ClientHasV1
  <1>3. PICK X \in SUBSET Server :
          /\ IsFiniteSet(X) /\ Cardinality(X) \in Nat
          /\ Cardinality(X) <= budget["injection"] - budget'["injection"]
          /\ \A s \in Correct \ X : Intact(s) => Intact(s)'
    BY <1>1, IntactStep DEF StoredGetInv
  <1>4. /\ budget["injection"] \in Nat /\ budget'["injection"] \in Nat
        /\ Budget["injection"] \in Nat
    BY BudgetAssumption
    DEF StoredGetInv, SettledInv, MemoryInv, TypeInv, TypeOK, Kind
  <1>5. InjectionsUsed' >= InjectionsUsed + Cardinality(X)
        /\ InjectionsUsed \in Int /\ InjectionsUsed' \in Int
    BY <1>3, <1>4 DEF InjectionsUsed
  <1>6. FewTampered'
    <2>1. PICK T \in SUBSET Server :
            /\ IsFiniteSet(T) /\ Cardinality(T) \in Nat
            /\ Cardinality(T) <= InjectionsUsed
            /\ \A t \in Correct \ T : Intact(t) /\ HeardIntact(t)
      BY DEF StoredGetInv, FewTampered
    <2>2. /\ IsFiniteSet(T \cup X) /\ Cardinality(T \cup X) \in Nat
          /\ Cardinality(T \cup X) <= Cardinality(T) + Cardinality(X)
      <3>1. /\ IsFiniteSet(T \cup X)
            /\ Cardinality(T \cup X)
                 = Cardinality(T) + Cardinality(X) - Cardinality(T \cap X)
        BY <1>3, <2>1, FS_Union
      <3>2. Cardinality(T \cap X) \in Nat /\ Cardinality(T \cup X) \in Nat
        BY <1>3, <2>1, <3>1, FS_Intersection, FS_CardinalityType
      <3> QED
        BY <1>3, <2>1, <3>1, <3>2
    <2>3. \A t \in Correct \ (T \cup X) : Intact(t)' /\ HeardIntact(t)'
      BY <1>1, <1>3, <2>1 DEF HeardIntact
    <2>4. Cardinality(T \cup X) <= InjectionsUsed'
      BY <1>3, <1>5, <2>1, <2>2
    <2> QED
      BY <2>2, <2>3, <2>4 DEF FewTampered
  <1>7. GetSucceeds'
    <2> SUFFICES ASSUME result \in {Failed, Raised}, NEW d \in Version
                 PROVE  Cardinality(Committed(d) \ Silent) - InjectionsUsed' < Needed
      BY <1>1 DEF GetSucceeds, Committed, Silent, Needed
    <2>1. Cardinality(Committed(d) \ Silent) - InjectionsUsed < Needed
      BY DEF StoredGetInv, GetSucceeds
    <2>2. Cardinality(Committed(d) \ Silent) \in Nat
      BY ClusterSize, FS_Subset, FS_CardinalityType DEF Committed
    <2>3. Needed \in Nat
      BY ClientFCoversF, ThresholdAssumption DEF Needed
    <2> QED
      BY <1>3, <1>5, <2>1, <2>2, <2>3
  <1> QED
    BY <1>2, <1>6, <1>7 DEF StoredGetInv

(* If enough servers were not tampered with, their answers carry the vote,   *)
(* verify, and have different indices.                                       *)
LEMMA EnoughIntact ==
  ASSUME AllCorrect, Valid[v1] = Server, StoredGetInv,
         \A s \in Server : responses[s] # Pending,
         Cardinality(Committed(v1) \ Silent) - InjectionsUsed >= Needed
  PROVE  Cardinality(Verified(v1)) >= M /\ Chosen(v1)
  <1>1. PICK T \in SUBSET Server :
          /\ IsFiniteSet(T) /\ Cardinality(T) \in Nat
          /\ Cardinality(T) <= InjectionsUsed
          /\ \A t \in Correct \ T : Intact(t) /\ HeardIntact(t)
    BY DEF StoredGetInv, FewTampered
  <1> DEFINE C == Committed(v1) \ Silent
             G == C \ T
  <1>2. IsFiniteSet(C) /\ Cardinality(C) \in Nat /\ C \subseteq Server
    BY ClusterSize, ServerAssumption, FS_Subset, FS_CardinalityType DEF Committed
  <1>3. Cardinality(G) >= Cardinality(C) - Cardinality(T)
        /\ IsFiniteSet(G) /\ Cardinality(G) \in Nat
    <2> HIDE DEF C
    <2>1. /\ IsFiniteSet(C \ T)
          /\ Cardinality(C \ T) = Cardinality(C) - Cardinality(C \cap T)
      BY <1>2, FS_Difference
    <2>2. Cardinality(C \cap T) <= Cardinality(T) /\ Cardinality(C \cap T) \in Nat
      BY <1>1, <1>2, FS_Intersection, FS_CardinalityType, FS_Subset
    <2> QED
      BY <1>1, <1>2, <2>1, <2>2, FS_CardinalityType
  <1>4. G \subseteq Verified(v1)
    <2> SUFFICES ASSUME NEW s \in G PROVE s \in Verified(v1)
      OBVIOUS
    <2>1. s \in Server /\ s \in Correct \ T /\ responses[s] # Unreachable
      BY <1>2 DEF AllCorrect, Silent
    <2>2. responses[s] \in Reply /\ responses[s].file = FileOfV1 /\ responses[s].index = s
      BY <1>1, <2>1 DEF HeardIntact, StoredGetInv, ClientHasV1
    <2> QED
      BY <2>1, <2>2 DEF Verified, Votes, verify_fragment, FileOfV1
  <1>5. InjectionsUsed \in Int
    BY BudgetAssumption
    DEF InjectionsUsed, StoredGetInv, SettledInv, MemoryInv, TypeInv, TypeOK, Kind
  <1>6. Needed >= M /\ Needed >= ClientF + 1 /\ M \in Nat /\ ClientF \in Nat /\ Needed \in Nat
    BY ClientFCoversF, ThresholdAssumption DEF Needed
  <1>7. Cardinality(G) >= Needed
    <2> HIDE DEF C, G
    <2> QED
      BY <1>1, <1>2, <1>3, <1>5, <1>6 DEF C
  <1> HIDE DEF C, G
  <1>8. /\ IsFiniteSet(Verified(v1)) /\ IsFiniteSet(Votes(v1))
        /\ Cardinality(Verified(v1)) \in Nat /\ Cardinality(Votes(v1)) \in Nat
        /\ Cardinality(Verified(v1)) <= Cardinality(Votes(v1))
    <2>1. Verified(v1) \subseteq Votes(v1) /\ Votes(v1) \subseteq Server
      BY DEF Verified, Votes
    <2> QED
      BY <2>1, ClusterSize, FS_Subset, FS_CardinalityType
  <1>9. Cardinality(G) <= Cardinality(Verified(v1))
    BY <1>4, <1>8, FS_Subset
  <1>10. \A e \in Version : Cardinality(Votes(e)) <= Cardinality(Votes(v1))
    <2> SUFFICES ASSUME NEW e \in Version, e # v1
                 PROVE  Cardinality(Votes(e)) <= Cardinality(Votes(v1))
      BY <1>8
    <2>1. Votes(e) = {}
      BY DEF Votes, StoredGetInv, ClientHasV1
    <2> QED
      BY <1>8, <2>1, FS_EmptySet
  <1> QED
    BY <1>3, <1>6, <1>7, <1>8, <1>9, <1>10 DEF Chosen

LEMMA DecodeStored ==
  ASSUME AllCorrect, Valid[v1] = Server, StoredGetInv, Decode
  PROVE  /\ result' \in Chunk => result'.ver = v1
         /\ GetSucceeds'
  <1>1. ASSUME NEW d \in Version, Chosen(d) PROVE d = v1
    <2> SUFFICES ASSUME d # v1 PROVE FALSE
      OBVIOUS
    <2>1. Votes(d) = {}
      BY DEF Votes, StoredGetInv, ClientHasV1
    <2> QED
      BY <1>1, <2>1, FS_EmptySet, ClientFCoversF DEF Chosen
  <1>2. result' \in Chunk => result'.ver = v1
    BY <1>1, ClientAssumption DEF Decode
  <1>3. ASSUME NEW d \in Version, NEW used \in Used(d) PROVE ~Singular(used)
    BY DEF Used, Verified, Votes, Singular, StoredGetInv, ClientHasV1
  <1>4. /\ UNCHANGED <<vars, committed, responses>>
        /\ \A s \in Server : responses[s] # Pending
    BY DEF Decode
  <1>5. GetSucceeds'
    <2> SUFFICES ASSUME result' \in {Failed, Raised}, NEW d \in Version
                 PROVE  Cardinality(Committed(d) \ Silent) - InjectionsUsed < Needed
      BY <1>4 DEF GetSucceeds, Committed, Silent, Needed, InjectionsUsed, vars
    <2>1. /\ Cardinality(Committed(d) \ Silent) \in Nat
          /\ Needed \in Nat /\ Needed >= 1 /\ M \in Nat
      BY ClusterSize, FS_Subset, FS_CardinalityType, ClientFCoversF, ThresholdAssumption
      DEF Committed, Needed
    <2>2. InjectionsUsed \in Int /\ InjectionsUsed >= 0
      <3>1. budget["injection"] \in Nat /\ Budget["injection"] \in Nat
        BY BudgetAssumption DEF StoredGetInv, SettledInv, MemoryInv, TypeInv, TypeOK, Kind
      <3>2. PICK T \in SUBSET Server : Cardinality(T) \in Nat /\ Cardinality(T) <= InjectionsUsed
        BY DEF StoredGetInv, FewTampered
      <3> QED
        BY <3>1, <3>2 DEF InjectionsUsed
    <2>3. CASE d # v1
      <3>1. Committed(d) \ Silent = {}
        <4>1. [fragment |-> FragmentOf(d), fpcc |-> d] # FileOfV1
          BY <2>3 DEF FileOfV1
        <4>2. [fragment |-> FragmentOf(d), fpcc |-> d] # None
          BY FragmentType, NoneAssumption DEF File
        <4> QED
          BY <4>1, <4>2 DEF Committed, StoredGetInv, ClientHasV1
      <3> QED
        BY <2>1, <2>2, <3>1, FS_EmptySet
    <2>4. CASE d = v1
      <3> SUFFICES ASSUME Cardinality(Committed(v1) \ Silent) - InjectionsUsed >= Needed
                   PROVE  FALSE
        BY <2>1, <2>2, <2>4
      <3>1. Cardinality(Verified(v1)) >= M /\ Chosen(v1)
        BY <1>4, EnoughIntact
      <3>2. Cardinality(Verified(v1)) \in Nat
        <4>1. Verified(v1) \subseteq Server
          BY DEF Verified, Votes
        <4> QED
          BY <4>1, ClusterSize, FS_Subset, FS_CardinalityType
      <3>3. PICK e \in Version : Chosen(e) /\ Cardinality(Verified(e)) < M
        <4>1. ASSUME NEW e \in Version, NEW used \in Used(e), NEW length \in Cut(used)
              PROVE  result' # [ver |-> e, original_len |-> length]
          <5>1. length \in Length
            BY CutType DEF StoredGetInv, GetTypeInv
          <5>2. [ver |-> e, original_len |-> length] \in Chunk
            BY <5>1 DEF Chunk
          <5> QED
            BY <5>2, ClientAssumption
        <4> QED
          BY <1>3, <3>1, <4>1 DEF Decode, AllCorrect
      <3> QED
        BY <1>1, <2>1, <3>1, <3>2, <3>3
    <2> QED
      BY <2>3, <2>4
  <1> QED
    BY <1>2, <1>5

LEMMA NextStoredGetInv ==
  ASSUME AllCorrect, Valid[v1] = Server
  PROVE  StoredGetInv /\ [GetNext]_allVars => StoredGetInv'
  <1> SUFFICES ASSUME StoredGetInv, [GetNext]_allVars PROVE StoredGetInv'
    OBVIOUS
  <1>1. GetTypeInv' /\ SettledInv /\ TypeInv /\ TypeOK
    BY NextGetTypeInv DEF StoredGetInv, GetTypeInv, TypeInv
  <1>2. ASSUME UNCHANGED vars PROVE SettledInv' /\ UNCHANGED <<ks, disk, budget>>
    BY <1>1, <1>2, NextSettledInv DEF vars
  <1>3. CASE ServerStep
    BY <1>1, <1>3, NextSettledInv, ServerStepStored DEF ServerStep
  <1>4. ASSUME UNCHANGED vars, UNCHANGED responses, ClientHasV1', GetSucceeds'
        PROVE  StoredGetInv'
    <2>1. FewTampered'
      BY <1>2, <1>4
      DEF StoredGetInv, FewTampered, Intact, HeardIntact, InjectionsUsed
    <2> QED
      BY <1>1, <1>2, <1>4, <2>1 DEF StoredGetInv
  <1>5. CASE Get
    <2>1. /\ UNCHANGED <<vars, responses, result>> /\ result = None
          /\ committed' = disk
      BY <1>5 DEF Get
    <2>2. ClientHasV1'
      BY <1>1, <2>1, ClientAssumption DEF StoredGetInv, ClientHasV1, SettledInv, Remembers
    <2>3. GetSucceeds'
      BY <2>1, ClientAssumption DEF GetSucceeds
    <2> QED
      BY <1>4, <2>1, <2>2, <2>3
  <1>6. ASSUME NEW s \in Server, Answer(s) PROVE StoredGetInv'
    <2>1. s \in Correct /\ UNCHANGED vars
      BY <1>1, <1>6 DEF Answer, TypeOK
    <2>2. PICK response \in Answers(s) : Gather(s, response)
      BY <1>6 DEF Answer
    <2>3. /\ response \in Response
          /\ response \in Reply => response.index = s /\ response.file.fpcc = v1
          /\ Intact(s) => response \in Reply /\ response.file = FileOfV1
      BY <1>1, <2>1, SettledAnswers
    <2> QED
      BY <1>1, <1>2, <2>1, <2>2, <2>3, GatherStored
  <1>7. ASSUME NEW s \in Server PROVE ~AnswerByzantine(s)
    BY ServerAssumption DEF AnswerByzantine, AllCorrect, Faulty
  <1>8. ASSUME NEW s \in Server, NoAnswer(s) PROVE StoredGetInv'
    <2>1. /\ budget'["injection"] = budget["injection"]
          /\ budget'["crash"] = budget["crash"]
          /\ UNCHANGED <<ks, disk, up, net, history>>
      BY <1>1, <1>8 DEF NoAnswer, Spend, TypeOK, Kind
    <2>2. MemoryInv'
      BY <1>1, <2>1
      DEF GetTypeInv, SettledInv, MemoryInv, StoredHasFragment, MemoryMatchesDisk, SameObject
    <2>3. SettledInv'
      BY <1>1, <2>1, <2>2 DEF SettledInv, Remembers, FewDisturbed, net, history
    <2>4. Unreachable \in Response /\ Unreachable \notin Reply
      BY ClientAssumption DEF Response
    <2> QED
      BY <1>1, <1>8, <2>1, <2>3, <2>4, GatherStored DEF NoAnswer
  <1>9. CASE Decode
    <2>1. UNCHANGED <<vars, committed, responses>> /\ gathering' = FALSE
      BY <1>9 DEF Decode
    <2>2. GetSucceeds' /\ ClientHasV1'
      BY <1>9, <2>1, DecodeStored DEF StoredGetInv, ClientHasV1
    <2> QED
      BY <1>4, <2>1, <2>2
  <1>10. CASE UNCHANGED allVars
    <2>1. UNCHANGED <<vars, gathering, committed, responses, result>>
      BY <1>10 DEF allVars, client
    <2>2. ClientHasV1' /\ GetSucceeds'
      BY <2>1
      DEF StoredGetInv, ClientHasV1, GetSucceeds, Committed, Silent, Needed,
          InjectionsUsed, vars
    <2> QED
      BY <1>4, <2>1, <2>2
  <1> QED
    BY <1>3, <1>5, <1>6, <1>7, <1>8, <1>9, <1>10 DEF GetNext

(* The state after the put is one that servers reach, and nobody is          *)
(* disturbed yet.                                                            *)
LEMMA StoredState ==
  ASSUME AllCorrect, NEW s \in Correct
  PROVE  /\ Stored(s) \in KeyState
         /\ Stored(s).fragment = FragmentOf(v1) /\ Stored(s).fpcc = v1
         /\ Stored(s).ready_sent /\ Stored(s).stored
  <1> DEFINE h == Hold(EmptyKeyState, v1)
             e == [h EXCEPT !.verified = TRUE, !.echoed = TRUE, !.echo_set = Correct \ {s}]
             k == [e EXCEPT !.echo_set = Server \ {s}, !.ready_sent = TRUE, !.stored = TRUE,
                            !.ready_set = Server \ {s}]
  <1>1. h \in KeyState /\ h.fragment = FragmentOf(v1) /\ h.fpcc = v1
    BY EmptyType, HoldType DEF Hold, EmptyKeyState, AllCorrect
  <1> HIDE DEF h
  <1>2. e \in KeyState /\ e.fragment = FragmentOf(v1) /\ e.fpcc = v1
    BY <1>1, ServerAssumption DEF KeyState
  <1> HIDE DEF e
  <1>3. /\ k \in KeyState /\ k.fragment = FragmentOf(v1) /\ k.fpcc = v1
        /\ k.ready_sent /\ k.stored
    BY <1>2 DEF KeyState
  <1>4. Stored(s) = k
    BY DEF Stored, Echoed, e, h
  <1> QED
    BY <1>3, <1>4

LEMMA InitStoredGetInv ==
  ASSUME AllCorrect
  PROVE  InitStored => StoredGetInv
  <1> SUFFICES ASSUME InitStored PROVE StoredGetInv
    OBVIOUS
  <1>1. FileOfV1 \in File /\ FileOfV1 # None /\ v1 # None /\ FragmentOf(v1) # None
    BY FragmentType, NoneAssumption DEF FileOfV1, File, AllCorrect
  <1>2. \A s \in Correct :
          /\ ks[s] \in KeyState
          /\ ks[s].fragment = FragmentOf(v1) /\ ks[s].fpcc = v1
          /\ ks[s].ready_sent /\ ks[s].stored
          /\ disk[s] = FileOfV1
    BY StoredState DEF InitStored, FileOfV1
  <1>3. TypeInv
    BY <1>1, <1>2, BudgetAssumption DEF InitStored, FileOfV1, TypeInv, TypeOK, HeldTogether
  <1>4. MemoryInv
    <2>1. \A s \in Correct : SameObject(ks[s], disk[s])
      BY <1>1, <1>2 DEF SameObject, FileOfV1
    <2> QED
      BY <1>1, <1>2, <1>3, <2>1 DEF MemoryInv, StoredHasFragment, MemoryMatchesDisk
  <1>5. SettledInv
    BY <1>2, <1>4, FS_EmptySet, BudgetAssumption
    DEF SettledInv, InitStored, Remembers, FewDisturbed, Kind
  <1>6. GetTypeInv
    BY <1>3, ServerAssumption
    DEF InitStored, InitClient, GetTypeInv, GetTypeOK, TypeInv, Response, AllCorrect
  <1>7. ClientHasV1
    BY ClientAssumption, ServerAssumption DEF InitStored, InitClient, ClientHasV1
  <1>8. FewTampered
    <2>1. InjectionsUsed = 0
      BY BudgetAssumption DEF InitStored, InjectionsUsed, Kind
    <2>2. \A s \in Correct \ {} : Intact(s) /\ HeardIntact(s)
      BY <1>2, ServerAssumption DEF Intact, HeardIntact, InitStored, InitClient
    <2> QED
      BY <2>1, <2>2, FS_EmptySet DEF FewTampered
  <1>9. GetSucceeds
    BY ClientAssumption DEF InitStored, InitClient, GetSucceeds
  <1> QED
    BY <1>5, <1>6, <1>7, <1>8, <1>9 DEF StoredGetInv

(* A get of what every server has stored succeeds as long as m, and f + 1    *)
(* for the vote, of the servers answered and were not tampered with: crashes *)
(* and restarts in its midst, and another content put under the same key,    *)
(* cost it nothing, while fewer servers than n - f are disturbed.            *)
THEOREM GetSucceedsCorrect ==
  ASSUME AllCorrect, Valid[v1] = Server
  PROVE  SpecStored => []GetSucceeds
  <1>1. StoredGetInv => GetSucceeds
    BY DEF StoredGetInv
  <1> QED
    BY <1>1, InitStoredGetInv, NextStoredGetInv, PTL DEF SpecStored

(* ... and what it returns is that content, not the one put meanwhile: the   *)
(* servers that took the other one up neither sent READY for it nor wrote    *)
(* it, and answer with the file that they still have.                        *)
THEOREM StoredIsReturnedCorrect ==
  ASSUME AllCorrect, Valid[v1] = Server
  PROVE  SpecStored => []StoredIsReturned
  <1>1. StoredGetInv => StoredIsReturned
    <2> SUFFICES ASSUME StoredGetInv, NEW d \in Version, result \in Chunk,
                        Committed(d) = Server
                 PROVE  result.ver = d
      BY DEF StoredIsReturned
    <2>1. Server # {}
      BY FS_EmptySet, ThresholdAssumption DEF N
    <2>2. PICK s \in Correct : committed[s] = [fragment |-> FragmentOf(d), fpcc |-> d]
      BY <2>1 DEF Committed
    <2>3. [fragment |-> FragmentOf(d), fpcc |-> d] # None
      BY FragmentType, NoneAssumption DEF File
    <2>4. d = v1
      BY <2>2, <2>3 DEF StoredGetInv, ClientHasV1, FileOfV1
    <2> QED
      BY <2>4 DEF StoredGetInv, ClientHasV1
  <1> QED
    BY <1>1, InitStoredGetInv, NextStoredGetInv, PTL DEF SpecStored
=============================================================================
