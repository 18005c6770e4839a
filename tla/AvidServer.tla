----------------------------- MODULE AvidServer -----------------------------
(***************************************************************************)
(* One key of VerdictFS on a cluster of AVID-FP servers: the handlers of   *)
(* server/routes.py over the KeyState of server/state.py and the file of   *)
(* fs/object_store.py, the messages they exchange, crashes and restarts,   *)
(* lost messages, silent or Byzantine peers, and the debug endpoints /lie, *)
(* /corrupt and /reset.                                                    *)
(*                                                                         *)
(* A handler is one step: each runs under the lock of its key in a single  *)
(* asyncio worker and suspends nowhere between its first and its last      *)
(* change of state (broadcasts are tasks it only creates).                 *)
(*                                                                         *)
(* Every key has its own KeyState and its own file and no handler touches  *)
(* two keys, so one key is modelled; Version ranges over the contents that *)
(* clients put under it, and stands for their fragments, FPCC and digest.  *)
(***************************************************************************)
(* A definition Name_Suffix is never used: it is Name with a plausible     *)
(* mistake, and a property that fails when it takes the place of Name      *)
(* depends on what Name does.                                              *)
EXTENDS Integers, FiniteSets

CONSTANTS
    Server,     \* all n servers
    Correct,    \* those that run this code; the others are crashed or Byzantine
    Byzantine,  \* those of the others that still send ECHO and READY
    F,          \* the servers' parameter f
    M,          \* the servers' parameter m: fragments needed to decode
    Version,    \* contents put under the key
    Valid,      \* Valid[v]: servers whose fragment of v passes verify_fragment
    None,       \* Python's None, and the absence of a file
    Torn,       \* a file whose write was cut short: json.loads raises
    Budget      \* bounds on puts, crashes, lost messages and fault injections

Faulty == Server \ Correct
N == Cardinality(Server)

Kind == {"put", "crash", "loss", "injection"}

(* The bytes of a fragment: the version it was encoded from, and which of  *)
(* the two XOR masks (/lie, /corrupt) are applied to them now.             *)
Mask == {"lie", "corrupt"}
Fragment == [ver : Version, mask : SUBSET Mask]
File == [fragment : Fragment, fpcc : Version]

ASSUME ServerAssumption ==
    /\ IsFiniteSet(Server)
    /\ Correct \subseteq Server
    /\ Byzantine \subseteq Faulty
ASSUME ThresholdAssumption ==
    /\ F \in Nat
    /\ M \in Nat
    /\ N >= 3 * F + 1
    /\ M <= N - 2 * F
ASSUME VersionAssumption == Valid \in [Version -> SUBSET Server]
ASSUME NoneAssumption ==
    /\ None \notin Version
    /\ None \notin Fragment
    /\ None \notin File
    /\ Torn \notin File
    /\ Torn # None
ASSUME BudgetAssumption == Budget \in [Kind -> Nat]

VARIABLES
    ks,         \* ks[s]: the KeyState of the key on s
    disk,       \* disk[s]: the file of the key on s
    up,         \* servers whose process runs
    requests,   \* /disperse calls of clients on their way
    echoes,     \* /echo calls on their way
    readys,     \* /ready calls on their way
    budget,     \* what is left of Budget
    accepted,   \* history: servers that ever verified a fragment of the key
    disturbed   \* history: servers that crashed, were tampered with or reset

net == <<requests, echoes, readys>>
history == <<accepted, disturbed>>
vars == <<ks, disk, up, net, budget, history>>

KeyState ==
    [fragment : Fragment \cup {None},
     fpcc : Version \cup {None},
     fpcc_digest : Version \cup {None},
     verified : BOOLEAN,
     echoed : BOOLEAN,
     ready_sent : BOOLEAN,
     stored : BOOLEAN,
     echo_set : SUBSET Server,
     ready_set : SUBSET Server]

Request == [to : Correct, ver : Version]
Message == [from : Server, to : Correct, digest : Version]

(* A KeyState as get_or_create makes it. The code deletes a key by removing *)
(* its KeyState; every handler that creates one also changes it, so "the   *)
(* key is in _keys" is "its KeyState is not the empty one".                *)
EmptyKeyState ==
    [fragment |-> None, fpcc |-> None, fpcc_digest |-> None,
     verified |-> FALSE, echoed |-> FALSE, ready_sent |-> FALSE,
     stored |-> FALSE, echo_set |-> {}, ready_set |-> {}]

Known(s) == ks[s] # EmptyKeyState

-----------------------------------------------------------------------------
(* Thresholds and tests of the handlers                                    *)

EchoThreshold == N - F
ReadyThreshold == F + 1
StoreThreshold_OneMore == 2 * F + 2
StoreThreshold == 2 * F + 1

FragmentOf(v) == [ver |-> v, mask |-> {}]

verify_fragment(s, fragment, fpcc) ==
    /\ fragment = FragmentOf(fpcc)
    /\ s \in Valid[fpcc]

EnoughEchos(k) == Cardinality(k.echo_set) >= EchoThreshold
EnoughReadys(k) == Cardinality(k.ready_set) >= ReadyThreshold

SendsReady_EchoesOnly(k) == ~k.ready_sent /\ k.verified /\ EnoughEchos(k)
SendsReady(k) ==
    /\ ~k.ready_sent
    /\ k.verified
    /\ EnoughEchos(k) \/ EnoughReadys(k)

_maybe_send_ready(k) ==
    IF SendsReady(k) THEN [k EXCEPT !.ready_sent = TRUE] ELSE k

(* The commit of _try_store. Without a fragment the code raises            *)
(* AttributeError before it writes or sets anything; the sender only logs. *)
Commits_NoFragment(k) ==
    /\ ~k.stored
    /\ Cardinality(k.ready_set) >= StoreThreshold
Commits_Again(k) ==
    /\ Cardinality(k.ready_set) >= StoreThreshold
    /\ k.fragment # None
Commits(k) ==
    /\ ~k.stored
    /\ Cardinality(k.ready_set) >= StoreThreshold
    /\ k.fragment # None

(* In memory the fragment can be served; /retrieve, /lie and /corrupt ask. *)
Serving(k) == k.stored /\ k.fragment # None

-----------------------------------------------------------------------------
(* The network and the bounds                                              *)

(* A server's peers exclude the server itself (main.py).                   *)
Broadcast_ToAll(s, digest) ==
    [from : {s}, to : Correct, digest : {digest}]
Broadcast(s, digest) ==
    [from : {s}, to : Correct \ {s}, digest : {digest}]

(* What a Byzantine server may send. The sender_id of an ECHO or a READY   *)
(* is a number in its body that no handler checks: it is any server's,     *)
(* the receiver's own included. (A number of no server is one more name,   *)
(* and these are enough for every threshold already.)                      *)
FromByzantine ==
    {msg \in [from : Server, to : Correct, digest : Version] : Byzantine # {}}

Spend(kind) ==
    /\ budget[kind] > 0
    /\ budget' = [budget EXCEPT ![kind] = @ - 1]

Init ==
    /\ ks = [s \in Correct |-> EmptyKeyState]
    /\ disk = [s \in Correct |-> None]
    /\ up = Correct
    /\ requests = {} /\ echoes = {} /\ readys = {}
    /\ budget = Budget
    /\ accepted = {} /\ disturbed = {}

(* A client sends every server its fragment of v and the FPCC of v.        *)
Put(v) ==
    /\ Spend("put")
    /\ requests' = requests \cup [to : Correct, ver : {v}]
    /\ UNCHANGED <<ks, disk, up, echoes, readys, history>>

-----------------------------------------------------------------------------
(* POST /disperse                                                          *)

DisperseAlreadyStored(s, v) ==
    /\ ks[s].stored
    /\ UNCHANGED <<ks, echoes, accepted>>

(* The fragment and the FPCC are kept before they are verified ...         *)
Hold_Fresh(k, v) ==
    [EmptyKeyState EXCEPT !.fragment = FragmentOf(v), !.fpcc = v, !.fpcc_digest = v]
Hold(k, v) ==
    [k EXCEPT !.fragment = FragmentOf(v), !.fpcc = v, !.fpcc_digest = v]

(* ... and stay when verification fails; `verified` keeps its old value.   *)
DisperseInvalid(s, v) ==
    /\ ~ks[s].stored
    /\ ~verify_fragment(s, FragmentOf(v), v)
    /\ ks' = [ks EXCEPT ![s] = Hold(ks[s], v)]
    /\ UNCHANGED <<echoes, accepted>>

DisperseAccepted_Overwrite(s, v) ==
    /\ verify_fragment(s, FragmentOf(v), v)
    /\ ks' = [ks EXCEPT ![s] = [Hold(ks[s], v) EXCEPT !.verified = TRUE, !.echoed = TRUE]]
    /\ echoes' = echoes \cup Broadcast(s, v)
    /\ accepted' = accepted \cup {s}
DisperseAccepted_Anew(s, v) ==
    /\ verify_fragment(s, FragmentOf(v), v)
    /\ ks' = [ks EXCEPT ![s] =
                [Hold(ks[s], v) EXCEPT !.verified = TRUE, !.echoed = TRUE, !.stored = FALSE]]
    /\ echoes' = echoes \cup Broadcast(s, v)
    /\ accepted' = accepted \cup {s}

DisperseAccepted(s, v) ==
    /\ ~ks[s].stored
    /\ verify_fragment(s, FragmentOf(v), v)
    /\ ks' = [ks EXCEPT ![s] = [Hold(ks[s], v) EXCEPT !.verified = TRUE, !.echoed = TRUE]]
    /\ echoes' = echoes \cup (IF ks[s].echoed THEN {} ELSE Broadcast(s, v))
    /\ accepted' = accepted \cup {s}

Disperse(r) ==
    /\ r.to \in up
    /\ requests' = requests \ {r}
    /\ \/ DisperseAlreadyStored(r.to, r.ver)
       \/ DisperseInvalid(r.to, r.ver)
       \/ DisperseAccepted(r.to, r.ver)
    /\ UNCHANGED <<disk, up, readys, budget, disturbed>>

-----------------------------------------------------------------------------
(* POST /echo and POST /ready: the digest of a message decides nothing; it *)
(* is recorded when the server has none yet, and echoed in the READY.      *)

OrElse(a, b) == IF a = None THEN b ELSE a

AfterEcho(m) ==
    [ks[m.to] EXCEPT !.echo_set = @ \cup {m.from},
                     !.fpcc_digest = OrElse(@, m.digest)]

ReceiveEcho(m) ==
    LET k == AfterEcho(m) IN
    /\ m.to \in up
    /\ echoes' = echoes \ {m}
    /\ ks' = [ks EXCEPT ![m.to] = _maybe_send_ready(k)]
    /\ readys' = readys \cup
           (IF SendsReady(k) THEN Broadcast(m.to, m.digest) ELSE {})
    /\ UNCHANGED <<disk, up, requests, budget, history>>

AfterReady(m) == [ks[m.to] EXCEPT !.ready_set = @ \cup {m.from}]

ReceiveReady(m) ==
    LET s == m.to
        k == AfterReady(m)
    IN
    /\ s \in up
    /\ readys' = (readys \ {m}) \cup
           (IF SendsReady(k)
            THEN Broadcast(s, OrElse(k.fpcc_digest, m.digest)) ELSE {})
    /\ IF Commits(k)
       THEN /\ ks' = [ks EXCEPT ![s] = [_maybe_send_ready(k) EXCEPT !.stored = TRUE]]
            /\ disk' = [disk EXCEPT ![s] = [fragment |-> k.fragment, fpcc |-> k.fpcc]]
       ELSE /\ ks' = [ks EXCEPT ![s] = _maybe_send_ready(k)]
            /\ UNCHANGED disk
    /\ UNCHANGED <<up, requests, echoes, budget, history>>

(* The step of a correct server on a message that is on its way.           *)
Deliver ==
    \/ \E r \in requests : Disperse(r)
    \/ \E m \in echoes : ReceiveEcho(m)
    \/ \E m \in readys : ReceiveReady(m)

(* A Byzantine server sends what it likes, in whatever name.               *)
DeliverByzantine ==
    \E m \in FromByzantine : ReceiveEcho(m) \/ ReceiveReady(m)

-----------------------------------------------------------------------------
(* Lost calls, crashes and restarts                                        *)

(* No call is retried: it is lost when it times out (bounded), or when one *)
(* of its ends is down (the connection is refused, the task is gone).      *)
Lost(ends) ==
    \/ ~(ends \cap Correct \subseteq up) /\ UNCHANGED budget
    \/ Spend("loss")

Lose ==
    /\ \/ \E r \in requests :
            /\ Lost({r.to})
            /\ requests' = requests \ {r} /\ UNCHANGED <<echoes, readys>>
       \/ \E m \in echoes :
            /\ Lost({m.from, m.to})
            /\ echoes' = echoes \ {m} /\ UNCHANGED <<requests, readys>>
       \/ \E m \in readys :
            /\ Lost({m.from, m.to})
            /\ readys' = readys \ {m} /\ UNCHANGED <<requests, echoes>>
    /\ UNCHANGED <<ks, disk, up, history>>

(* The process of s ends: its KeyState is gone, its file stays.            *)
Halt(s) ==
    /\ Spend("crash")
    /\ s \in up
    /\ up' = up \ {s}
    /\ ks' = [ks EXCEPT ![s] = EmptyKeyState]
    /\ disturbed' = disturbed \cup {s}

Crash(s) ==
    /\ Halt(s)
    /\ UNCHANGED <<disk, net, accepted>>

(* ... inside write_text of a commit: the file is truncated or partial.    *)
CrashInStore(m) ==
    /\ Commits(AfterReady(m))
    /\ Halt(m.to)
    /\ disk' = [disk EXCEPT ![m.to] = Torn]
    /\ readys' = readys \ {m}
    /\ UNCHANGED <<requests, echoes, accepted>>

Restart(s) ==
    /\ s \notin up
    /\ up' = up \cup {s}
    /\ UNCHANGED <<ks, disk, net, budget, history>>

-----------------------------------------------------------------------------
(* The debug endpoints, driven by corrupt_server.py and demo.sh            *)

Toggle(fragment, x) ==
    [fragment EXCEPT !.mask = (@ \ {x}) \cup ({x} \ @)]

Tampered(k, x) == [k EXCEPT !.fragment = Toggle(k.fragment, x)]

Inject(s) ==
    /\ Spend("injection")
    /\ s \in up
    /\ disturbed' = disturbed \cup {s}
    /\ UNCHANGED <<up, net, accepted>>

(* A server that does not serve from memory first loads its file.          *)
Loaded(s) ==
    IF Serving(ks[s]) THEN ks[s]
    ELSE [ks[s] EXCEPT !.fragment = disk[s].fragment, !.fpcc = disk[s].fpcc,
                       !.stored = TRUE]

Lie(s) ==
    /\ Serving(ks[s]) \/ disk[s] \in File
    /\ Inject(s)
    /\ ks' = [ks EXCEPT ![s] = Tampered(Loaded(s), "lie")]
    /\ UNCHANGED disk

Corrupt_KeepStored(s) ==
    /\ Serving(ks[s])
    /\ Inject(s)
    /\ ks' = [ks EXCEPT ![s] =
                [Tampered(ks[s], "corrupt") EXCEPT !.verified = FALSE]]
    /\ UNCHANGED disk

Corrupt(s) ==
    /\ Serving(ks[s])
    /\ Inject(s)
    /\ ks' = [ks EXCEPT ![s] =
                [Tampered(ks[s], "corrupt") EXCEPT !.stored = FALSE, !.verified = FALSE]]
    /\ UNCHANGED disk

Reset(s) ==
    /\ Known(s) \/ disk[s] # None
    /\ Inject(s)
    /\ ks' = [ks EXCEPT ![s] = EmptyKeyState]
    /\ disk' = [disk EXCEPT ![s] = None]

(* GET /retrieve: what s answers, None for stored=False, Torn for a 500.   *)
Retrieve_NoFallback(s) ==
    IF Serving(ks[s])
    THEN [fragment |-> ks[s].fragment, fpcc |-> ks[s].fpcc]
    ELSE None
Retrieve_Memory(s) ==
    IF Known(s)
    THEN [fragment |-> ks[s].fragment, fpcc |-> ks[s].fpcc]
    ELSE disk[s]
Retrieve(s) ==
    IF Serving(ks[s])
    THEN [fragment |-> ks[s].fragment, fpcc |-> ks[s].fpcc]
    ELSE disk[s]

-----------------------------------------------------------------------------
(* Specifications                                                          *)

Faults ==
    \/ Lose
    \/ \E s \in Correct : Crash(s) \/ Restart(s)
    \/ \E m \in readys \cup FromByzantine : CrashInStore(m)
    \/ \E s \in Correct : Lie(s) \/ Corrupt(s) \/ Reset(s)

Next ==
    \/ \E v \in Version : Put(v)
    \/ Deliver
    \/ DeliverByzantine
    \/ Faults

Spec == Init /\ [][Next]_vars

(* Servers answer what reaches them: the event loop runs every handler and *)
(* every broadcast task it was given.                                      *)
FairSpec == Spec /\ WF_vars(Deliver)

-----------------------------------------------------------------------------
(* Properties                                                              *)

(* Every variable has its type.                                            *)
TypeOK ==
    /\ ks \in [Correct -> KeyState]
    /\ disk \in [Correct -> File \cup {None, Torn}]
    /\ up \subseteq Correct
    /\ requests \subseteq Request
    /\ echoes \subseteq Message
    /\ readys \subseteq Message
    /\ budget \in [Kind -> Nat]
    /\ accepted \subseteq Correct
    /\ disturbed \subseteq Correct

(* The servers that hold, in memory, a fragment of v they could prove to a *)
(* client: it verifies against the FPCC they hold with it.                 *)
Holders(v) ==
    {s \in Correct : /\ ks[s].fpcc = v
                     /\ ks[s].fragment # None
                     /\ verify_fragment(s, ks[s].fragment, v)}

(* Once a correct server has committed a file, a quorum of servers has      *)
(* verified its fragment: at least n - f ECHOs and itself, of which at most *)
(* the Byzantine ones do not count, hold a fragment of the same content,    *)
(* unless they crashed or were tampered with since. The thresholds of       *)
(* state.py leave no object that only its committer has.                    *)
CommittedIsRecoverable ==
    \A s \in Correct : disk[s] \in File =>
        Cardinality(Holders(disk[s].fpcc) \cup disturbed) > N - F - Cardinality(Byzantine)

(* What a server answers from memory and what it falls back to after a     *)
(* restart are the same object with the same damage, up to /lie, which is  *)
(* meant to touch memory only: stored is never TRUE over a missing, torn   *)
(* or different file (routes.py retrieve and _try_store).                  *)
SameObject(k, file) ==
    /\ file \in File
    /\ file.fpcc = k.fpcc
    /\ file.fragment.ver = k.fragment.ver
    /\ file.fragment.mask \ {"lie"} = k.fragment.mask \ {"lie"}

MemoryMatchesDisk ==
    \A s \in Correct : ks[s].stored => SameObject(ks[s], disk[s])

(* A committed file is final: whatever clients and peers send afterwards,  *)
(* in whatever order, a server that did not crash and was not tampered     *)
(* with never replaces or loses it (the `stored` guards of disperse and    *)
(* _try_store, which live in memory only).                                 *)
CommittedFileIsFinal ==
    [][\A s \in Correct \ disturbed' : disk[s] \in File => disk'[s] = disk[s]]_vars

(* A client's put is eventually committed by every correct server.         *)
PutIsStored ==
    \A v \in Version : (\A s \in Correct : [to |-> s, ver |-> v] \in requests)
        ~> (\A s \in Correct : ks[s].stored)

(* Totality: once every server has verified its fragment, and from then on *)
(* no call is lost and no server fails, either no correct server commits   *)
(* or all do, although ECHOs were lost before and some servers never get   *)
(* n - f of them (the f + 1 amplification of /ready).                      *)
Quiet == requests = {} /\ echoes = {} /\ readys = {}
Undisturbed == disturbed = {} /\ budget["loss"] = Budget["loss"]
AllOrNothing ==
    /\ Quiet /\ Undisturbed
    /\ \E s \in Correct : ks[s].stored
    => \A s \in Correct : ks[s].stored

(* Where nothing fails, no order of calls lets a put come to rest          *)
(* unfinished: when nothing is on its way any more, what was put is stored *)
(* by every correct server. Votes that come before the /disperse count,    *)
(* and a server that could not send READY then has sent it since.          *)
PutsAreStored ==
    Quiet /\ budget["put"] # Budget["put"] => \A s \in Correct : ks[s].stored

(* test_integration.py:124 "Server stores a fragment after: (a) /disperse  *)
(* - fragment verified": a stored fragment passed verify_fragment.         *)
StoredIsVerified ==
    \A s \in Correct \ disturbed :
        ks[s].stored => verify_fragment(s, ks[s].fragment, ks[s].fpcc)
=============================================================================
