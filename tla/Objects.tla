------------------------------- MODULE Objects -------------------------------
(***************************************************************************)
(* Objects of several chunks: what client/cli.py and client/client.py do   *)
(* with a cluster whose servers treat each key as Slot says. A put sends   *)
(* the chunks one after the other, then asks the servers for the status of *)
(* the first; a get probes how many chunks there are, unless it is told,   *)
(* then retrieves them one after the other. Servers, meanwhile, commit     *)
(* what they hold or not, crash inside a commit or between two, have a key *)
(* reset by corrupt_server.py, and handle calls that their client has long *)
(* given up.                                                               *)
(*                                                                         *)
(* A key is the sequence of its parts between "/chunk/": <<"a">> is the    *)
(* name "a", <<"a", 0>> the key of its chunk 0 (fs/chunker.py).            *)
(***************************************************************************)
EXTENDS Slot, Vote, Sequences

CONSTANTS
    Object,         \* names that users give to put, get and corrupt_server.py
    Content,        \* contents of files
    Chunks,         \* Chunks[c]: number of chunks that split cuts c into
    Pending,        \* no answer yet
    Nothing,        \* an answer without a fragment, or no answer at all
    PutBound,       \* bound on puts of each content
    TroubleBound    \* bound on calls that raise, crashes and resets together

MaxChunks == CHOOSE k \in {Chunks[c] : c \in Content} :
                 \A c \in Content : Chunks[c] <= k

(* What users and servers call things: names, and keys of chunks.          *)
Name == Seq(STRING \cup Nat)

chunk_key(object, i) == Append(object, i)
Key == {chunk_key(object, i) : object \in Object, i \in 0..MaxChunks}

(* parse_chunk_key, and the bare name that the CLI strips a chunk key to.  *)
IsChunkKey(key) == Len(key) = 2 /\ key[2] \in Nat
Stripped(key) == IF IsChunkKey(key) THEN <<key[1]>> ELSE key

(* corrupt_server.py completes a name without "/chunk/" in it to the key   *)
(* of its first chunk.                                                     *)
_build_key(key) == IF Len(key) > 1 THEN key ELSE chunk_key(key, 0)

Piece(c, i) == <<c, i>>
Whole(c) == [j \in 1..Chunks[c] |-> Piece(c, j - 1)]

(* A name that is itself a chunk key cannot be got back: the CLI strips it *)
(* and the client takes it for a chunk.                                    *)
ASSUME ObjectAssumption ==
    \A object \in Object : object \in Name /\ Len(object) > 0 /\ ~IsChunkKey(object)
ASSUME ServerAssumption == IsFiniteSet(Server) /\ M \in 1..N
ASSUME ChunksAssumption ==
    /\ Chunks \in [Content -> Nat \ {0}]
    /\ \E c \in Content : \A d \in Content : Chunks[d] <= Chunks[c]
ASSUME SlotAssumption ==
    /\ Place = Key \X Server
    /\ Version = UNION {{Piece(c, i) : i \in 0..(Chunks[c] - 1)} : c \in Content}
ASSUME BoundAssumption == PutBound \in Nat /\ TroubleBound \in Nat
ASSUME AnswerAssumption ==
    /\ {Pending, Nothing, None} \cap Version = {}
    /\ Pending # Nothing
    /\ Torn \notin Version
    /\ None \notin Content \cup Object \cup Nat

VARIABLES
    put,        \* the client that puts
    get,        \* the client that gets
    shown,      \* what the CLI said of the last put
    late,       \* /disperse calls that raised and may still be handled
    puts,       \* history: <<object, content>> of the puts begun
    left,       \* left[c]: puts of c that clients may still begin
    spent       \* history: numbers of calls that raised, crashes and resets

history == <<puts, left, spent>>
objVars == <<slot, put, get, shown, late, history>>

Trouble == {"raise", "crash", "tear", "reset"}

Putter ==
    [state : {"idle", "dispersing", "polling", "failed"},
     object : Object \cup {None}, content : Content \cup {None},
     chunk : Nat,
     waiting : SUBSET Server,       \* servers that have not answered yet
     failed : Nat,                  \* calls for this chunk that raised
     on : SUBSET Server,            \* servers whose status is stored
     harm : Nat]                    \* history: Harm when the status was asked

Report ==
    [object : Object \cup {None}, content : Content \cup {None},
     on : SUBSET Server, harm : Nat]

Getter ==
    [state : {"idle", "probing", "retrieving", "got", "failed"},
     object : Name \cup {None}, count : Nat,
     replies : [Server -> Version \cup {Pending, Nothing}],
     chunks : Seq(Version),
     stored : SUBSET Content,       \* history: stored everywhere at the start,
     report : Report]               \* and what the CLI had said of the object

Idle == [state |-> "idle", object |-> None, content |-> None, chunk |-> 0,
         waiting |-> {}, failed |-> 0, on |-> {}, harm |-> 0]
NoReport == [object |-> None, content |-> None, on |-> {}, harm |-> 0]
NoReplies == [s \in Server |-> Pending]
IdleGet == [state |-> "idle", object |-> None, count |-> 0, replies |-> NoReplies,
            chunks |-> <<>>, stored |-> {}, report |-> NoReport]

InitGet == get = IdleGet /\ late = {} /\ spent = [kind \in Trouble |-> 0]
InitClients == InitGet /\ put = Idle /\ shown = NoReport

ObjectsInit == Init /\ InitClients /\ puts = {} /\ left = [c \in Content |-> PutBound]

(* What may cost a get a fragment of a file that was stored, and all.      *)
Harm == spent["raise"] + spent["tear"] + spent["reset"]
Troubles == Harm + spent["crash"]

Spend(kind) ==
    /\ Troubles < TroubleBound
    /\ spent' = [spent EXCEPT ![kind] = @ + 1]

-----------------------------------------------------------------------------
(* The servers                                                             *)

(* A server that was never sent the key answers as if it had forgotten it. *)
EntryAt(p) == IF p \in Place THEN slot[p] ELSE Empty

Store(p) ==
    /\ Commit(p)
    /\ UNCHANGED <<put, get, shown, late, history>>

(* A process ends and starts again; all its keys are in its one memory.    *)
Forgotten(s) ==
    [p \in Place |->
        IF p[2] = s THEN [slot[p] EXCEPT !.held = None, !.stored = FALSE] ELSE slot[p]]

Crash(s) ==
    /\ Spend("crash")
    /\ slot' = Forgotten(s)
    /\ UNCHANGED <<put, get, shown, late, puts, left>>

(* ... inside the write of a commit. A key that is held anew after a crash *)
(* has a file already, and write_text truncates it first.                  *)
CrashInStore(p) ==
    /\ ~slot[p].stored /\ slot[p].held # None
    /\ Spend("tear")
    /\ slot' = [Forgotten(p[2]) EXCEPT ![p].file = Torn]
    /\ UNCHANGED <<put, get, shown, late, puts, left>>

(* corrupt_server --reset s --key key                                      *)
Reset(key, s) ==
    /\ Spend("reset")
    /\ EntryAt(<<_build_key(key), s>>) # Empty
    /\ Wipe(<<_build_key(key), s>>)
    /\ UNCHANGED <<put, get, shown, late, puts, left>>

(* /disperse of v at place p, accepted or already stored.                  *)
Handled(p, v) == Hold(p, v) \/ (slot[p].stored /\ UNCHANGED slot)

HandleLate(p, v) ==
    /\ <<p, v>> \in late
    /\ Handled(p, v)
    /\ late' = late \ {<<p, v>>}
    /\ UNCHANGED <<put, get, shown, history>>

-----------------------------------------------------------------------------
(* put                                                                     *)

PutBegin(object, c) ==
    /\ put.state \in {"idle", "failed"}
    /\ left[c] > 0
    /\ left' = [left EXCEPT ![c] = @ - 1]
    /\ puts' = puts \cup {<<object, c>>}
    /\ put' = [Idle EXCEPT !.state = "dispersing", !.object = object, !.content = c,
                           !.waiting = Server]
    /\ UNCHANGED <<slot, get, shown, late, spent>>

Waiting(state, s) == put.state = state /\ s \in put.waiting

PutPlace(s) == <<chunk_key(put.object, put.chunk), s>>
PutPiece == Piece(put.content, put.chunk)

Disperse(s) ==
    /\ Waiting("dispersing", s)
    /\ Handled(PutPlace(s), PutPiece)
    /\ put' = [put EXCEPT !.waiting = @ \ {s}]
    /\ UNCHANGED <<get, shown, late, history>>

(* The call raises: it was refused, or it timed out and the server handles *)
(* it at any time from now on, or never.                                   *)
DisperseRaises(s) ==
    /\ Waiting("dispersing", s)
    /\ Spend("raise")
    /\ late' = late \cup {<<PutPlace(s), PutPiece>>}
    /\ put' = [put EXCEPT !.waiting = @ \ {s}, !.failed = @ + 1]
    /\ UNCHANGED <<slot, get, shown, puts, left>>

TooManyUnreachable == put.failed > N - M

(* Every server answered or raised: the put fails, goes on, or ends, and   *)
(* the CLI asks for the status of its first chunk.                         *)
ChunkDispersed ==
    /\ put.state = "dispersing" /\ put.waiting = {}
    /\ put' = IF TooManyUnreachable THEN [Idle EXCEPT !.state = "failed"]
              ELSE IF put.chunk + 1 = Chunks[put.content]
              THEN [put EXCEPT !.state = "polling", !.waiting = Server, !.chunk = 0,
                               !.failed = 0, !.harm = Harm]
              ELSE [put EXCEPT !.chunk = @ + 1, !.waiting = Server, !.failed = 0]
    /\ UNCHANGED <<slot, get, shown, late, history>>

(* /status reads memory only; it is 404 for a key that is on disk only.    *)
Status(s) ==
    /\ Waiting("polling", s)
    /\ put' = [put EXCEPT !.waiting = @ \ {s},
                          !.on = IF slot[PutPlace(s)].stored THEN @ \cup {s} ELSE @]
    /\ UNCHANGED <<slot, get, shown, late, history>>

StatusRaises(s) ==
    /\ Waiting("polling", s)
    /\ Spend("raise")
    /\ put' = [put EXCEPT !.waiting = @ \ {s}]
    /\ UNCHANGED <<slot, get, shown, late, puts, left>>

(* "Successfully stored on k/n servers", or "Only stored on k/n servers".  *)
ShowStatus ==
    /\ put.state = "polling" /\ put.waiting = {}
    /\ shown' = [object |-> put.object, content |-> put.content,
                 on |-> put.on, harm |-> put.harm]
    /\ put' = Idle
    /\ UNCHANGED <<slot, get, late, history>>

Successful(report) == Cardinality(report.on) >= M

-----------------------------------------------------------------------------
(* get                                                                     *)

StoredEverywhere(object, c) ==
    \A i \in 0..(Chunks[c] - 1), s \in Server :
        EntryAt(<<chunk_key(object, i), s>>).file = Piece(c, i)

GetOf(object) ==
    [IdleGet EXCEPT
        !.object = object,
        !.stored = {c \in Content : StoredEverywhere(object, c)},
        !.report = IF shown.object = object THEN shown ELSE NoReport]

GetBegin(key) ==
    /\ get.state = "idle"
    /\ get' = [GetOf(Stripped(key)) EXCEPT !.state = "probing"]
    /\ UNCHANGED <<slot, put, shown, late, history>>

(* get --chunk-count k: no probe, and what is stored or was reported of    *)
(* another number of chunks is not what the user asked for. Of no chunks   *)
(* an empty file is written.                                               *)
GetCounted(key, k) ==
    /\ get.state = "idle"
    /\ get' = [GetOf(Stripped(key)) EXCEPT
                  !.state = IF k = 0 THEN "got" ELSE "retrieving", !.count = k,
                  !.stored = {c \in @ : Chunks[c] = k},
                  !.report = IF @.content # None /\ Chunks[@.content] = k
                             THEN @ ELSE NoReport]
    /\ UNCHANGED <<slot, put, shown, late, history>>

(* The chunk asked for: the next to count, then the next to retrieve.      *)
Asked_Next ==
    chunk_key(get.object, IF get.state = "probing" THEN get.count ELSE Len(get.chunks) + 1)
Asked ==
    chunk_key(get.object, IF get.state = "probing" THEN get.count ELSE Len(get.chunks))

Served_Memory(entry) ==
    IF entry.stored /\ entry.held # None THEN entry.held ELSE Nothing
Served(entry) ==
    IF entry.stored /\ entry.held # None THEN entry.held
    ELSE IF entry.file \in Version THEN entry.file ELSE Nothing

Asking(s) == get.state \in {"probing", "retrieving"} /\ get.replies[s] = Pending

Reply(s) ==
    /\ Asking(s)
    /\ get' = [get EXCEPT !.replies[s] = Served(EntryAt(<<Asked, s>>))]
    /\ UNCHANGED <<slot, put, shown, late, history>>

ReplyRaises(s) ==
    /\ Asking(s)
    /\ Spend("raise")
    /\ get' = [get EXCEPT !.replies[s] = Nothing]
    /\ UNCHANGED <<slot, put, shown, late, puts, left>>

Answered ==
    /\ get.state \in {"probing", "retrieving"}
    /\ \A s \in Server : get.replies[s] # Pending

Found_Everywhere == \A s \in Server : get.replies[s] # Nothing
Found == \E s \in Server : get.replies[s] # Nothing

(* discover_chunk_count: one more chunk, or the last was found.            *)
Probed ==
    /\ get.state = "probing" /\ Answered
    /\ get' = IF Found THEN [get EXCEPT !.count = @ + 1, !.replies = NoReplies]
              ELSE IF get.count = 0 THEN [get EXCEPT !.state = "failed"]
              ELSE [get EXCEPT !.state = "retrieving", !.replies = NoReplies]
    /\ UNCHANGED <<slot, put, shown, late, history>>

(* _retrieve_chunk, of servers whose fragments all verify (ChunkGet).      *)
Votes == [v \in Version |-> {s \in Server : get.replies[s] = v}]
Decoded(v) == Elected(Votes, v) /\ Cardinality(Votes[v]) >= M

Retrieved ==
    /\ get.state = "retrieving" /\ Answered
    /\ \E v \in Version :
        /\ Decoded(v)
        /\ get' = [get EXCEPT !.chunks = Append(@, v), !.replies = NoReplies,
                              !.state = IF Len(get.chunks) + 1 = get.count THEN "got" ELSE @]
    /\ UNCHANGED <<slot, put, shown, late, history>>

(* RuntimeError: no FPCC, or too few fragments of the one chosen.          *)
RetrieveFails ==
    /\ get.state = "retrieving" /\ Answered
    /\ (\E v \in Version : Elected(Votes, v))
           => \E v \in Version : Elected(Votes, v) /\ ~Decoded(v)
    /\ get' = [get EXCEPT !.state = "failed", !.replies = NoReplies]
    /\ UNCHANGED <<slot, put, shown, late, history>>

-----------------------------------------------------------------------------
ServersNext ==
    \/ \E p \in Place : Store(p) \/ CrashInStore(p)
    \/ \E s \in Server : Crash(s)
    \/ \E key \in Object \cup Key, s \in Server : Reset(key, s)
    \/ \E call \in late : HandleLate(call[1], call[2])

PutNext ==
    \/ \E object \in Object, c \in Content : PutBegin(object, c)
    \/ \E s \in Server : Disperse(s) \/ DisperseRaises(s) \/ Status(s) \/ StatusRaises(s)
    \/ ChunkDispersed
    \/ ShowStatus

GetNext ==
    \/ \E key \in Object \cup Key : GetBegin(key) \/ \E k \in 0..MaxChunks : GetCounted(key, k)
    \/ \E s \in Server : Reply(s) \/ ReplyRaises(s)
    \/ Probed
    \/ Retrieved
    \/ RetrieveFails

ObjectsNext == ServersNext \/ PutNext \/ GetNext

ObjectsSpec == ObjectsInit /\ [][ObjectsNext]_objVars

-----------------------------------------------------------------------------
(* Properties                                                              *)

(* Chunk i of what a get returns is chunk i of a content that was put      *)
(* under that name, whatever is put, late, lost, reset or torn meanwhile.  *)
ChunksInPlace ==
    \A j \in DOMAIN get.chunks : \E c \in Content :
        <<get.object, c>> \in puts /\ get.chunks[j] = Piece(c, j - 1)

(* An object that all servers had stored when a get began is returned      *)
(* whole, first put wins, as long as most servers, and at least m, had no  *)
(* trouble, and nothing longer was put under its name.                     *)
StoredIsReturnedWhole ==
    \A c \in get.stored :
        /\ N - Troubles >= Needed /\ N - Troubles > Troubles
        /\ \A p \in puts : p[1] = get.object => Chunks[p[2]] <= Chunks[c]
        => get.state # "failed" /\ (get.state = "got" => get.chunks = Whole(c))

(* cli.py:161-162 "Successfully stored on k/n servers (need any m to       *)
(* reconstruct)": a file of one chunk can be got back as long as enough of *)
(* the servers it was reported on answered and had no write cut short and  *)
(* no reset since, although any of them restarted, gives 404 as status, is *)
(* sent the file again and handles calls of earlier puts of it.            *)
Remaining(report) == Cardinality(report.on) - (Harm - report.harm)

ReportedIsRetrievable ==
    LET c == get.report.content IN
    /\ Successful(get.report)
    /\ Chunks[c] = 1
    /\ {p \in puts : p[1] = get.object} = {<<get.object, c>>}
    /\ Remaining(get.report) >= Needed
    => get.state # "failed" /\ (get.state = "got" => get.chunks = Whole(c))

(* README.md:140 "Store across all 5 servers ... Retrieve ... Verify       *)
(* byte-for-byte match": after a put that the CLI reported as stored, what *)
(* a get returns is a whole object that was put.                           *)
ReturnedIsObject ==
    Successful(get.report) /\ get.state = "got" => \E c \in Content :
        <<get.object, c>> \in puts /\ get.chunks = Whole(c)
=============================================================================
