---------------------------- MODULE ObjectsProofs -----------------------------
(***************************************************************************)
(* Theorems about Objects: no chunk is returned in another's place, and a  *)
(* get returns what was stored: an object that every server had stored when*)
(* the get began, and one that the CLI reported as stored.                 *)
(***************************************************************************)
EXTENDS Objects, TLAPS, FiniteSetTheorems, SequenceTheorems

-----------------------------------------------------------------------------
(***************************************************************************)
(* No chunk is returned in another's place.                                *)
(***************************************************************************)

-----------------------------------------------------------------------------
(* Names and keys                                                          *)

LEMMA KeyIsName ==
  ASSUME NEW object \in Name, NEW i \in Nat
  PROVE  chunk_key(object, i) \in Name
  BY AppendProperties DEF chunk_key, Name

(* A key is the key of one chunk of one name.                              *)
LEMMA KeyIsUnique ==
  ASSUME NEW o \in Name, NEW p \in Name, NEW i \in Nat, NEW j \in Nat,
         chunk_key(o, i) = chunk_key(p, j)
  PROVE  o = p /\ i = j
  <1> DEFINE Part == STRING \cup Nat
  <1>1. i \in Part /\ j \in Part /\ o \in Seq(Part) /\ p \in Seq(Part)
    BY DEF Name
  <1>2. Append(o, i) = Append(p, j)
    BY DEF chunk_key
  <1> HIDE DEF Part
  <1> QED
    BY <1>1, <1>2, AppendInjective

LEMMA StrippedIsName ==
  ASSUME NEW key \in Object \cup Key
  PROVE  Stripped(key) \in Name
  <1>1. key \in Name
    <2>1. ASSUME NEW object \in Object, NEW i \in 0..MaxChunks
          PROVE  chunk_key(object, i) \in Name
      BY ObjectAssumption, KeyIsName
    <2> QED
      BY <2>1, ObjectAssumption DEF Key
  <1>2. CASE IsChunkKey(key)
    <2>1. key[1] \in STRING \cup Nat
      BY <1>1, <1>2 DEF IsChunkKey, Name
    <2> QED
      BY <1>2, <2>1 DEF Stripped, Name
  <1> QED
    BY <1>1, <1>2 DEF Stripped

-----------------------------------------------------------------------------
(* The invariant: whatever is held, filed, on its way or answered at a key *)
(* is a piece of a content that was put under the name of that key, and    *)
(* the piece that the key is for.                                          *)

ObjectsTypeOK ==
    /\ slot \in [Place -> Entry]
    /\ put \in Putter
    /\ get \in Getter
    /\ shown \in Report
    /\ puts \subseteq Object \X Content
    /\ left \in [Content -> Nat]
    /\ spent \in [Trouble -> Nat]

Placed(key, v) ==
    \E object \in Object, c \in Content : \E i \in Nat :
        <<object, c>> \in puts /\ key = chunk_key(object, i) /\ v = Piece(c, i)

EntryPlaced(p, entry) ==
    /\ entry.held # None => Placed(p[1], entry.held)
    /\ entry.file \in Version => Placed(p[1], entry.file)

SlotsPlaced == \A p \in Place : EntryPlaced(p, slot[p])

LatePlaced ==
    \A call \in late : call[2] \in Version /\ Placed(call[1][1], call[2])

PutPlaced ==
    put.state \in {"dispersing", "polling"} =>
        /\ put.object \in Object /\ put.content \in Content
        /\ <<put.object, put.content>> \in puts
        /\ put.chunk \in 0..(Chunks[put.content] - 1)

GetPlaced(g) ==
    /\ g.state \in {"probing", "retrieving"} =>
        /\ g.object \in Name
        /\ \A s \in Server : g.replies[s] \in Version =>
               Placed(chunk_key(g.object, IF g.state = "probing" THEN g.count
                                          ELSE Len(g.chunks)), g.replies[s])
    /\ \A j \in DOMAIN g.chunks : \E c \in Content :
           <<g.object, c>> \in puts /\ g.chunks[j] = Piece(c, j - 1)

ObjectsInv ==
    ObjectsTypeOK /\ SlotsPlaced /\ LatePlaced /\ PutPlaced /\ GetPlaced(get)

(* What was put stays put.                                                 *)
LEMMA PlacedStays ==
  ASSUME puts \subseteq puts', NEW key, NEW v, Placed(key, v)
  PROVE  Placed(key, v)'
  BY DEF Placed

LEMMA IdleType ==
  /\ Idle \in Putter /\ NoReport \in Report /\ IdleGet \in Getter
  /\ Empty \in Entry
  /\ NoReplies \in [Server -> Version \cup {Pending, Nothing}]
  /\ IdleGet.chunks = <<>> /\ IdleGet.replies = NoReplies
  <1>1. NoReport \in Report
    BY DEF NoReport, Report
  <1>2. NoReplies \in [Server -> Version \cup {Pending, Nothing}]
    BY DEF NoReplies
  <1>3. <<>> \in Seq(Version)
    OBVIOUS
  <1> QED
    BY <1>1, <1>2, <1>3 DEF Idle, Putter, IdleGet, Getter, Empty, Entry

LEMMA HarmType ==
  ASSUME spent \in [Trouble -> Nat]
  PROVE  Harm \in Nat
  BY DEF Harm, Trouble

LEMMA SpendType ==
  ASSUME spent \in [Trouble -> Nat], NEW kind \in Trouble, Spend(kind)
  PROVE  spent' \in [Trouble -> Nat]
  BY DEF Spend

LEMMA InitObjectsInv == ObjectsInit => ObjectsInv
  <1> SUFFICES ASSUME ObjectsInit PROVE ObjectsInv
    OBVIOUS
  <1>1. /\ slot = [p \in Place |-> Empty] /\ put = Idle /\ get = IdleGet
        /\ shown = NoReport /\ late = {} /\ puts = {}
        /\ spent = [kind \in Trouble |-> 0] /\ left = [c \in Content |-> PutBound]
    BY DEF ObjectsInit, Init, InitClients, InitGet
  <1>2. ObjectsTypeOK
    BY <1>1, IdleType, BoundAssumption DEF ObjectsTypeOK
  <1>3. SlotsPlaced
    BY <1>1, AnswerAssumption DEF SlotsPlaced, EntryPlaced, Empty
  <1>4. PutPlaced /\ LatePlaced
    BY <1>1 DEF PutPlaced, LatePlaced, Idle
  <1>5. GetPlaced(get)
    BY <1>1, IdleType DEF GetPlaced, IdleGet
  <1> QED
    BY <1>2, <1>3, <1>4, <1>5 DEF ObjectsInv

-----------------------------------------------------------------------------
(* The servers                                                             *)

(* Nothing is put.                                                         *)
LEMMA SlotsStay ==
  ASSUME puts' = puts, \A q \in Place : EntryPlaced(q, slot'[q])
  PROVE  SlotsPlaced'
  <1>1. ASSUME NEW q \in Place PROVE EntryPlaced(q, slot[q])'
    <2>1. EntryPlaced(q, slot'[q])
      OBVIOUS
    <2> QED
      BY <2>1 DEF EntryPlaced, Placed
  <1> QED
    BY <1>1 DEF SlotsPlaced

(* One entry moves to what is in place there.                              *)
LEMMA BecomesPlaced ==
  ASSUME ObjectsInv, NEW p, NEW entry, puts' = puts,
         p \in Place => entry \in Entry /\ EntryPlaced(p, entry),
         slot' = [slot EXCEPT ![p] = entry]
  PROVE  slot' \in [Place -> Entry] /\ SlotsPlaced'
  <1>1. slot \in [Place -> Entry] /\ \A q \in Place : EntryPlaced(q, slot[q])
    BY DEF ObjectsInv, ObjectsTypeOK, SlotsPlaced
  <1>2. slot' \in [Place -> Entry]
    BY <1>1
  <1>3. \A q \in Place : EntryPlaced(q, slot'[q])
    BY <1>1
  <1> QED
    BY <1>2, <1>3, SlotsStay

(* A step of the servers alone.                                            *)
LEMMA ServersStep ==
  ASSUME ObjectsInv, slot' \in [Place -> Entry], SlotsPlaced', late' \subseteq late,
         UNCHANGED <<put, get, shown, puts, left>>, spent' \in [Trouble -> Nat]
  PROVE  ObjectsInv'
  <1>1. ObjectsTypeOK'
    BY DEF ObjectsInv, ObjectsTypeOK
  <1>2. LatePlaced'
    BY DEF ObjectsInv, LatePlaced, Placed
  <1>3. PutPlaced'
    BY DEF ObjectsInv, PutPlaced
  <1>4. GetPlaced(get)'
    BY DEF ObjectsInv, GetPlaced, Placed
  <1> QED
    BY <1>1, <1>2, <1>3, <1>4 DEF ObjectsInv

(* A /disperse that is handled at the key that it is for.                  *)
LEMMA HandledPlaced ==
  ASSUME ObjectsInv, NEW p, NEW v \in Version, Handled(p, v), Placed(p[1], v), puts' = puts
  PROVE  slot' \in [Place -> Entry] /\ SlotsPlaced'
  <1>1. CASE Hold(p, v)
    <2> DEFINE entry == [held |-> v, stored |-> FALSE, file |-> slot[p].file]
    <2>1. slot' = [slot EXCEPT ![p] = entry]
      BY <1>1 DEF Hold, Becomes
    <2>2. ASSUME p \in Place PROVE entry \in Entry /\ EntryPlaced(p, entry)
      <3>1. slot[p] \in Entry /\ EntryPlaced(p, slot[p])
        BY <2>2 DEF ObjectsInv, ObjectsTypeOK, SlotsPlaced
      <3> QED
        BY <3>1 DEF Entry, EntryPlaced
    <2> HIDE DEF entry
    <2> QED
      BY <2>1, <2>2, BecomesPlaced
  <1>2. CASE UNCHANGED slot
    <2>1. slot' \in [Place -> Entry] /\ \A q \in Place : EntryPlaced(q, slot'[q])
      BY <1>2 DEF ObjectsInv, ObjectsTypeOK, SlotsPlaced
    <2> QED
      BY <2>1, SlotsStay
  <1> QED
    BY <1>1, <1>2 DEF Handled

(* All that a process forgets leaves its files in place.                   *)
LEMMA ForgottenPlaced ==
  ASSUME ObjectsInv, NEW s \in Server
  PROVE  /\ Forgotten(s) \in [Place -> Entry]
         /\ \A p \in Place : EntryPlaced(p, Forgotten(s)[p])
  <1>1. ASSUME NEW p \in Place
        PROVE  Forgotten(s)[p] \in Entry /\ EntryPlaced(p, Forgotten(s)[p])
    <2>1. slot[p] \in Entry /\ EntryPlaced(p, slot[p])
      BY DEF ObjectsInv, ObjectsTypeOK, SlotsPlaced
    <2>2. Forgotten(s)[p] \in {slot[p], [slot[p] EXCEPT !.held = None, !.stored = FALSE]}
      BY DEF Forgotten
    <2> HIDE DEF Forgotten
    <2> QED
      BY <2>1, <2>2 DEF Entry, EntryPlaced
  <1>2. Forgotten(s) = [p \in Place |-> Forgotten(s)[p]]
    BY DEF Forgotten
  <1> QED
    BY <1>1, <1>2

LEMMA NextServers ==
  ASSUME ObjectsInv, ServersNext
  PROVE  ObjectsInv'
  <1>0. /\ slot \in [Place -> Entry] /\ spent \in [Trouble -> Nat]
        /\ \A p \in Place : EntryPlaced(p, slot[p])
    BY DEF ObjectsInv, ObjectsTypeOK, SlotsPlaced
  <1>1. ASSUME NEW p \in Place, Store(p) PROVE ObjectsInv'
    <2> DEFINE entry == [held |-> slot[p].held, stored |-> TRUE, file |-> slot[p].held]
    <2>1. /\ slot' = [slot EXCEPT ![p] = entry] /\ slot[p].held # None
          /\ UNCHANGED <<put, get, shown, late, puts, left, spent>>
      BY <1>1 DEF Store, Commit, Becomes, history
    <2>2. entry \in Entry /\ EntryPlaced(p, entry)
      <3>1. slot[p] \in Entry /\ EntryPlaced(p, slot[p])
        BY <1>0
      <3> QED
        BY <2>1, <3>1 DEF Entry, EntryPlaced
    <2> HIDE DEF entry
    <2> QED
      BY <1>0, <2>1, <2>2, BecomesPlaced, ServersStep
  <1>2. ASSUME NEW s \in Server, Crash(s) PROVE ObjectsInv'
    <2>1. /\ slot' = Forgotten(s) /\ spent' \in [Trouble -> Nat]
          /\ UNCHANGED <<put, get, shown, late, puts, left>>
      BY <1>0, <1>2, SpendType DEF Crash, Trouble
    <2>2. slot' \in [Place -> Entry] /\ \A p \in Place : EntryPlaced(p, slot'[p])
      BY <2>1, ForgottenPlaced
    <2>3. SlotsPlaced'
      BY <2>1, <2>2, SlotsStay
    <2> QED
      BY <2>1, <2>2, <2>3, ServersStep
  <1>3. ASSUME NEW p \in Place, CrashInStore(p) PROVE ObjectsInv'
    <2> DEFINE before == Forgotten(p[2])
    <2>0. p[2] \in Server
      BY SlotAssumption
    <2>1. /\ slot' = [before EXCEPT ![p].file = Torn] /\ spent' \in [Trouble -> Nat]
          /\ UNCHANGED <<put, get, shown, late, puts, left>>
      BY <1>0, <1>3, SpendType DEF CrashInStore, Trouble
    <2>2. before \in [Place -> Entry] /\ \A q \in Place : EntryPlaced(q, before[q])
      BY <2>0, ForgottenPlaced
    <2> HIDE DEF before
    <2>3. [before[p] EXCEPT !.file = Torn] \in Entry
          /\ EntryPlaced(p, [before[p] EXCEPT !.file = Torn])
      BY <2>2, AnswerAssumption DEF Entry, EntryPlaced
    <2>4. slot' = [before EXCEPT ![p] = [before[p] EXCEPT !.file = Torn]]
      BY <2>1
    <2>5. slot' \in [Place -> Entry] /\ \A q \in Place : EntryPlaced(q, slot'[q])
      BY <2>2, <2>3, <2>4
    <2>6. SlotsPlaced'
      BY <2>1, <2>5, SlotsStay
    <2> QED
      BY <2>1, <2>5, <2>6, ServersStep
  <1>4. ASSUME NEW key \in Object \cup Key, NEW s \in Server, Reset(key, s) PROVE ObjectsInv'
    <2> DEFINE p == <<_build_key(key), s>>
    <2>1. /\ slot' = [slot EXCEPT ![p] = Empty] /\ spent' \in [Trouble -> Nat]
          /\ UNCHANGED <<put, get, shown, late, puts, left>>
      BY <1>0, <1>4, SpendType DEF Reset, Wipe, Becomes, Empty, Trouble
    <2>2. EntryPlaced(p, Empty)
      BY AnswerAssumption DEF EntryPlaced, Empty
    <2> QED
      BY <2>1, <2>2, IdleType, BecomesPlaced, ServersStep
  <1>5. ASSUME NEW call \in late, HandleLate(call[1], call[2]) PROVE ObjectsInv'
    <2>1. /\ Handled(call[1], call[2]) /\ late' \subseteq late
          /\ UNCHANGED <<put, get, shown, puts, left, spent>>
      BY <1>5 DEF HandleLate, history
    <2>2. call[2] \in Version /\ Placed(call[1][1], call[2])
      BY DEF ObjectsInv, LatePlaced
    <2>3. slot' \in [Place -> Entry] /\ SlotsPlaced'
      BY <2>1, <2>2, HandledPlaced
    <2> QED
      BY <1>0, <2>1, <2>3, ServersStep
  <1> QED
    BY <1>1, <1>2, <1>3, <1>4, <1>5 DEF ServersNext

-----------------------------------------------------------------------------
(* The client that puts                                                    *)

(* A step of this client, which may also reach a server.                   *)
LEMMA PutStep ==
  ASSUME ObjectsInv, slot' \in [Place -> Entry], SlotsPlaced',
         put' \in Putter, PutPlaced', shown' \in Report, LatePlaced',
         puts \subseteq puts', puts' \subseteq Object \X Content,
         left' \in [Content -> Nat], spent' \in [Trouble -> Nat], get' = get
  PROVE  ObjectsInv'
  <1>1. ObjectsTypeOK'
    BY DEF ObjectsInv, ObjectsTypeOK
  <1>2. GetPlaced(get)'
    <2>1. GetPlaced(get)
      BY DEF ObjectsInv
    <2> QED
      BY <2>1, PlacedStays DEF GetPlaced
  <1> QED
    BY <1>1, <1>2 DEF ObjectsInv

(* What is sent is for the key that it is sent under.                      *)
LEMMA PieceSent ==
  ASSUME ObjectsInv, NEW s \in Server, put.state \in {"dispersing", "polling"}
  PROVE  /\ PutPiece \in Version
         /\ Placed(PutPlace(s)[1], PutPiece)
  <1>1. /\ put.object \in Object /\ put.content \in Content
        /\ <<put.object, put.content>> \in puts
        /\ put.chunk \in 0..(Chunks[put.content] - 1)
    BY DEF ObjectsInv, PutPlaced
  <1>2. PutPiece \in Version
    BY <1>1, SlotAssumption DEF PutPiece
  <1>3. Placed(chunk_key(put.object, put.chunk), PutPiece)
    <2>1. put.chunk \in Nat
      BY <1>1, ChunksAssumption
    <2> QED
      BY <1>1, <2>1 DEF Placed, PutPiece
  <1> QED
    BY <1>2, <1>3 DEF PutPlace

LEMMA NextPut ==
  ASSUME ObjectsInv, PutNext
  PROVE  ObjectsInv'
  <1>0. /\ slot \in [Place -> Entry] /\ spent \in [Trouble -> Nat] /\ SlotsPlaced /\ LatePlaced
        /\ put \in Putter /\ shown \in Report /\ left \in [Content -> Nat]
        /\ puts \subseteq Object \X Content /\ PutPlaced
    BY DEF ObjectsInv, ObjectsTypeOK
  <1>1. ASSUME puts \subseteq puts', slot' = slot PROVE slot' \in [Place -> Entry] /\ SlotsPlaced'
    BY <1>0, <1>1, PlacedStays DEF SlotsPlaced, EntryPlaced
  <1>2. ASSUME puts \subseteq puts', late' \subseteq late PROVE LatePlaced'
    BY <1>0, <1>2, PlacedStays DEF LatePlaced
  <1>3. ASSUME NEW object \in Object, NEW c \in Content, PutBegin(object, c) PROVE ObjectsInv'
    <2> DEFINE p == [Idle EXCEPT !.state = "dispersing", !.object = object, !.content = c,
                                 !.waiting = Server]
    <2>1. /\ put' = p /\ puts' = puts \cup {<<object, c>>} /\ left[c] > 0
          /\ left' = [left EXCEPT ![c] = @ - 1]
          /\ UNCHANGED <<slot, get, shown, late, spent>>
      BY <1>3 DEF PutBegin
    <2>2. /\ p \in Putter /\ p.object = object /\ p.content = c /\ p.chunk = 0
      BY DEF Idle, Putter
    <2> HIDE DEF p
    <2>3. PutPlaced'
      BY <2>1, <2>2, ChunksAssumption DEF PutPlaced
    <2>4. left' \in [Content -> Nat]
      BY <1>0, <2>1
    <2> QED
      BY <1>0, <1>1, <1>2, <2>1, <2>2, <2>3, <2>4, PutStep
  <1>4. ASSUME NEW s \in Server, Disperse(s) PROVE ObjectsInv'
    <2> DEFINE p == [put EXCEPT !.waiting = @ \ {s}]
    <2>1. /\ put' = p /\ put.state = "dispersing" /\ Handled(PutPlace(s), PutPiece)
          /\ UNCHANGED <<get, shown, late, puts, left, spent>>
      BY <1>4 DEF Disperse, Waiting, history
    <2>2. /\ p \in Putter /\ p.object = put.object /\ p.content = put.content
          /\ p.chunk = put.chunk /\ p.state = put.state
      BY <1>0 DEF Putter
    <2> HIDE DEF p
    <2>3. PutPlaced'
      BY <1>0, <2>1, <2>2 DEF PutPlaced
    <2>4. slot' \in [Place -> Entry] /\ SlotsPlaced'
      BY <2>1, PieceSent, HandledPlaced
    <2> QED
      BY <1>0, <1>2, <2>1, <2>2, <2>3, <2>4, PutStep
  <1>5. ASSUME NEW s \in Server, DisperseRaises(s) PROVE ObjectsInv'
    <2> DEFINE p == [put EXCEPT !.waiting = @ \ {s}, !.failed = @ + 1]
    <2>1. /\ put' = p /\ put.state = "dispersing"
          /\ late' = late \cup {<<PutPlace(s), PutPiece>>}
          /\ UNCHANGED <<slot, get, shown, puts, left>>
      BY <1>5 DEF DisperseRaises, Waiting
    <2>2. /\ p \in Putter /\ p.object = put.object /\ p.content = put.content
          /\ p.chunk = put.chunk /\ p.state = put.state
      <3>1. put.failed + 1 \in Nat
        BY <1>0 DEF Putter
      <3> QED
        BY <1>0, <3>1 DEF Putter
    <2> HIDE DEF p
    <2>3. PutPlaced'
      BY <1>0, <2>1, <2>2 DEF PutPlaced
    <2>4. LatePlaced'
      BY <1>0, <2>1, PieceSent, PlacedStays DEF LatePlaced
    <2>5. spent' \in [Trouble -> Nat]
      BY <1>0, <1>5, SpendType DEF DisperseRaises, Trouble
    <2> QED
      BY <1>0, <1>1, <2>1, <2>2, <2>3, <2>4, <2>5, PutStep
  <1>6. CASE ChunkDispersed
    <2> DEFINE fail == [Idle EXCEPT !.state = "failed"]
               poll == [put EXCEPT !.state = "polling", !.waiting = Server, !.chunk = 0,
                                   !.failed = 0, !.harm = Harm]
               more == [put EXCEPT !.chunk = @ + 1, !.waiting = Server, !.failed = 0]
    <2>1. /\ put.state = "dispersing"
          /\ \/ put' = fail
             \/ put' = poll
             \/ put' = more /\ put.chunk + 1 # Chunks[put.content]
          /\ UNCHANGED <<slot, get, shown, late, puts, left, spent>>
      BY <1>6 DEF ChunkDispersed, history
    <2>2. /\ put.object \in Object /\ put.content \in Content
          /\ <<put.object, put.content>> \in puts
          /\ put.chunk \in 0..(Chunks[put.content] - 1)
          /\ Chunks[put.content] \in Nat \ {0}
      BY <1>0, <2>1, ChunksAssumption DEF PutPlaced
    <2>3. fail \in Putter /\ fail.state = "failed"
      BY DEF Idle, Putter
    <2>4. /\ poll \in Putter /\ poll.object = put.object /\ poll.content = put.content
          /\ poll.chunk = 0
      BY <1>0, HarmType DEF Putter
    <2>5. /\ more \in Putter /\ more.object = put.object /\ more.content = put.content
          /\ more.chunk = put.chunk + 1
      <3>1. put.chunk + 1 \in Nat
        BY <1>0 DEF Putter
      <3> QED
        BY <1>0, <3>1 DEF Putter
    <2> HIDE DEF fail, poll, more
    <2>6. put' \in Putter /\ PutPlaced'
      BY <2>1, <2>2, <2>3, <2>4, <2>5 DEF PutPlaced
    <2> QED
      BY <1>0, <1>1, <1>2, <2>1, <2>6, PutStep
  <1>7. ASSUME NEW s \in Server, Status(s) \/ StatusRaises(s) PROVE ObjectsInv'
    <2>1. /\ put' \in {[put EXCEPT !.waiting = @ \ {s}],
                       [put EXCEPT !.waiting = @ \ {s}, !.on = @ \cup {s}],
                       [put EXCEPT !.waiting = @ \ {s}, !.on = @]}
          /\ UNCHANGED <<slot, get, shown, late, puts, left>>
      BY <1>7 DEF Status, StatusRaises, history
    <2>2. /\ put' \in Putter /\ put'.object = put.object /\ put'.content = put.content
          /\ put'.chunk = put.chunk /\ put'.state = put.state
      <3>1. PICK waiting \in SUBSET Server, on \in SUBSET Server :
                put' = [put EXCEPT !.waiting = waiting, !.on = on]
        <4>1. put.waiting \in SUBSET Server /\ put.on \in SUBSET Server
          BY <1>0 DEF Putter
        <4>2. CASE put' = [put EXCEPT !.waiting = @ \ {s}]
          <5>1. put' = [put EXCEPT !.waiting = @ \ {s}, !.on = put.on]
            BY <1>0, <4>2 DEF Putter
          <5> QED
            BY <4>1, <5>1
        <4>3. CASE put' = [put EXCEPT !.waiting = @ \ {s}, !.on = @ \cup {s}]
          BY <4>1, <4>3
        <4>4. CASE put' = [put EXCEPT !.waiting = @ \ {s}, !.on = @]
          BY <4>1, <4>4
        <4> QED
          BY <2>1, <4>2, <4>3, <4>4
      <3> QED
        BY <1>0, <3>1 DEF Putter
    <2>3. PutPlaced'
      BY <1>0, <2>1, <2>2 DEF PutPlaced
    <2>4. spent' \in [Trouble -> Nat]
      BY <1>0, <1>7, SpendType DEF Status, StatusRaises, Trouble, history
    <2> QED
      BY <1>0, <1>1, <1>2, <2>1, <2>2, <2>3, <2>4, PutStep
  <1>8. CASE ShowStatus
    <2>1. /\ put' = Idle
          /\ shown' = [object |-> put.object, content |-> put.content,
                       on |-> put.on, harm |-> put.harm]
          /\ UNCHANGED <<slot, get, late, puts, left, spent>>
      BY <1>8 DEF ShowStatus, history
    <2>2. shown' \in Report
      BY <1>0, <2>1 DEF Putter, Report
    <2>3. PutPlaced'
      BY <2>1 DEF PutPlaced, Idle
    <2> QED
      BY <1>0, <1>1, <1>2, <2>1, <2>2, <2>3, IdleType, PutStep
  <1> QED
    BY <1>3, <1>4, <1>5, <1>6, <1>7, <1>8 DEF PutNext

-----------------------------------------------------------------------------
(* The client that gets                                                    *)

LEMMA GetStep ==
  ASSUME ObjectsInv, UNCHANGED <<slot, put, shown, late, puts, left>>,
         spent' \in [Trouble -> Nat], get' \in Getter, GetPlaced(get')
  PROVE  ObjectsInv'
  <1>1. ObjectsTypeOK'
    BY DEF ObjectsInv, ObjectsTypeOK
  <1>2. SlotsPlaced' /\ LatePlaced' /\ PutPlaced'
    BY DEF ObjectsInv, SlotsPlaced, EntryPlaced, LatePlaced, PutPlaced, Placed
  <1>3. GetPlaced(get)'
    BY DEF GetPlaced, Placed
  <1> QED
    BY <1>1, <1>2, <1>3 DEF ObjectsInv

(* What a server answers of a key is in place there.                       *)
LEMMA ServedPlaced ==
  ASSUME ObjectsInv, NEW key, NEW s \in Server
  PROVE  /\ Served(EntryAt(<<key, s>>)) \in Version \cup {Nothing}
         /\ Served(EntryAt(<<key, s>>)) \in Version => Placed(key, Served(EntryAt(<<key, s>>)))
  <1> DEFINE p == <<key, s>>
             entry == EntryAt(p)
  <1>1. entry \in Entry /\ EntryPlaced(p, entry)
    <2>1. CASE p \in Place
      BY <2>1 DEF EntryAt, ObjectsInv, ObjectsTypeOK, SlotsPlaced
    <2>2. CASE p \notin Place
      BY <2>2, IdleType, AnswerAssumption DEF EntryAt, EntryPlaced, Empty
    <2> QED
      BY <2>1, <2>2
  <1> HIDE DEF entry
  <1>2. Served(entry) \in {entry.held, entry.file, Nothing}
        /\ (Served(entry) = entry.held => entry.held # None \/ Served(entry) \notin Version)
    BY <1>1, AnswerAssumption DEF Served, Entry
  <1>3. Served(entry) \in Version \cup {Nothing}
    BY <1>1 DEF Served, Entry
  <1>4. Served(entry) \in Version => Placed(key, Served(entry))
    BY <1>1, <1>2, AnswerAssumption DEF EntryPlaced
  <1> QED
    BY <1>3, <1>4 DEF entry

(* A get that begins has no chunk and no answer.                           *)
LEMMA BeginPlaced ==
  ASSUME ObjectsInv, NEW g \in Getter, g.object \in Name,
         g.chunks = <<>>, g.replies = NoReplies
  PROVE  GetPlaced(g)
  <1>1. \A s \in Server : g.replies[s] \notin Version
    BY AnswerAssumption DEF NoReplies
  <1> QED
    BY <1>1 DEF GetPlaced

LEMMA GetOfType ==
  ASSUME ObjectsInv, NEW object \in Name
  PROVE  /\ GetOf(object) \in Getter /\ GetOf(object).object = object
         /\ GetOf(object).chunks = <<>> /\ GetOf(object).replies = NoReplies
  <1>1. IdleGet \in Getter /\ NoReport \in Report /\ shown \in Report
    BY IdleType DEF ObjectsInv, ObjectsTypeOK
  <1>2. IdleGet.chunks = <<>> /\ IdleGet.replies = NoReplies
    BY IdleType
  <1>3. (IF shown.object = object THEN shown ELSE NoReport) \in Report
    BY <1>1
  <1> HIDE DEF IdleGet
  <1> QED
    BY <1>1, <1>2, <1>3 DEF GetOf, Getter

LEMMA NextGet ==
  ASSUME ObjectsInv, GetNext
  PROVE  ObjectsInv'
  <1>0. /\ get \in Getter /\ GetPlaced(get) /\ spent \in [Trouble -> Nat]
        /\ puts \subseteq Object \X Content
    BY DEF ObjectsInv, ObjectsTypeOK
  <1>1. ASSUME NEW key \in Object \cup Key, GetBegin(key) PROVE ObjectsInv'
    <2> DEFINE b == GetOf(Stripped(key))
               g == [b EXCEPT !.state = "probing"]
    <2>1. get' = g /\ UNCHANGED <<slot, put, shown, late, puts, left, spent>>
      BY <1>1 DEF GetBegin, history
    <2>2. /\ b \in Getter /\ b.object \in Name
          /\ b.chunks = <<>> /\ b.replies = NoReplies
      BY StrippedIsName, GetOfType
    <2> HIDE DEF b
    <2>3. /\ g \in Getter /\ g.object \in Name
          /\ g.chunks = <<>> /\ g.replies = NoReplies
      BY <2>2 DEF Getter
    <2> QED
      BY <1>0, <2>1, <2>3, BeginPlaced, GetStep
  <1>2. ASSUME NEW key \in Object \cup Key, NEW k \in 0..MaxChunks, GetCounted(key, k)
        PROVE  ObjectsInv'
    <2> DEFINE b == GetOf(Stripped(key))
    <2>0. k \in Nat
      OBVIOUS
    <2>1. PICK state \in {"got", "retrieving"}, report \in {b.report, NoReport} :
              get' = [b EXCEPT !.state = state, !.count = k,
                               !.stored = {c \in @ : Chunks[c] = k}, !.report = report]
      BY <1>2 DEF GetCounted
    <2>2. UNCHANGED <<slot, put, shown, late, puts, left, spent>>
      BY <1>2 DEF GetCounted, history
    <2>3. /\ b \in Getter /\ b.object \in Name
          /\ b.chunks = <<>> /\ b.replies = NoReplies
      BY StrippedIsName, GetOfType
    <2> HIDE DEF b
    <2>4. /\ get' \in Getter /\ get'.object \in Name
          /\ get'.chunks = <<>> /\ get'.replies = NoReplies
      BY <2>0, <2>1, <2>3, IdleType DEF Getter
    <2> QED
      BY <1>0, <2>2, <2>4, BeginPlaced, GetStep
  <1>3. ASSUME NEW s \in Server, NEW v \in Version \cup {Nothing},
               v \in Version => Placed(Asked, v), Asking(s),
               get' = [get EXCEPT !.replies[s] = v],
               UNCHANGED <<slot, put, shown, late, puts, left>>, spent' \in [Trouble -> Nat]
        PROVE  ObjectsInv'
    <2>1. /\ get.replies \in [Server -> Version \cup {Pending, Nothing}]
          /\ get' = [get EXCEPT !.replies = [get.replies EXCEPT ![s] = v]]
      BY <1>0, <1>3 DEF Getter
    <2> DEFINE replies == [get.replies EXCEPT ![s] = v]
    <2>2. /\ replies \in [Server -> Version \cup {Pending, Nothing}]
          /\ \A t \in Server : (replies[t] = v /\ t = s) \/ replies[t] = get.replies[t]
      BY <2>1
    <2> HIDE DEF replies
    <2>3. /\ get' \in Getter /\ get'.replies = replies
          /\ get'.object = get.object /\ get'.state = get.state
          /\ get'.count = get.count /\ get'.chunks = get.chunks
      BY <1>0, <2>1, <2>2 DEF Getter, replies
    <2>4. GetPlaced(get')
      BY <1>0, <1>3, <2>2, <2>3 DEF GetPlaced, Asked
    <2> QED
      BY <1>3, <2>3, <2>4, GetStep
  <1>4. ASSUME NEW s \in Server, Reply(s) PROVE ObjectsInv'
    <2>1. /\ Asking(s) /\ get' = [get EXCEPT !.replies[s] = Served(EntryAt(<<Asked, s>>))]
          /\ UNCHANGED <<slot, put, shown, late, puts, left, spent>>
      BY <1>4 DEF Reply, history
    <2> QED
      BY <1>0, <1>3, <2>1, ServedPlaced
  <1>5. ASSUME NEW s \in Server, ReplyRaises(s) PROVE ObjectsInv'
    <2>1. /\ Asking(s) /\ get' = [get EXCEPT !.replies[s] = Nothing]
          /\ UNCHANGED <<slot, put, shown, late, puts, left>>
          /\ spent' \in [Trouble -> Nat]
      BY <1>0, <1>5, SpendType DEF ReplyRaises, Trouble
    <2>2. Nothing \notin Version
      BY AnswerAssumption
    <2> QED
      BY <1>3, <2>1, <2>2
  <1>6. CASE Probed
    <2>1. /\ get.state = "probing"
          /\ \/ get' = [get EXCEPT !.count = @ + 1, !.replies = NoReplies]
             \/ get' = [get EXCEPT !.state = "failed"]
             \/ get' = [get EXCEPT !.state = "retrieving", !.replies = NoReplies]
          /\ UNCHANGED <<slot, put, shown, late, puts, left, spent>>
      BY <1>6 DEF Probed, history
    <2>2. /\ get' \in Getter /\ get'.object = get.object /\ get'.chunks = get.chunks
          /\ get'.replies = NoReplies \/ get'.state = "failed"
      <3>1. get.count + 1 \in Nat
        BY <1>0 DEF Getter
      <3> QED
        BY <1>0, <2>1, <3>1, IdleType DEF Getter
    <2>3. \A s \in Server : NoReplies[s] \notin Version
      BY AnswerAssumption DEF NoReplies
    <2>4. GetPlaced(get')
      BY <1>0, <2>1, <2>2, <2>3 DEF GetPlaced
    <2> QED
      BY <1>0, <2>1, <2>2, <2>4, GetStep
  <1>7. CASE Retrieved
    <2>1. PICK v \in Version, state \in {"got", "retrieving"} :
            /\ get.state = "retrieving" /\ Decoded(v)
            /\ get' = [get EXCEPT !.chunks = Append(@, v), !.replies = NoReplies,
                                  !.state = state]
      BY <1>7 DEF Retrieved
    <2>2. UNCHANGED <<slot, put, shown, late, puts, left, spent>>
      BY <1>7 DEF Retrieved, history
    <2>3. PICK s \in Server : get.replies[s] = v
      <3>1. Cardinality(Votes[v]) >= M /\ M > 0 /\ M \in Nat
        BY <2>1, ServerAssumption DEF Decoded, N
      <3>2. Votes[v] # {}
        BY <3>1, FS_EmptySet
      <3> QED
        BY <3>2 DEF Votes
    <2>4. Placed(chunk_key(get.object, Len(get.chunks)), v) /\ get.object \in Name
      BY <1>0, <2>1, <2>3 DEF GetPlaced
    <2>5. get.chunks \in Seq(Version) /\ Len(get.chunks) \in Nat
      BY <1>0 DEF Getter
    <2>6. \E c \in Content : <<get.object, c>> \in puts /\ v = Piece(c, Len(get.chunks))
      <3>1. PICK object \in Object, c \in Content : \E i \in Nat :
              /\ <<object, c>> \in puts
              /\ chunk_key(get.object, Len(get.chunks)) = chunk_key(object, i)
              /\ v = Piece(c, i)
        BY <2>4 DEF Placed
      <3>2. object \in Name
        BY ObjectAssumption
      <3> QED
        BY <2>4, <2>5, <3>1, <3>2, KeyIsUnique
    <2> DEFINE chunks == Append(get.chunks, v)
    <2>7. /\ chunks \in Seq(Version) /\ DOMAIN chunks = 1..(Len(get.chunks) + 1)
          /\ \A j \in 1..Len(get.chunks) : chunks[j] = get.chunks[j]
          /\ chunks[Len(get.chunks) + 1] = v
          /\ DOMAIN get.chunks = 1..Len(get.chunks)
      BY <2>5
    <2>8. /\ get' \in Getter /\ get'.object = get.object /\ get'.chunks = chunks
          /\ get'.replies = NoReplies
      BY <1>0, <2>1, <2>7, IdleType DEF Getter
    <2> HIDE DEF chunks
    <2>9. \A j \in DOMAIN chunks : \E c \in Content :
              <<get.object, c>> \in puts /\ chunks[j] = Piece(c, j - 1)
      <3> SUFFICES ASSUME NEW j \in DOMAIN chunks
                   PROVE  \E c \in Content : <<get.object, c>> \in puts /\ chunks[j] = Piece(c, j - 1)
        OBVIOUS
      <3>1. CASE j = Len(get.chunks) + 1
        <4>1. j - 1 = Len(get.chunks)
          BY <2>5, <3>1
        <4> QED
          BY <2>6, <2>7, <3>1, <4>1
      <3>2. CASE j \in 1..Len(get.chunks)
        BY <1>0, <2>7, <3>2 DEF GetPlaced
      <3> QED
        BY <2>5, <2>7, <3>1, <3>2
    <2>10. GetPlaced(get')
      <3>1. \A t \in Server : NoReplies[t] \notin Version
        BY AnswerAssumption DEF NoReplies
      <3> QED
        BY <2>4, <2>8, <2>9, <3>1 DEF GetPlaced
    <2> QED
      BY <1>0, <2>2, <2>8, <2>10, GetStep
  <1>8. CASE RetrieveFails
    <2>1. /\ get' = [get EXCEPT !.state = "failed", !.replies = NoReplies]
          /\ UNCHANGED <<slot, put, shown, late, puts, left, spent>>
      BY <1>8 DEF RetrieveFails, history
    <2>2. /\ get' \in Getter /\ get'.object = get.object /\ get'.chunks = get.chunks
          /\ get'.state = "failed"
      BY <1>0, <2>1, IdleType DEF Getter
    <2>3. GetPlaced(get')
      BY <1>0, <2>2 DEF GetPlaced
    <2> QED
      BY <1>0, <2>1, <2>2, <2>3, GetStep
  <1> QED
    BY <1>1, <1>2, <1>4, <1>5, <1>6, <1>7, <1>8 DEF GetNext

LEMMA NextObjectsInv == ObjectsInv /\ [ObjectsNext]_objVars => ObjectsInv'
  <1>1. ObjectsInv /\ UNCHANGED objVars => ObjectsInv'
    <2> SUFFICES ASSUME ObjectsInv, UNCHANGED objVars PROVE ObjectsInv'
      OBVIOUS
    <2>1. /\ UNCHANGED <<slot, put, get, shown, late, puts, left, spent>>
          /\ slot \in [Place -> Entry] /\ spent \in [Trouble -> Nat]
          /\ \A q \in Place : EntryPlaced(q, slot[q])
      BY DEF objVars, history, ObjectsInv, ObjectsTypeOK, SlotsPlaced
    <2> QED
      BY <2>1, SlotsStay, ServersStep
  <1> QED
    BY <1>1, NextServers, NextPut, NextGet DEF ObjectsNext

(* No chunk is ever returned in another's place: however puts, gets, late    *)
(* calls, crashes and resets are interleaved, chunk i of what a get returns  *)
(* is chunk i of a content that was put under that very name.                *)
THEOREM ChunksInPlaceCorrect == ObjectsSpec => []ChunksInPlace
  <1>1. ObjectsInv => ChunksInPlace
    BY DEF ObjectsInv, GetPlaced, ChunksInPlace
  <1> QED
    BY <1>1, InitObjectsInv, NextObjectsInv, PTL DEF ObjectsSpec

-----------------------------------------------------------------------------
(***************************************************************************)
(* A get returns what was stored. Both theorems follow some servers that had*)
(* no trouble, whose files are the pieces of one content, through the steps*)
(* of the get.                                                             *)
(***************************************************************************)

-----------------------------------------------------------------------------
(* What the steps do to entries                                            *)

StoredIsHeld ==
    \A p \in Place : slot[p].stored => slot[p].held # None /\ slot[p].file = slot[p].held

HeldInv == ObjectsInv /\ StoredIsHeld

(* What an entry may become without trouble: it is held anew, or commits.  *)
Onward(e, f) ==
    \/ f = e
    \/ ~e.stored /\ ~f.stored /\ f.file = e.file
    \/ ~e.stored /\ f.stored /\ e.held # None /\ f.held = e.held /\ f.file = e.held

Calm ==
    /\ Troubles' >= Troubles /\ Harm' >= Harm
    /\ \A p \in Place : Onward(slot[p], slot'[p])

(* Trouble at s. Nothing is stored by it, and it harms a file or does not. *)
Hurt(s) ==
    /\ Troubles' = Troubles + 1 /\ Harm' \in {Harm, Harm + 1}
    /\ \A p \in Place :
        /\ p[2] # s => slot'[p] = slot[p]
        /\ slot'[p].stored => slot'[p] = slot[p]
        /\ Harm' = Harm => slot'[p].file = slot[p].file

LEMMA SpendCounts ==
  ASSUME spent \in [Trouble -> Nat], NEW kind \in Trouble, Spend(kind)
  PROVE  /\ Troubles' = Troubles + 1 /\ Harm' \in {Harm, Harm + 1}
         /\ kind # "crash" => Harm' = Harm + 1
  BY DEF Spend, Troubles, Harm, Trouble

LEMMA TroublesType ==
  ASSUME spent \in [Trouble -> Nat]
  PROVE  Troubles \in Nat /\ Harm \in Nat
  BY DEF Troubles, Harm, Trouble

LEMMA TroublesNext ==
  ASSUME spent' \in [Trouble -> Nat]
  PROVE  Troubles' \in Nat /\ Harm' \in Nat
  BY DEF Troubles, Harm, Trouble

LEMMA TroublesStay ==
  ASSUME spent \in [Trouble -> Nat], UNCHANGED spent
  PROVE  Troubles' = Troubles /\ Harm' = Harm
  BY DEF Troubles, Harm

LEMMA Unspent ==
  ASSUME spent \in [Trouble -> Nat], UNCHANGED spent,
         \A p \in Place : Onward(slot[p], slot'[p])
  PROVE  Calm
  <1>1. Troubles' = Troubles /\ Harm' = Harm /\ Troubles \in Nat /\ Harm \in Nat
    BY TroublesType, TroublesStay
  <1>2. Troubles' >= Troubles /\ Harm' >= Harm
    BY <1>1
  <1> QED
    BY <1>2 DEF Calm

LEMMA HandledOnward ==
  ASSUME slot \in [Place -> Entry], NEW p, NEW v, Handled(p, v), NEW q \in Place
  PROVE  Onward(slot[q], slot'[q])
  <1>1. CASE Hold(p, v)
    <2>1. ~slot[p].stored
          /\ slot' = [slot EXCEPT ![p] = [held |-> v, stored |-> FALSE, file |-> slot[p].file]]
      BY <1>1 DEF Hold, Becomes
    <2> QED
      BY <2>1 DEF Onward
  <1>2. CASE UNCHANGED slot
    BY <1>2 DEF Onward
  <1> QED
    BY <1>1, <1>2 DEF Handled

LEMMA ServersChange ==
  ASSUME ObjectsInv, ServersNext
  PROVE  /\ UNCHANGED <<put, get, shown, puts>>
         /\ Calm \/ \E s \in Server : Hurt(s)
  <1>0. slot \in [Place -> Entry] /\ spent \in [Trouble -> Nat]
    BY DEF ObjectsInv, ObjectsTypeOK
  <1>1. ASSUME NEW p \in Place, Store(p)
        PROVE  UNCHANGED <<put, get, shown, puts>> /\ Calm
    <2>1. /\ ~slot[p].stored /\ slot[p].held # None
          /\ slot' = [slot EXCEPT ![p] = [held |-> slot[p].held, stored |-> TRUE,
                                          file |-> slot[p].held]]
          /\ UNCHANGED <<put, get, shown, puts, spent>>
      BY <1>1 DEF Store, Commit, Becomes, history
    <2>2. \A q \in Place : Onward(slot[q], slot'[q])
      BY <1>0, <2>1 DEF Onward
    <2> QED
      BY <1>0, <2>1, <2>2, Unspent
  <1>2. ASSUME NEW call \in late, HandleLate(call[1], call[2])
        PROVE  UNCHANGED <<put, get, shown, puts>> /\ Calm
    <2>1. Handled(call[1], call[2]) /\ UNCHANGED <<put, get, shown, puts, spent>>
      BY <1>2 DEF HandleLate, history
    <2>2. \A q \in Place : Onward(slot[q], slot'[q])
      BY <1>0, <2>1, HandledOnward
    <2> QED
      BY <1>0, <2>1, <2>2, Unspent
  <1>3. ASSUME NEW s \in Server, NEW p \in Place
        PROVE  /\ p[2] # s => Forgotten(s)[p] = slot[p]
               /\ p[2] = s => ~Forgotten(s)[p].stored
               /\ Forgotten(s)[p].file = slot[p].file
    <2>1. slot[p] \in Entry
      BY <1>0
    <2> QED
      BY <2>1 DEF Forgotten, Entry
  <1>4. ASSUME NEW s \in Server, Crash(s)
        PROVE  UNCHANGED <<put, get, shown, puts>> /\ Hurt(s)
    <2>1. /\ slot' = Forgotten(s) /\ UNCHANGED <<put, get, shown, puts>>
          /\ Troubles' = Troubles + 1 /\ Harm' \in {Harm, Harm + 1}
      BY <1>0, <1>4, SpendCounts DEF Crash, Trouble
    <2> QED
      BY <1>3, <2>1 DEF Hurt
  <1>5. ASSUME NEW p \in Place, CrashInStore(p)
        PROVE  UNCHANGED <<put, get, shown, puts>> /\ Hurt(p[2])
    <2> DEFINE before == Forgotten(p[2])
    <2>0. p[2] \in Server
      BY SlotAssumption
    <2>1. /\ slot' = [before EXCEPT ![p].file = Torn] /\ UNCHANGED <<put, get, shown, puts>>
          /\ Troubles' = Troubles + 1 /\ Harm' = Harm + 1
      BY <1>0, <1>5, SpendCounts DEF CrashInStore, Trouble
    <2>2. Harm \in Nat
      BY <1>0, TroublesType
    <2>3. before \in [Place -> Entry]
      BY <2>0, ForgottenPlaced
    <2>4. \A q \in Place : /\ q[2] # p[2] => before[q] = slot[q]
                           /\ before[q].stored => before[q] = slot[q]
                           /\ q[2] = p[2] => ~before[q].stored
      BY <1>3, <2>0
    <2> HIDE DEF before
    <2>5. \A q \in Place : /\ q # p => slot'[q] = before[q]
                           /\ slot'[q].stored = before[q].stored
      <3> SUFFICES ASSUME NEW q \in Place
                   PROVE  /\ q # p => slot'[q] = before[q]
                          /\ slot'[q].stored = before[q].stored
        OBVIOUS
      <3>1. before[q] \in Entry
        BY <2>3
      <3> QED
        BY <2>1, <2>3, <3>1 DEF Entry
    <2>6. \A q \in Place : /\ q[2] # p[2] => slot'[q] = slot[q]
                           /\ slot'[q].stored => slot'[q] = slot[q]
      BY <2>4, <2>5
    <2> QED
      BY <2>1, <2>2, <2>6 DEF Hurt
  <1>6. ASSUME NEW key \in Object \cup Key, NEW s \in Server, Reset(key, s)
        PROVE  UNCHANGED <<put, get, shown, puts>> /\ Hurt(s)
    <2> DEFINE p == <<_build_key(key), s>>
    <2>1. /\ slot' = [slot EXCEPT ![p] = [held |-> None, stored |-> FALSE, file |-> None]]
          /\ UNCHANGED <<put, get, shown, puts>>
          /\ Troubles' = Troubles + 1 /\ Harm' = Harm + 1
      BY <1>0, <1>6, SpendCounts DEF Reset, Wipe, Becomes, Trouble
    <2>2. Harm \in Nat /\ p[2] = s
      BY <1>0, TroublesType
    <2> HIDE DEF p
    <2>3. \A q \in Place : /\ q[2] # s => slot'[q] = slot[q]
                           /\ slot'[q].stored => slot'[q] = slot[q]
      BY <1>0, <2>1, <2>2
    <2> QED
      BY <2>1, <2>2, <2>3 DEF Hurt
  <1>7. \A p \in Place : p[2] \in Server
    BY SlotAssumption
  <1> QED
    BY <1>1, <1>2, <1>4, <1>5, <1>6, <1>7 DEF ServersNext

LEMMA PutChange ==
  ASSUME ObjectsInv, PutNext
  PROVE  get' = get /\ puts \subseteq puts' /\ Calm
  <1>0. slot \in [Place -> Entry] /\ spent \in [Trouble -> Nat]
    BY DEF ObjectsInv, ObjectsTypeOK
  <1>1. get' = get /\ puts \subseteq puts'
    BY DEF PutNext, PutBegin, Disperse, DisperseRaises, ChunkDispersed, Status, StatusRaises,
           ShowStatus, history
  <1>2. Troubles' >= Troubles /\ Harm' >= Harm
    <2>1. CASE UNCHANGED spent
      BY <1>0, <2>1, TroublesType, TroublesStay
    <2>2. CASE Spend("raise")
      BY <1>0, <2>2, TroublesType, SpendCounts DEF Trouble
    <2> QED
      BY <2>1, <2>2 DEF PutNext, PutBegin, Disperse, DisperseRaises, ChunkDispersed, Status,
           StatusRaises, ShowStatus, history
  <1>3. \A q \in Place : Onward(slot[q], slot'[q])
    <2>1. CASE UNCHANGED slot
      BY <2>1 DEF Onward
    <2>2. CASE \E s \in Server : Disperse(s)
      BY <1>0, <2>2, HandledOnward DEF Disperse
    <2> QED
      BY <2>1, <2>2 DEF PutNext, PutBegin, DisperseRaises, ChunkDispersed, Status,
           StatusRaises, ShowStatus
  <1> QED
    BY <1>1, <1>2, <1>3 DEF Calm

LEMMA GetChange ==
  ASSUME ObjectsInv, GetNext
  PROVE  UNCHANGED <<slot, put, shown, puts>> /\ Troubles' >= Troubles /\ Harm' >= Harm
  <1>0. spent \in [Trouble -> Nat]
    BY DEF ObjectsInv, ObjectsTypeOK
  <1>1. UNCHANGED <<slot, put, shown, puts>>
    BY DEF GetNext, GetBegin, GetCounted, Reply, ReplyRaises, Probed, Retrieved, RetrieveFails,
           history
  <1>2. CASE UNCHANGED spent
    BY <1>0, <1>1, <1>2, TroublesType, TroublesStay
  <1>3. CASE Spend("raise")
    BY <1>0, <1>1, <1>3, TroublesType, SpendCounts DEF Trouble
  <1> QED
    BY <1>2, <1>3 DEF GetNext, GetBegin, GetCounted, Reply, ReplyRaises, Probed, Retrieved,
         RetrieveFails, history

LEMMA NextHeldInv == HeldInv /\ [ObjectsNext]_objVars => HeldInv'
  <1> SUFFICES ASSUME HeldInv, [ObjectsNext]_objVars PROVE HeldInv'
    OBVIOUS
  <1>1. ObjectsInv'
    BY NextObjectsInv DEF HeldInv
  <1>2. StoredIsHeld'
    <2>1. CASE UNCHANGED slot
      BY <2>1 DEF HeldInv, StoredIsHeld
    <2>2. CASE Calm
      BY <2>2 DEF HeldInv, StoredIsHeld, Calm, Onward
    <2>3. ASSUME NEW s \in Server, Hurt(s) PROVE StoredIsHeld'
      BY <2>3 DEF HeldInv, StoredIsHeld, Hurt
    <2>4. UNCHANGED objVars => UNCHANGED slot
      BY DEF objVars
    <2> QED
      BY <2>1, <2>2, <2>3, <2>4, ServersChange, PutChange, GetChange DEF HeldInv, ObjectsNext
  <1> QED
    BY <1>1, <1>2 DEF HeldInv

LEMMA InitHeldInv == ObjectsInit => HeldInv
  BY InitObjectsInv DEF HeldInv, StoredIsHeld, ObjectsInit, Init, Empty

-----------------------------------------------------------------------------
(* A get that good servers answer                                          *)

(* Enough good servers have on disk the pieces of c under that name.       *)
Files(object, c, good) ==
    \A i \in 0..(Chunks[c] - 1), s \in good :
        EntryAt(<<chunk_key(object, i), s>>).file = Piece(c, i)

(* The get is on its way to the whole of c.                                *)
Track(g, c, good) ==
    /\ g.state \in {"probing", "retrieving", "got"}
    /\ g.state = "probing" =>
        /\ g.count <= Chunks[c] /\ g.chunks = <<>>
        /\ g.count < Chunks[c] => \A s \in good : g.replies[s] \in {Pending, Piece(c, g.count)}
    /\ g.state = "retrieving" =>
        /\ g.count = Chunks[c] /\ Len(g.chunks) < Chunks[c]
        /\ \A s \in good : g.replies[s] \in {Pending, Piece(c, Len(g.chunks))}
    /\ g.state = "got" => Len(g.chunks) = Chunks[c]
    /\ \A j \in DOMAIN g.chunks : g.chunks[j] = Piece(c, j - 1)

(* Nothing longer was put under the name.                                  *)
Longest(object, c) == \A p \in puts : p[1] = object => Chunks[p[2]] <= Chunks[c]

(* Fewer servers answered with anything else.                              *)
Outvoted(c, good) ==
    \A v \in Version : v # Piece(c, Len(get.chunks)) =>
        Cardinality({s \in Server : get.replies[s] = v}) < Cardinality(good)

LEMMA NeededType ==
  /\ N \in Nat /\ M \in Nat \ {0} /\ ClientF \in Nat
  /\ Needed \in Nat /\ Needed >= M /\ Needed >= ClientF + 1
  <1>1. N \in Nat /\ M \in 1..N
    BY ServerAssumption, FS_CardinalityType DEF N
  <1>2. ClientF \in Nat
    BY <1>1 DEF ClientF
  <1> QED
    BY <1>1, <1>2 DEF Needed

LEMMA LongestExists == MaxChunks \in Nat /\ \A c \in Content : Chunks[c] <= MaxChunks
  <1>1. PICK c \in Content : \A d \in Content : Chunks[d] <= Chunks[c]
    BY ChunksAssumption
  <1>2. \E k \in {Chunks[d] : d \in Content} : \A d \in Content : Chunks[d] <= k
    BY <1>1
  <1>3. /\ MaxChunks \in {Chunks[d] : d \in Content}
        /\ \A d \in Content : Chunks[d] <= MaxChunks
    BY <1>2 DEF MaxChunks
  <1> QED
    BY <1>3, ChunksAssumption

LEMMA PieceIsVersion ==
  ASSUME NEW c \in Content, NEW i \in Nat
  PROVE  Piece(c, i) \in Version <=> i < Chunks[c]
  <1>1. Chunks[c] \in Nat \ {0}
    BY ChunksAssumption
  <1>2. ASSUME i < Chunks[c] PROVE Piece(c, i) \in Version
    BY <1>1, <1>2, SlotAssumption
  <1>3. ASSUME Piece(c, i) \in Version PROVE i < Chunks[c]
    <2>1. PICK d \in Content : \E j \in 0..(Chunks[d] - 1) : Piece(c, i) = Piece(d, j)
      BY <1>3, SlotAssumption
    <2>2. PICK j \in 0..(Chunks[d] - 1) : Piece(c, i) = Piece(d, j)
      BY <2>1
    <2>3. d = c /\ j = i
      BY <2>2 DEF Piece
    <2> QED
      BY <1>1, <2>3
  <1> QED
    BY <1>2, <1>3

LEMMA TrackShrinks ==
  ASSUME NEW g, NEW c, NEW good, NEW fewer \in SUBSET good, Track(g, c, good)
  PROVE  Track(g, c, fewer)
  BY DEF Track

LEMMA TrackBegin ==
  ASSUME NEW g \in Getter, NEW c \in Content, NEW good \in SUBSET Server,
         g.chunks = <<>>, g.replies = NoReplies,
         \/ g.state = "probing" /\ g.count = 0
         \/ g.state = "retrieving" /\ g.count = Chunks[c]
  PROVE  Track(g, c, good)
  <1>1. Chunks[c] \in Nat \ {0} /\ \A s \in good : g.replies[s] = Pending
    BY ChunksAssumption DEF NoReplies
  <1>2. Len(g.chunks) = 0 /\ DOMAIN g.chunks = {}
    OBVIOUS
  <1> QED
    BY <1>1, <1>2 DEF Track

(* A server that has the piece on disk answers with it.                    *)
LEMMA ServedIsFile ==
  ASSUME HeldInv, NEW p, EntryAt(p).file \in Version
  PROVE  Served(EntryAt(p)) = EntryAt(p).file
  <1>1. p \in Place
    BY AnswerAssumption DEF EntryAt, Empty
  <1> QED
    BY <1>1 DEF HeldInv, StoredIsHeld, EntryAt, Served

LEMMA TrackReply ==
  ASSUME HeldInv, NEW c \in Content, NEW good \in SUBSET Server,
         Track(get, c, good), Files(get.object, c, good), NEW s \in Server, Reply(s)
  PROVE  Track(get', c, good)
  <1> DEFINE v == Served(EntryAt(<<Asked, s>>))
             replies == [get.replies EXCEPT ![s] = v]
  <1>0. get \in Getter /\ Chunks[c] \in Nat \ {0}
    BY ChunksAssumption DEF HeldInv, ObjectsInv, ObjectsTypeOK
  <1>1. /\ get.replies \in [Server -> Version \cup {Pending, Nothing}]
        /\ get.count \in Nat /\ Len(get.chunks) \in Nat
    BY <1>0 DEF Getter
  <1>2. Asking(s) /\ get' = [get EXCEPT !.replies = replies]
    BY <1>0 DEF Reply, Getter
  <1>3. ASSUME NEW i \in Nat, i < Chunks[c], Asked = chunk_key(get.object, i), s \in good
        PROVE  v = Piece(c, i)
    <2>1. EntryAt(<<Asked, s>>).file = Piece(c, i)
      BY <1>0, <1>3 DEF Files
    <2> QED
      BY <1>3, <2>1, PieceIsVersion, ServedIsFile
  <1>4. \A t \in Server : replies[t] = IF t = s THEN v ELSE get.replies[t]
    BY <1>1
  <1> HIDE DEF v, replies
  <1>5. /\ get'.state = get.state /\ get'.count = get.count /\ get'.chunks = get.chunks
        /\ get'.replies = replies
    BY <1>0, <1>2 DEF Getter
  <1>6. CASE get.state = "probing" /\ get.count < Chunks[c]
    <2>1. s \in good => v = Piece(c, get.count)
      BY <1>1, <1>3, <1>6 DEF Asked
    <2> QED
      BY <1>4, <1>5, <1>6, <2>1 DEF Track
  <1>7. CASE get.state = "probing" /\ ~(get.count < Chunks[c])
    BY <1>5, <1>7 DEF Track
  <1>8. CASE get.state = "retrieving"
    <2>1. Len(get.chunks) < Chunks[c]
      BY <1>8 DEF Track
    <2>2. s \in good => v = Piece(c, Len(get.chunks))
      BY <1>1, <1>3, <1>8, <2>1 DEF Asked
    <2> QED
      BY <1>4, <1>5, <1>8, <2>2 DEF Track
  <1> QED
    BY <1>2, <1>6, <1>7, <1>8 DEF Asking

LEMMA TrackRaises ==
  ASSUME HeldInv, NEW c \in Content, NEW good \in SUBSET Server,
         Track(get, c, good), NEW s \in Server, ReplyRaises(s)
  PROVE  Track(get', c, good \ {s})
  <1> DEFINE replies == [get.replies EXCEPT ![s] = Nothing]
  <1>1. get \in Getter /\ get.replies \in [Server -> Version \cup {Pending, Nothing}]
    BY DEF HeldInv, ObjectsInv, ObjectsTypeOK, Getter
  <1>2. get' = [get EXCEPT !.replies = replies]
    BY <1>1 DEF ReplyRaises, Getter
  <1>3. \A t \in good \ {s} : replies[t] = get.replies[t]
    BY <1>1
  <1> HIDE DEF replies
  <1>4. /\ get'.state = get.state /\ get'.count = get.count /\ get'.chunks = get.chunks
        /\ get'.replies = replies
    BY <1>1, <1>2 DEF Getter
  <1> QED
    BY <1>3, <1>4 DEF Track

(* Nobody answers with a chunk after the last.                             *)
LEMMA NoneAfterLast ==
  ASSUME HeldInv, NEW c \in Content, Longest(get.object, c),
         get.state = "probing", get.count = Chunks[c], NEW s \in Server
  PROVE  get.replies[s] \notin Version
  <1> SUFFICES ASSUME get.replies[s] \in Version PROVE FALSE
    OBVIOUS
  <1>1. /\ get.object \in Name /\ get.count \in Nat
        /\ Placed(chunk_key(get.object, get.count), get.replies[s])
    BY DEF HeldInv, ObjectsInv, ObjectsTypeOK, GetPlaced, Getter
  <1>2. PICK object \in Object, d \in Content : \E i \in Nat :
          /\ <<object, d>> \in puts
          /\ chunk_key(get.object, get.count) = chunk_key(object, i)
          /\ get.replies[s] = Piece(d, i)
    BY <1>1 DEF Placed
  <1>3. object = get.object /\ get.replies[s] = Piece(d, get.count)
    BY <1>1, <1>2, ObjectAssumption, KeyIsUnique
  <1>4. get.count < Chunks[d] /\ Chunks[d] <= Chunks[c]
    BY <1>1, <1>2, <1>3, PieceIsVersion DEF Longest
  <1> QED
    BY <1>1, <1>4, ChunksAssumption

LEMMA TrackProbed ==
  ASSUME HeldInv, NEW c \in Content, NEW good \in SUBSET Server, good # {},
         Track(get, c, good), Longest(get.object, c), Probed
  PROVE  Track(get', c, good)
  <1>0. get \in Getter /\ Chunks[c] \in Nat \ {0}
    BY ChunksAssumption DEF HeldInv, ObjectsInv, ObjectsTypeOK
  <1>1. /\ get.replies \in [Server -> Version \cup {Pending, Nothing}]
        /\ get.count \in Nat
    BY <1>0 DEF Getter
  <1>2. /\ get.state = "probing" /\ get.count <= Chunks[c] /\ get.chunks = <<>>
        /\ \A s \in Server : get.replies[s] # Pending
    BY DEF Probed, Answered, Track
  <1>3. CASE get.count < Chunks[c]
    <2>1. PICK s \in good : get.replies[s] = Piece(c, get.count)
      BY <1>2, <1>3 DEF Track
    <2>2. get.replies[s] \in Version
      BY <1>1, <1>3, <2>1, PieceIsVersion
    <2>3. Found
      BY <2>2, AnswerAssumption DEF Found
    <2>4. get' = [get EXCEPT !.count = @ + 1, !.replies = NoReplies]
      BY <2>3 DEF Probed
    <2>5. /\ get'.state = "probing" /\ get'.count = get.count + 1 /\ get'.chunks = <<>>
          /\ get'.replies = NoReplies
      BY <1>0, <1>2, <2>4 DEF Getter
    <2> QED
      BY <1>0, <1>1, <1>3, <2>5 DEF Track, NoReplies
  <1>4. CASE get.count = Chunks[c]
    <2>1. \A s \in Server : get.replies[s] \notin Version
      BY <1>2, <1>4, NoneAfterLast
    <2>2. ~Found
      BY <1>1, <1>2, <2>1 DEF Found
    <2>3. get' = [get EXCEPT !.state = "retrieving", !.replies = NoReplies]
      BY <1>0, <1>4, <2>2 DEF Probed
    <2>4. /\ get'.state = "retrieving" /\ get'.count = Chunks[c] /\ get'.chunks = <<>>
          /\ get'.replies = NoReplies
      BY <1>0, <1>2, <1>4, <2>3 DEF Getter
    <2>5. get' \in Getter
      BY <1>0, <2>3, IdleType DEF Getter
    <2> QED
      BY <2>4, <2>5, TrackBegin
  <1> QED
    BY <1>0, <1>1, <1>2, <1>3, <1>4

(* What is asked for wins the vote, alone, and can be decoded.             *)
LEMMA PieceWins ==
  ASSUME HeldInv, NEW c \in Content, NEW good \in SUBSET Server,
         Cardinality(good) >= Needed, Outvoted(c, good),
         Track(get, c, good), get.state = "retrieving", Answered
  PROVE  /\ Piece(c, Len(get.chunks)) \in Version /\ Decoded(Piece(c, Len(get.chunks)))
         /\ \A v \in Version : Elected(Votes, v) => v = Piece(c, Len(get.chunks))
  <1> DEFINE w == Piece(c, Len(get.chunks))
  <1>1. Len(get.chunks) \in Nat /\ Len(get.chunks) < Chunks[c]
    BY DEF HeldInv, ObjectsInv, ObjectsTypeOK, Getter, Track
  <1>2. w \in Version
    BY <1>1, PieceIsVersion
  <1>3. /\ DOMAIN Votes = Version
        /\ \A v \in Version : Votes[v] = {s \in Server : get.replies[s] = v}
    BY DEF Votes
  <1>4. \A v \in Version : IsFiniteSet(Votes[v]) /\ Cardinality(Votes[v]) \in Nat
    BY <1>3, ServerAssumption, FS_Subset, FS_CardinalityType
  <1>5. good \subseteq Votes[w]
    BY <1>2, <1>3 DEF Track, Answered
  <1>6. Cardinality(good) <= Cardinality(Votes[w]) /\ Cardinality(good) \in Nat
    <2>1. IsFiniteSet(good)
      BY ServerAssumption, FS_Subset
    <2> QED
      BY <1>2, <1>4, <1>5, <2>1, FS_Subset, FS_CardinalityType
  <1>7. \A v \in Version : v # w => Cardinality(Votes[v]) < Cardinality(good)
    BY <1>3 DEF Outvoted
  <1> HIDE DEF w
  <1>8. \A v \in Version : Cardinality(Votes[v]) <= Cardinality(Votes[w])
    <2> SUFFICES ASSUME NEW v \in Version PROVE Cardinality(Votes[v]) <= Cardinality(Votes[w])
      OBVIOUS
    <2>1. Cardinality(Votes[v]) \in Nat /\ Cardinality(Votes[w]) \in Nat
      BY <1>2, <1>4
    <2> QED
      BY <1>6, <1>7, <2>1
  <1>9. Cardinality(Votes[w]) >= ClientF + 1 /\ Cardinality(Votes[w]) >= M
    BY <1>2, <1>4, <1>6, NeededType
  <1>10. Decoded(w)
    BY <1>3, <1>8, <1>9 DEF Decoded, Elected
  <1>11. ASSUME NEW v \in Version, Elected(Votes, v) PROVE v = w
    <2>1. Cardinality(Votes[w]) <= Cardinality(Votes[v])
      BY <1>2, <1>3, <1>11 DEF Elected
    <2>2. Cardinality(Votes[v]) \in Nat /\ Cardinality(Votes[w]) \in Nat
      BY <1>2, <1>4
    <2> QED
      BY <1>6, <1>7, <2>1, <2>2
  <1> QED
    BY <1>2, <1>10, <1>11 DEF w

LEMMA TrackRetrieved ==
  ASSUME HeldInv, NEW c \in Content, NEW good \in SUBSET Server,
         Cardinality(good) >= Needed, Outvoted(c, good), Track(get, c, good),
         Retrieved \/ RetrieveFails
  PROVE  Track(get', c, good)
  <1> DEFINE w == Piece(c, Len(get.chunks))
  <1>0. get \in Getter /\ Chunks[c] \in Nat \ {0}
    BY ChunksAssumption DEF HeldInv, ObjectsInv, ObjectsTypeOK
  <1>1. get.state = "retrieving" /\ Answered
    BY DEF Retrieved, RetrieveFails
  <1>2. /\ w \in Version /\ Decoded(w)
        /\ \A v \in Version : Elected(Votes, v) => v = w
    BY <1>1, PieceWins
  <1>3. get.count = Chunks[c] /\ Len(get.chunks) < Chunks[c] /\ get.chunks \in Seq(Version)
    BY <1>0, <1>1 DEF Track, Getter
  <1>4. ~RetrieveFails
    BY <1>2 DEF RetrieveFails, Decoded
  <1>5. get' = [get EXCEPT !.chunks = Append(@, w), !.replies = NoReplies,
                           !.state = IF Len(get.chunks) + 1 = get.count THEN "got" ELSE @]
    BY <1>2, <1>4 DEF Retrieved, Decoded
  <1> DEFINE chunks == Append(get.chunks, w)
  <1>6. /\ Len(chunks) = Len(get.chunks) + 1 /\ DOMAIN chunks = 1..(Len(get.chunks) + 1)
        /\ \A j \in 1..Len(get.chunks) : chunks[j] = get.chunks[j]
        /\ chunks[Len(get.chunks) + 1] = w
        /\ DOMAIN get.chunks = 1..Len(get.chunks) /\ Len(get.chunks) \in Nat
    BY <1>2, <1>3
  <1>7. \A j \in DOMAIN chunks : chunks[j] = Piece(c, j - 1)
    <2> SUFFICES ASSUME NEW j \in 1..(Len(get.chunks) + 1) PROVE chunks[j] = Piece(c, j - 1)
      BY <1>6
    <2>1. CASE j = Len(get.chunks) + 1
      <3>1. j - 1 = Len(get.chunks)
        BY <1>6, <2>1
      <3> QED
        BY <1>6, <2>1, <3>1
    <2>2. CASE j \in 1..Len(get.chunks)
      BY <1>6, <2>2 DEF Track
    <2> QED
      BY <1>6, <2>1, <2>2
  <1>8. /\ get'.count = get.count /\ get'.chunks = chunks /\ get'.replies = NoReplies
        /\ get'.state = IF Len(get.chunks) + 1 = get.count THEN "got" ELSE "retrieving"
    BY <1>0, <1>1, <1>5 DEF Getter
  <1> HIDE DEF chunks, w
  <1>9. \A s \in good : get'.replies[s] = Pending
    BY <1>8 DEF NoReplies
  <1> QED
    BY <1>0, <1>3, <1>6, <1>7, <1>8, <1>9 DEF Track

LEMMA TrackIsWhole ==
  ASSUME HeldInv, NEW c \in Content, NEW good, Track(get, c, good)
  PROVE  get.state # "failed" /\ (get.state = "got" => get.chunks = Whole(c))
  <1>1. get.chunks \in Seq(Version) /\ Chunks[c] \in Nat
    BY ChunksAssumption DEF HeldInv, ObjectsInv, ObjectsTypeOK, Getter
  <1>2. CASE get.state = "got"
    <2>1. /\ DOMAIN get.chunks = 1..Chunks[c]
          /\ \A j \in 1..Chunks[c] : get.chunks[j] = Piece(c, j - 1)
          /\ get.chunks = [j \in 1..Len(get.chunks) |-> get.chunks[j]]
      BY <1>1, <1>2 DEF Track
    <2> QED
      BY <1>2, <2>1 DEF Whole, Track
  <1> QED
    BY <1>2 DEF Track

-----------------------------------------------------------------------------
(* Stored everywhere                                                       *)

(* A server without trouble has stored whatever it has on disk.            *)
Settled(entry) == entry.stored \/ entry.file = None

Enough == N - Troubles >= Needed /\ N - Troubles > Troubles

Undisturbed(bad) ==
    /\ Cardinality(bad) <= Troubles
    /\ \A p \in Place : p[2] \notin bad => Settled(slot[p])

StoredTracked(bad) ==
    \A c \in get.stored : Enough /\ Longest(get.object, c) =>
        Track(get, c, Server \ bad) /\ Files(get.object, c, Server \ bad)

WholeInv ==
    HeldInv /\ \E bad \in SUBSET Server : Undisturbed(bad) /\ StoredTracked(bad)

LEMMA BadType ==
  ASSUME NEW bad \in SUBSET Server
  PROVE  /\ IsFiniteSet(bad) /\ Cardinality(bad) \in Nat
         /\ IsFiniteSet(Server \ bad)
         /\ Cardinality(Server \ bad) = N - Cardinality(bad)
         /\ \A s \in Server : Cardinality(bad \cup {s}) <= Cardinality(bad) + 1
  <1>1. IsFiniteSet(Server) /\ IsFiniteSet(bad) /\ Cardinality(bad) \in Nat
    BY ServerAssumption, FS_Subset, FS_CardinalityType
  <1>2. IsFiniteSet(Server \ bad) /\ Cardinality(Server \ bad) = N - Cardinality(bad)
    <2>1. Server \cap bad = bad
      OBVIOUS
    <2> QED
      BY <1>1, <2>1, FS_Difference DEF N
  <1>3. ASSUME NEW s \in Server PROVE Cardinality(bad \cup {s}) <= Cardinality(bad) + 1
    <2>1. Cardinality(bad \cup {s})
            = IF s \in bad THEN Cardinality(bad) ELSE Cardinality(bad) + 1
      BY <1>1, FS_AddElement
    <2> QED
      BY <1>1, <2>1
  <1> QED
    BY <1>1, <1>2, <1>3

LEMMA EnoughGood ==
  ASSUME HeldInv, NEW bad \in SUBSET Server, Cardinality(bad) <= Troubles, Enough
  PROVE  /\ Cardinality(Server \ bad) >= Needed
         /\ Cardinality(Server \ bad) > Cardinality(bad)
         /\ Server \ bad # {}
  <1>1. /\ N \in Nat /\ Needed \in Nat /\ Needed > 0 /\ Troubles \in Nat
        /\ Cardinality(bad) \in Nat /\ Cardinality(Server \ bad) = N - Cardinality(bad)
    <2>1. N \in Nat /\ Needed \in Nat /\ Needed > 0
      BY NeededType
    <2>2. spent \in [Trouble -> Nat]
      BY DEF HeldInv, ObjectsInv, ObjectsTypeOK
    <2> QED
      BY <2>1, <2>2, BadType, TroublesType
  <1>2. /\ Cardinality(Server \ bad) >= Needed
        /\ Cardinality(Server \ bad) > Cardinality(bad)
    BY <1>1 DEF Enough
  <1> QED
    BY <1>1, <1>2, FS_EmptySet

(* What a step that does not touch the get keeps.                          *)
LEMMA WholeKept ==
  ASSUME HeldInv, HeldInv', NEW bad \in SUBSET Server, Undisturbed(bad), StoredTracked(bad),
         get' = get, puts \subseteq puts',
         Calm \/ \E s \in Server : Hurt(s)
  PROVE  \E more \in SUBSET Server : Undisturbed(more)' /\ StoredTracked(more)'
  <1> DEFINE Covers(more) ==
               /\ bad \subseteq more /\ Cardinality(more) <= Troubles' /\ Troubles' >= Troubles
               /\ \A p \in Place : p[2] \notin more => Onward(slot[p], slot'[p])
  <1>1. PICK more \in SUBSET Server : Covers(more)
    <2>1. Troubles \in Nat /\ Cardinality(bad) \in Nat /\ Cardinality(bad) <= Troubles
      BY BadType, TroublesType DEF HeldInv, ObjectsInv, ObjectsTypeOK, Undisturbed
    <2>2. ASSUME Calm PROVE Covers(bad)
      <3>1. Troubles' \in Nat
        BY TroublesNext DEF HeldInv, ObjectsInv, ObjectsTypeOK
      <3>2. Cardinality(bad) <= Troubles'
        BY <2>1, <2>2, <3>1 DEF Calm
      <3> QED
        BY <2>2, <3>2 DEF Calm
    <2>3. ASSUME NEW s \in Server, Hurt(s) PROVE Covers(bad \cup {s})
      <3>1. Cardinality(bad \cup {s}) <= Cardinality(bad) + 1
            /\ Cardinality(bad \cup {s}) \in Nat
        <4>1. bad \cup {s} \in SUBSET Server
          OBVIOUS
        <4> QED
          BY <4>1, BadType
      <3>2. Cardinality(bad \cup {s}) <= Troubles' /\ Troubles' >= Troubles
        BY <2>1, <2>3, <3>1 DEF Hurt
      <3> QED
        BY <2>3, <3>2 DEF Hurt, Onward
    <2> HIDE DEF Covers
    <2>4. \A s \in Server : bad \cup {s} \in SUBSET Server
      OBVIOUS
    <2> QED
      BY <2>2, <2>3, <2>4
  <1>2. \A p \in Place : p[2] \notin more =>
          Settled(slot'[p]) /\ (slot[p].file # None => slot'[p].file = slot[p].file)
    BY <1>1 DEF Undisturbed, Settled, Onward
  <1>3. Undisturbed(more)'
    BY <1>1, <1>2 DEF Undisturbed
  <1>4. ASSUME NEW c \in get.stored, Enough', Longest(get.object, c)'
        PROVE  Track(get, c, Server \ more) /\ Files(get.object, c, Server \ more)'
    <2>0. c \in Content /\ get \in Getter /\ Troubles \in Nat /\ Troubles' \in Nat
      <3>1. spent \in [Trouble -> Nat] /\ spent' \in [Trouble -> Nat] /\ get \in Getter
        BY DEF HeldInv, ObjectsInv, ObjectsTypeOK
      <3>2. c \in Content
        BY <1>4, <3>1 DEF Getter
      <3> QED
        BY <3>1, <3>2, TroublesType, TroublesNext
    <2>1. Enough
      <3>1. N - Troubles' >= Needed /\ N - Troubles' > Troubles'
        BY <1>4 DEF Enough
      <3>2. N - Troubles >= Needed /\ N - Troubles > Troubles
        BY <1>1, <2>0, <3>1, NeededType
      <3> QED
        BY <3>2 DEF Enough
    <2>2. Longest(get.object, c)
      BY <1>4 DEF Longest
    <2>3. Track(get, c, Server \ bad) /\ Files(get.object, c, Server \ bad)
      BY <2>1, <2>2 DEF StoredTracked
    <2>4. Track(get, c, Server \ more)
      BY <1>1, <2>3, TrackShrinks
    <2>5. ASSUME NEW i \in 0..(Chunks[c] - 1), NEW s \in Server \ more
          PROVE  EntryAt(<<chunk_key(get.object, i), s>>)'.file = Piece(c, i)
      <3> DEFINE p == <<chunk_key(get.object, i), s>>
      <3>1. EntryAt(p).file = Piece(c, i) /\ Piece(c, i) \in Version
        <4>1. Chunks[c] \in Nat
          BY <2>0, ChunksAssumption
        <4> QED
          BY <1>1, <2>0, <2>3, <4>1, PieceIsVersion DEF Files
      <3>2. p \in Place /\ slot[p].file # None /\ p[2] = s
        BY <3>1, AnswerAssumption DEF EntryAt, Empty
      <3>3. slot'[p].file = slot[p].file
        BY <1>2, <3>2
      <3> QED
        BY <1>4, <3>1, <3>2, <3>3 DEF EntryAt
    <2> QED
      BY <2>4, <2>5, <1>4 DEF Files
  <1> QED
    BY <1>3, <1>4 DEF StoredTracked

(* A get that begins, and how far it may be told to go.                    *)
LEMMA GetBegun ==
  ASSUME ObjectsInv, NEW key \in Object \cup Key,
         GetBegin(key) \/ \E k \in 0..MaxChunks : GetCounted(key, k)
  PROVE  /\ get' \in Getter /\ get'.chunks = <<>> /\ get'.replies = NoReplies
         /\ get'.object = Stripped(key)
         /\ \A c \in get'.stored : c \in Content /\ StoredEverywhere(get'.object, c)
         /\ \/ get'.report = NoReport
            \/ get'.report = shown /\ shown.object = get'.object
         /\ \/ get'.state = "probing" /\ get'.count = 0
            \/ /\ get'.state = "retrieving"
               /\ \A c \in get'.stored : get'.count = Chunks[c]
               /\ \/ get'.report = NoReport
                  \/ /\ get'.report.content \in Content
                     /\ get'.count = Chunks[get'.report.content]
            \/ get'.state = "got" /\ get'.stored = {} /\ get'.report = NoReport
  <1> DEFINE b == GetOf(Stripped(key))
  <1>1. /\ b \in Getter /\ b.object = Stripped(key)
        /\ b.chunks = <<>> /\ b.replies = NoReplies
    BY StrippedIsName, GetOfType
  <1>2. /\ \A c \in b.stored : c \in Content /\ StoredEverywhere(b.object, c)
        /\ b.report = NoReport \/ (b.report = shown /\ shown.object = b.object)
        /\ b.count = 0
    <2>1. IdleGet \in Getter /\ IdleGet.count = 0
      BY IdleType DEF IdleGet
    <2>2. /\ b.stored = {c \in Content : StoredEverywhere(Stripped(key), c)}
          /\ b.report = IF shown.object = Stripped(key) THEN shown ELSE NoReport
          /\ b.count = 0
      BY <2>1 DEF GetOf, Getter
    <2> QED
      BY <1>1, <2>2
  <1> HIDE DEF b
  <1>3. CASE GetBegin(key)
    <2>1. get' = [b EXCEPT !.state = "probing"]
      BY <1>3 DEF GetBegin, b
    <2> QED
      BY <1>1, <1>2, <2>1 DEF Getter
  <1>4. ASSUME NEW k \in 0..MaxChunks, GetCounted(key, k)
        PROVE  /\ get' \in Getter /\ get'.chunks = b.chunks /\ get'.replies = b.replies
               /\ get'.object = b.object
               /\ get'.state = IF k = 0 THEN "got" ELSE "retrieving"
               /\ get'.count = k
               /\ get'.stored = {c \in b.stored : Chunks[c] = k}
               /\ \/ get'.report = NoReport
                  \/ /\ get'.report = b.report /\ b.report.content \in Content
                     /\ Chunks[b.report.content] = k
    <2>1. get' = [b EXCEPT !.state = IF k = 0 THEN "got" ELSE "retrieving", !.count = k,
                           !.stored = {c \in @ : Chunks[c] = k},
                           !.report = IF @.content # None /\ Chunks[@.content] = k
                                      THEN @ ELSE NoReport]
      BY <1>4 DEF GetCounted, b
    <2>2. k \in Nat /\ b.report \in Report
      BY <1>1 DEF Getter
    <2>3. b.report.content # None => b.report.content \in Content
      BY <2>2 DEF Report
    <2>4. /\ get' \in Getter /\ get'.chunks = b.chunks /\ get'.replies = b.replies
          /\ get'.object = b.object
          /\ get'.state = IF k = 0 THEN "got" ELSE "retrieving"
          /\ get'.count = k
          /\ get'.stored = {c \in b.stored : Chunks[c] = k}
          /\ get'.report = IF b.report.content # None /\ Chunks[b.report.content] = k
                           THEN b.report ELSE NoReport
      BY <1>1, <2>1, <2>2, IdleType DEF Getter
    <2> QED
      BY <2>3, <2>4
  <1>5. CASE \E k \in 0..MaxChunks : GetCounted(key, k)
    <2>1. PICK k \in 0..MaxChunks : GetCounted(key, k)
      BY <1>5
    <2>2. CASE k = 0
      <3>1. get'.stored = {}
        <4>1. \A c \in Content : Chunks[c] # 0
          BY ChunksAssumption
        <4> QED
          BY <1>2, <1>4, <2>1, <2>2, <4>1
      <3>2. get'.report = NoReport
        BY <1>4, <2>1, <2>2, ChunksAssumption
      <3> QED
        BY <1>1, <1>2, <1>4, <2>1, <2>2, <3>1, <3>2
    <2>3. CASE k # 0
      BY <1>1, <1>2, <1>4, <2>1, <2>3
    <2> QED
      BY <2>2, <2>3
  <1> QED
    BY <1>3, <1>5

(* The rest of a get keeps what it was told when it began.                 *)
LEMMA GetGoesOn ==
  ASSUME ObjectsInv,
         \/ \E s \in Server : Reply(s) \/ ReplyRaises(s)
         \/ Probed \/ Retrieved \/ RetrieveFails
  PROVE  get'.object = get.object /\ get'.stored = get.stored /\ get'.report = get.report
  <1>1. get \in Getter
    BY DEF ObjectsInv, ObjectsTypeOK
  <1> QED
    BY <1>1 DEF Reply, ReplyRaises, Probed, Retrieved, RetrieveFails, Getter

LEMMA WholeGet ==
  ASSUME HeldInv, HeldInv', NEW bad \in SUBSET Server, Undisturbed(bad), StoredTracked(bad),
         GetNext
  PROVE  \E more \in SUBSET Server : Undisturbed(more)' /\ StoredTracked(more)'
  <1>0. /\ ObjectsInv /\ spent \in [Trouble -> Nat] /\ get \in Getter
        /\ Troubles \in Nat /\ Troubles' \in Nat /\ Troubles' >= Troubles
        /\ UNCHANGED <<slot, puts>>
    BY GetChange, TroublesType, TroublesNext DEF HeldInv, ObjectsInv, ObjectsTypeOK
  <1>1. Cardinality(bad) \in Nat /\ Cardinality(bad) <= Troubles
    BY BadType DEF Undisturbed
  <1>2. \A p \in Place : p[2] \notin bad => Settled(slot'[p])
    BY <1>0 DEF Undisturbed
  <1>3. Undisturbed(bad)'
    BY <1>0, <1>1, <1>2 DEF Undisturbed
  <1>4. Enough' => Enough
    <2>1. N \in Nat /\ Needed \in Nat
      BY NeededType
    <2>2. ASSUME N - Troubles' >= Needed, N - Troubles' > Troubles'
          PROVE  N - Troubles >= Needed /\ N - Troubles > Troubles
      <3>1. Troubles \in Nat /\ Troubles' \in Nat /\ Troubles' >= Troubles
        BY <1>0
      <3>2. \A t \in Nat, u \in Nat, k \in Nat, n \in Nat :
              u >= t /\ n - u >= k /\ n - u > u => n - t >= k /\ n - t > t
        OBVIOUS
      <3> QED
        BY <2>1, <2>2, <3>1, <3>2
    <2> QED
      BY <2>2 DEF Enough
  <1>5. ASSUME NEW object, NEW c
        PROVE  /\ Longest(object, c)' => Longest(object, c)
               /\ \A good : Files(object, c, good)' <=> Files(object, c, good)
    BY <1>0 DEF Longest, Files, EntryAt
  <1>6. CASE \E key \in Object \cup Key :
               GetBegin(key) \/ \E k \in 0..MaxChunks : GetCounted(key, k)
    <2>1. PICK key \in Object \cup Key :
            GetBegin(key) \/ \E k \in 0..MaxChunks : GetCounted(key, k)
      BY <1>6
    <2>2. /\ get' \in Getter /\ get'.chunks = <<>> /\ get'.replies = NoReplies
          /\ \A c \in get'.stored : c \in Content /\ StoredEverywhere(get'.object, c)
          /\ \A c \in get'.stored :
              \/ get'.state = "probing" /\ get'.count = 0
              \/ get'.state = "retrieving" /\ get'.count = Chunks[c]
      BY <1>0, <2>1, GetBegun
    <2>3. ASSUME NEW c \in get'.stored
          PROVE  Track(get', c, Server \ bad) /\ Files(get'.object, c, Server \ bad)
      <3>1. Track(get', c, Server \ bad)
        BY <2>2, TrackBegin
      <3> QED
        BY <2>2, <3>1 DEF StoredEverywhere, Files
    <2>4. \A c : Files(get'.object, c, Server \ bad)
                  => Files(get.object, c, Server \ bad)'
      BY <1>5 DEF Files, EntryAt
    <2>5. StoredTracked(bad)'
      BY <2>3, <2>4 DEF StoredTracked
    <2> QED
      BY <1>3, <2>5
  <1>7. ASSUME NEW s \in Server, ReplyRaises(s)
        PROVE  Undisturbed(bad \cup {s})' /\ StoredTracked(bad \cup {s})'
    <2>1. Troubles' = Troubles + 1 /\ get'.object = get.object /\ get'.stored = get.stored
      BY <1>0, <1>7, SpendCounts, GetGoesOn DEF ReplyRaises, Trouble
    <2>2. Cardinality(bad \cup {s}) <= Troubles'
      <3>1. Cardinality(bad \cup {s}) \in Nat
        <4>1. bad \cup {s} \in SUBSET Server
          OBVIOUS
        <4> QED
          BY <4>1, BadType
      <3>2. Cardinality(bad \cup {s}) <= Cardinality(bad) + 1
        BY BadType
      <3> QED
        BY <1>0, <1>1, <2>1, <3>1, <3>2
    <2>3. ASSUME NEW c \in get.stored, Track(get, c, Server \ bad),
                 Files(get.object, c, Server \ bad)
          PROVE  Track(get', c, Server \ (bad \cup {s}))
                 /\ Files(get.object, c, Server \ (bad \cup {s}))
      <3>1. Track(get', c, (Server \ bad) \ {s})
        BY <1>0, <1>7, <2>3, TrackRaises DEF Getter
      <3>2. (Server \ bad) \ {s} = Server \ (bad \cup {s})
        OBVIOUS
      <3> QED
        BY <2>3, <3>1, <3>2 DEF Files
    <2>4. ASSUME NEW c \in get.stored, Enough', Longest(get.object, c)'
          PROVE  Track(get, c, Server \ (bad \cup {s}))'
                 /\ Files(get.object, c, Server \ (bad \cup {s}))'
      <3>1. Track(get, c, Server \ bad) /\ Files(get.object, c, Server \ bad)
        BY <1>0, <1>4, <2>1, <2>4 DEF StoredTracked, Longest
      <3>2. Track(get', c, Server \ (bad \cup {s}))
            /\ Files(get.object, c, Server \ (bad \cup {s}))
        BY <2>3, <3>1
      <3> QED
        BY <1>0, <2>1, <3>2 DEF Files, EntryAt
    <2>5. StoredTracked(bad \cup {s})'
      BY <2>1, <2>4 DEF StoredTracked
    <2>6. Undisturbed(bad \cup {s})'
      BY <1>2, <2>2 DEF Undisturbed
    <2> QED
      BY <2>5, <2>6
  <1>8. CASE (\E s \in Server : Reply(s)) \/ Probed \/ Retrieved \/ RetrieveFails
    <2>1. get'.object = get.object /\ get'.stored = get.stored
      BY <1>0, <1>8, GetGoesOn
    <2>2. ASSUME NEW c \in get.stored, Enough', Longest(get.object, c)'
          PROVE  Track(get, c, Server \ bad)' /\ Files(get.object, c, Server \ bad)'
      <3> DEFINE good == Server \ bad
      <3>1. Enough /\ Longest(get.object, c) /\ c \in Content /\ good \in SUBSET Server
        BY <1>0, <1>4, <2>1, <2>2 DEF Longest, Getter
      <3>2. Track(get, c, good) /\ Files(get.object, c, good)
        BY <3>1 DEF StoredTracked
      <3>3. /\ Cardinality(good) >= Needed /\ Cardinality(good) > Cardinality(bad)
            /\ good # {}
        BY <1>1, <3>1, EnoughGood
      <3>4. ASSUME get.state = "retrieving" PROVE Outvoted(c, good)
        <4> SUFFICES ASSUME NEW v \in Version, v # Piece(c, Len(get.chunks))
                     PROVE  Cardinality({s \in Server : get.replies[s] = v}) < Cardinality(good)
          BY DEF Outvoted
        <4> DEFINE votes == {s \in Server : get.replies[s] = v}
        <4>1. v # Pending
          BY AnswerAssumption
        <4>2. votes \subseteq bad
          BY <3>2, <3>4, <4>1 DEF Track
        <4>3. Cardinality(votes) <= Cardinality(bad) /\ Cardinality(votes) \in Nat
          BY <4>2, BadType, FS_Subset, FS_CardinalityType
        <4>4. Cardinality(good) \in Nat
          BY BadType, FS_CardinalityType
        <4> HIDE DEF votes, good
        <4>5. Cardinality(votes) < Cardinality(good)
          BY <1>1, <3>3, <4>3, <4>4
        <4> QED
          BY <4>5 DEF votes
      <3>5. Track(get', c, good)
        <4>1. CASE \E s \in Server : Reply(s)
          BY <3>1, <3>2, <4>1, TrackReply
        <4>2. CASE Probed
          BY <3>1, <3>2, <3>3, <4>2, TrackProbed
        <4>3. CASE Retrieved \/ RetrieveFails
          <5>1. get.state = "retrieving"
            BY <4>3 DEF Retrieved, RetrieveFails
          <5> QED
            BY <3>1, <3>2, <3>3, <3>4, <4>3, <5>1, TrackRetrieved
        <4> QED
          BY <1>8, <4>1, <4>2, <4>3
      <3> QED
        BY <1>0, <2>1, <3>2, <3>5 DEF Files, EntryAt
    <2>3. StoredTracked(bad)'
      BY <2>1, <2>2 DEF StoredTracked
    <2> QED
      BY <1>3, <2>3
  <1>9. \A s \in Server : bad \cup {s} \in SUBSET Server
    OBVIOUS
  <1> QED
    BY <1>6, <1>7, <1>8, <1>9 DEF GetNext

LEMMA NextWholeInv == WholeInv /\ [ObjectsNext]_objVars => WholeInv'
  <1> SUFFICES ASSUME WholeInv, [ObjectsNext]_objVars PROVE WholeInv'
    OBVIOUS
  <1>1. HeldInv /\ HeldInv'
    BY NextHeldInv DEF WholeInv
  <1>2. PICK bad \in SUBSET Server : Undisturbed(bad) /\ StoredTracked(bad)
    BY DEF WholeInv
  <1>3. \E more \in SUBSET Server : Undisturbed(more)' /\ StoredTracked(more)'
    <2>1. CASE ServersNext \/ PutNext
      BY <1>1, <1>2, <2>1, ServersChange, PutChange, WholeKept DEF HeldInv
    <2>2. CASE GetNext
      BY <1>1, <1>2, <2>2, WholeGet
    <2>3. CASE UNCHANGED objVars
      <3>1. UNCHANGED <<slot, put, get, puts, spent>>
        BY <2>3 DEF objVars, history
      <3>2. Calm
        BY <1>1, <3>1, Unspent DEF HeldInv, ObjectsInv, ObjectsTypeOK, Onward
      <3> QED
        BY <1>1, <1>2, <3>1, <3>2, WholeKept
    <2> QED
      BY <2>1, <2>2, <2>3 DEF ObjectsNext
  <1> QED
    BY <1>1, <1>3 DEF WholeInv

LEMMA InitWholeInv == ObjectsInit => WholeInv
  <1> SUFFICES ASSUME ObjectsInit PROVE WholeInv
    OBVIOUS
  <1>1. HeldInv
    BY InitHeldInv
  <1>2. slot = [p \in Place |-> Empty] /\ get.stored = {}
    BY DEF ObjectsInit, Init, InitClients, InitGet, IdleGet
  <1>3. Cardinality({}) <= Troubles
    BY <1>1, TroublesType, FS_EmptySet DEF HeldInv, ObjectsInv, ObjectsTypeOK
  <1>4. Undisturbed({}) /\ StoredTracked({})
    BY <1>2, <1>3 DEF Undisturbed, StoredTracked, Settled, Empty
  <1> QED
    BY <1>1, <1>4 DEF WholeInv

(* An object that every server had stored when a get began is returned     *)
(* whole, for any number of servers, objects, chunks and puts, as long as  *)
(* calls that raised, crashes and resets are fewer than the servers left   *)
(* without any, and those are enough to decode from.                       *)
THEOREM StoredIsReturnedWholeCorrect == ObjectsSpec => []StoredIsReturnedWhole
  <1>1. WholeInv => StoredIsReturnedWhole
    <2> SUFFICES ASSUME WholeInv, NEW c \in get.stored,
                        N - Troubles >= Needed, N - Troubles > Troubles,
                        Longest(get.object, c)
                 PROVE  get.state # "failed" /\ (get.state = "got" => get.chunks = Whole(c))
      BY DEF StoredIsReturnedWhole, Longest
    <2>1. c \in Content
      BY DEF WholeInv, HeldInv, ObjectsInv, ObjectsTypeOK, Getter
    <2>2. \E bad \in SUBSET Server : Track(get, c, Server \ bad)
      BY DEF WholeInv, StoredTracked, Enough
    <2> QED
      BY <2>1, <2>2, TrackIsWhole DEF WholeInv
  <1> QED
    BY <1>1, InitWholeInv, NextWholeInv, PTL DEF ObjectsSpec

-----------------------------------------------------------------------------
(* Reported as stored                                                      *)

(* Contents of one chunk, and no other content put under the name.         *)
Only(object, c) == Chunks[c] = 1 /\ {p \in puts : p[1] = object} = {<<object, c>>}

(* Of the servers `on`, all but as many as were harmed since have c.       *)
Kept(object, c, on, harm, bad) ==
    Cardinality(bad) + harm <= Harm /\ Files(object, c, on \ bad)

Claimed(object, c, on, harm) ==
    Only(object, c) => \E bad \in SUBSET Server : Kept(object, c, on, harm, bad)

ReportTracked(object, c, on, harm, bad) ==
    /\ Kept(object, c, on, harm, bad)
    /\ Cardinality(on) - (Harm - harm) >= Needed => Track(get, c, on \ bad)

PutClaims ==
    /\ put.state = "dispersing" => put.on = {}
    /\ put.state = "polling" => Claimed(put.object, put.content, put.on, put.harm)

ShownClaims ==
    \/ shown = NoReport
    \/ /\ <<shown.object, shown.content>> \in puts
       /\ Claimed(shown.object, shown.content, shown.on, shown.harm)

GetClaims ==
    LET r == get.report IN
    \/ r = NoReport
    \/ /\ <<r.object, r.content>> \in puts /\ r.object = get.object
       /\ Only(r.object, r.content) => \E bad \in SUBSET Server :
              ReportTracked(r.object, r.content, r.on, r.harm, bad)

ReportInv == HeldInv /\ PutClaims /\ ShownClaims /\ GetClaims

LEMMA OnlyPiece ==
  ASSUME ObjectsInv, NEW object, NEW c, Only(object, c), NEW i \in Nat, NEW v \in Version,
         Placed(chunk_key(object, i), v)
  PROVE  i = 0 /\ v = Piece(c, i)
  <1>1. <<object, c>> \in puts /\ puts \subseteq Object \X Content
    BY DEF Only, ObjectsInv, ObjectsTypeOK
  <1>2. PICK o \in Object, d \in Content : \E j \in Nat :
          <<o, d>> \in puts /\ chunk_key(object, i) = chunk_key(o, j) /\ v = Piece(d, j)
    BY DEF Placed
  <1>3. o = object /\ v = Piece(d, i)
    BY <1>1, <1>2, ObjectAssumption, KeyIsUnique
  <1>4. d = c
    BY <1>2, <1>3 DEF Only
  <1>5. i < 1
    BY <1>2, <1>3, <1>4, PieceIsVersion DEF Only
  <1> QED
    BY <1>3, <1>4, <1>5

LEMMA OnlyStays ==
  ASSUME NEW object, NEW c, <<object, c>> \in puts, puts \subseteq puts', Only(object, c)'
  PROVE  Only(object, c)
  BY DEF Only

LEMMA OnlyContent ==
  ASSUME ObjectsInv, NEW object, NEW c, Only(object, c)
  PROVE  <<object, c>> \in puts /\ object \in Object /\ c \in Content
  <1>1. <<object, c>> \in puts
    BY DEF Only
  <1>2. puts \subseteq Object \X Content
    BY DEF ObjectsInv, ObjectsTypeOK
  <1> QED
    BY <1>1, <1>2

LEMMA OnlyIsLongest ==
  ASSUME NEW object, NEW c, Only(object, c)
  PROVE  Longest(object, c)
  BY DEF Only, Longest

LEMMA KeptNext ==
  ASSUME HeldInv, HeldInv', NEW object, NEW c, Only(object, c), NEW on \in SUBSET Server,
         NEW harm \in Nat, NEW bad \in SUBSET Server, Kept(object, c, on, harm, bad),
         Calm \/ \E s \in Server : Hurt(s)
  PROVE  \E more \in SUBSET Server : bad \subseteq more /\ Kept(object, c, on, harm, more)'
  <1>1. /\ Harm \in Nat /\ Harm' \in Nat /\ Cardinality(bad) \in Nat
        /\ Cardinality(bad) + harm <= Harm
    BY BadType, TroublesType, TroublesNext DEF HeldInv, ObjectsInv, ObjectsTypeOK, Kept
  <1>2. Chunks[c] = 1 /\ <<object, c>> \in puts /\ c \in Content
    BY DEF Only, HeldInv, ObjectsInv, ObjectsTypeOK
  <1>3. ASSUME NEW s \in on \ bad
        PROVE  LET p == <<chunk_key(object, 0), s>> IN
               p \in Place /\ slot[p].file = Piece(c, 0) /\ p[2] = s
    <2>1. EntryAt(<<chunk_key(object, 0), s>>).file = Piece(c, 0)
      BY <1>2 DEF Kept, Files
    <2>2. Piece(c, 0) # None
      BY <1>2, PieceIsVersion, AnswerAssumption
    <2> QED
      BY <2>1, <2>2 DEF EntryAt, Empty
  <1>4. ASSUME NEW more \in SUBSET Server, bad \subseteq more,
               Cardinality(more) + harm <= Harm',
               \A p \in Place : p[2] \notin more =>
                   slot'[p].file = slot[p].file \/ Onward(slot[p], slot'[p])
        PROVE  Kept(object, c, on, harm, more)'
    <2>1. ASSUME NEW s \in on \ more
          PROVE  EntryAt(<<chunk_key(object, 0), s>>)'.file = Piece(c, 0)
      <3> DEFINE p == <<chunk_key(object, 0), s>>
      <3>1. p \in Place /\ slot[p].file = Piece(c, 0) /\ p[2] = s
        BY <1>3, <1>4
      <3>2. slot[p] \in Entry /\ EntryPlaced(p, slot[p]) /\ p[1] = chunk_key(object, 0)
        BY <3>1 DEF HeldInv, ObjectsInv, ObjectsTypeOK, SlotsPlaced
      <3>3. slot[p].held # None => slot[p].held = Piece(c, 0)
        <4>1. slot[p].held # None => slot[p].held \in Version /\ Placed(chunk_key(object, 0), slot[p].held)
          BY <3>2 DEF Entry, EntryPlaced
        <4> QED
          BY <4>1, OnlyPiece DEF HeldInv
      <3>4. slot'[p].file = slot[p].file \/ Onward(slot[p], slot'[p])
        BY <1>4, <3>1
      <3> HIDE DEF p
      <3>5. slot'[p].file = Piece(c, 0)
        BY <3>1, <3>3, <3>4 DEF Onward
      <3> QED
        BY <3>1, <3>5 DEF EntryAt, p
    <2>2. Files(object, c, on \ more)'
      BY <1>2, <2>1 DEF Files
    <2> QED
      BY <1>4, <2>2 DEF Kept
  <1>5. CASE Calm
    <2>1. Cardinality(bad) + harm <= Harm'
      BY <1>1, <1>5 DEF Calm
    <2> QED
      BY <1>4, <1>5, <2>1 DEF Calm
  <1>6. ASSUME NEW s \in Server, Hurt(s)
        PROVE  \E more \in SUBSET Server : bad \subseteq more /\ Kept(object, c, on, harm, more)'
    <2>1. CASE Harm' = Harm
      BY <1>1, <1>4, <1>6, <2>1 DEF Hurt
    <2>2. CASE Harm' = Harm + 1
      <3>1. bad \cup {s} \in SUBSET Server /\ bad \subseteq bad \cup {s}
        OBVIOUS
      <3>2. Cardinality(bad \cup {s}) <= Cardinality(bad) + 1
            /\ Cardinality(bad \cup {s}) \in Nat
        BY <3>1, BadType
      <3>3. Cardinality(bad \cup {s}) + harm <= Harm'
        BY <1>1, <2>2, <3>2
      <3>4. \A p \in Place : p[2] \notin bad \cup {s} => slot'[p].file = slot[p].file
        BY <1>6 DEF Hurt
      <3> QED
        BY <1>4, <3>1, <3>3, <3>4
    <2> QED
      BY <1>6, <2>1, <2>2 DEF Hurt
  <1> QED
    BY <1>5, <1>6

LEMMA ClaimedNext ==
  ASSUME HeldInv, HeldInv', NEW object, NEW c, <<object, c>> \in puts, puts \subseteq puts',
         NEW on \in SUBSET Server, NEW harm \in Nat, Claimed(object, c, on, harm),
         Calm \/ \E s \in Server : Hurt(s)
  PROVE  Claimed(object, c, on, harm)'
  <1> SUFFICES ASSUME Only(object, c)'
               PROVE  \E bad \in SUBSET Server : Kept(object, c, on, harm, bad)'
    BY DEF Claimed
  <1>1. Only(object, c)
    BY OnlyStays
  <1>2. PICK bad \in SUBSET Server : Kept(object, c, on, harm, bad)
    BY <1>1 DEF Claimed
  <1> QED
    BY <1>1, <1>2, KeptNext

(* What was shown is still claimed, and so is what a get was told.         *)
LEMMA ShownNext ==
  ASSUME HeldInv, HeldInv', ShownClaims, shown' = shown, puts \subseteq puts',
         Calm \/ \E s \in Server : Hurt(s)
  PROVE  ShownClaims'
  <1>1. shown \in Report
    BY DEF HeldInv, ObjectsInv, ObjectsTypeOK
  <1>2. PICK r \in Report : r = shown /\ r = shown'
    BY <1>1
  <1>3. r.on \in SUBSET Server /\ r.harm \in Nat
    BY DEF Report
  <1>4. CASE r = NoReport
    BY <1>2, <1>4 DEF ShownClaims
  <1>5. CASE r # NoReport
    <2>1. <<r.object, r.content>> \in puts /\ Claimed(r.object, r.content, r.on, r.harm)
      BY <1>2, <1>5 DEF ShownClaims
    <2>2. Claimed(r.object, r.content, r.on, r.harm)'
      BY <1>3, <2>1, ClaimedNext
    <2> QED
      BY <1>2, <2>1, <2>2 DEF ShownClaims
  <1> QED
    BY <1>4, <1>5

LEMMA GetClaimsNext ==
  ASSUME HeldInv, HeldInv', GetClaims, get' = get, puts \subseteq puts',
         Calm \/ \E s \in Server : Hurt(s)
  PROVE  GetClaims'
  <1>1. get \in Getter
    BY DEF HeldInv, ObjectsInv, ObjectsTypeOK
  <1>2. PICK g \in Getter : g = get /\ g = get'
    BY <1>1
  <1> DEFINE r == g.report
  <1>3. r.on \in SUBSET Server /\ r.harm \in Nat
    BY DEF Getter, Report
  <1>4. CASE r = NoReport
    BY <1>2, <1>4 DEF GetClaims
  <1>5. CASE r # NoReport
    <2>1. /\ <<r.object, r.content>> \in puts /\ r.object = get.object
          /\ Only(r.object, r.content) => \E bad \in SUBSET Server :
                ReportTracked(r.object, r.content, r.on, r.harm, bad)
      BY <1>2, <1>5 DEF GetClaims
    <2>2. ASSUME Only(r.object, r.content)'
          PROVE  \E bad \in SUBSET Server :
                    ReportTracked(r.object, r.content, r.on, r.harm, bad)'
      <3>1. Only(r.object, r.content)
        BY <2>1, <2>2, OnlyStays
      <3>2. PICK bad \in SUBSET Server : ReportTracked(r.object, r.content, r.on, r.harm, bad)
        BY <2>1, <3>1
      <3>3. PICK more \in SUBSET Server :
              bad \subseteq more /\ Kept(r.object, r.content, r.on, r.harm, more)'
        BY <1>3, <3>1, <3>2, KeptNext DEF ReportTracked
      <3>4. ASSUME Cardinality(r.on) - (Harm' - r.harm) >= Needed
            PROVE  Track(g, r.content, r.on \ more)
        <4>1. /\ Harm \in Nat /\ Harm' \in Nat /\ Harm' >= Harm
          BY TroublesType, TroublesNext DEF HeldInv, ObjectsInv, ObjectsTypeOK, Calm, Hurt
        <4>2. Cardinality(r.on) \in Nat /\ Needed \in Nat
          BY <1>3, BadType, NeededType
        <4>3. Cardinality(r.on) - (Harm - r.harm) >= Needed
          <5> HIDE DEF r
          <5> QED
            BY <1>3, <3>4, <4>1, <4>2
        <4>4. Track(g, r.content, r.on \ bad)
          BY <1>2, <3>2, <4>3 DEF ReportTracked
        <4> QED
          BY <3>3, <4>4, TrackShrinks
      <3> QED
        BY <1>2, <3>3, <3>4 DEF ReportTracked
    <2> QED
      BY <1>2, <2>1, <2>2 DEF GetClaims
  <1> QED
    BY <1>4, <1>5

(* The put asks for the status: what has stored the key has the one piece. *)
LEMMA StatusKeeps ==
  ASSUME HeldInv, NEW s \in Server, Status(s), NEW bad \in SUBSET Server,
         Only(put.object, put.content), put.chunk = 0,
         Kept(put.object, put.content, put.on, put.harm, bad)
  PROVE  Kept(put.object, put.content, put'.on, put.harm, bad)
  <1> DEFINE p == <<chunk_key(put.object, 0), s>>
  <1>1. /\ put \in Putter /\ slot \in [Place -> Entry] /\ put.content \in Content
        /\ put.state = "polling" /\ put.object \in Object /\ Chunks[put.content] = 1
    BY DEF HeldInv, ObjectsInv, ObjectsTypeOK, PutPlaced, Status, Waiting, Only
  <1>2. p \in Place /\ put'.on = IF slot[p].stored THEN put.on \cup {s} ELSE put.on
    <2>1. chunk_key(put.object, 0) \in Key
      <3>1. 0 \in 0..MaxChunks
        BY LongestExists
      <3> QED
        BY <1>1, <3>1 DEF Key
    <2>2. put' = [put EXCEPT !.waiting = @ \ {s},
                             !.on = IF slot[p].stored THEN @ \cup {s} ELSE @]
      BY DEF Status, PutPlace
    <2> QED
      BY <1>1, <2>1, <2>2, SlotAssumption DEF Putter
  <1>3. slot[p].stored => EntryAt(p).file = Piece(put.content, 0)
    <2> SUFFICES ASSUME slot[p].stored PROVE slot[p].file = Piece(put.content, 0)
      BY <1>2 DEF EntryAt
    <2>1. slot[p].held # None /\ slot[p].file = slot[p].held
      BY <1>2 DEF HeldInv, StoredIsHeld
    <2>2. slot[p] \in Entry /\ EntryPlaced(p, slot[p])
      BY <1>2 DEF HeldInv, ObjectsInv, ObjectsTypeOK, SlotsPlaced
    <2>3. slot[p].held \in Version /\ Placed(chunk_key(put.object, 0), slot[p].held)
      BY <2>1, <2>2 DEF Entry, EntryPlaced
    <2> QED
      BY <2>1, <2>3, OnlyPiece DEF HeldInv
  <1> HIDE DEF p
  <1>4. \A t \in put'.on \ bad :
            EntryAt(<<chunk_key(put.object, 0), t>>).file = Piece(put.content, 0)
    <2>1. \A t \in put.on \ bad :
            EntryAt(<<chunk_key(put.object, 0), t>>).file = Piece(put.content, 0)
      BY <1>1 DEF Kept, Files
    <2> QED
      BY <1>2, <1>3, <2>1 DEF p
  <1> QED
    BY <1>1, <1>4 DEF Kept, Files

LEMMA PutClaimsNext ==
  ASSUME ReportInv, HeldInv', PutNext
  PROVE  PutClaims' /\ ShownClaims'
  <1>0. /\ ObjectsInv /\ HeldInv /\ put \in Putter /\ spent \in [Trouble -> Nat]
        /\ PutClaims /\ ShownClaims
        /\ PutPlaced /\ puts \subseteq puts' /\ Calm
    BY PutChange DEF ReportInv, HeldInv, ObjectsInv, ObjectsTypeOK
  <1>1. PICK object, c, on, harm :
          object = put.object /\ c = put.content /\ on = put.on /\ harm = put.harm
    OBVIOUS
  <1>2. on \in SUBSET Server /\ harm \in Nat
    BY <1>0, <1>1 DEF Putter
  <1>3. ASSUME put.state = "polling"
        PROVE  <<object, c>> \in puts /\ Claimed(object, c, on, harm)'
    BY <1>0, <1>1, <1>2, <1>3, ClaimedNext DEF PutClaims, PutPlaced
  <1>4. ASSUME NEW o \in Object, NEW d \in Content, PutBegin(o, d)
        PROVE  PutClaims' /\ ShownClaims'
    <2>1. put' = [Idle EXCEPT !.state = "dispersing", !.object = o, !.content = d,
                              !.waiting = Server] /\ shown' = shown
      BY <1>4 DEF PutBegin
    <2>2. put'.state = "dispersing" /\ put'.on = {}
      BY <2>1 DEF Idle
    <2> QED
      BY <1>0, <2>1, <2>2, ShownNext DEF PutClaims
  <1>5. ASSUME NEW s \in Server, Disperse(s) \/ DisperseRaises(s)
        PROVE  PutClaims' /\ ShownClaims'
    <2>1. put.state = "dispersing" /\ shown' = shown
      BY <1>5 DEF Disperse, DisperseRaises, Waiting
    <2>2. put'.state = put.state /\ put'.on = put.on
      BY <1>0, <1>5 DEF Disperse, DisperseRaises, Putter
    <2> QED
      BY <1>0, <2>1, <2>2, ShownNext DEF PutClaims
  <1>6. CASE ChunkDispersed
    <2>1. /\ put.state = "dispersing" /\ shown' = shown /\ put.on = {} /\ UNCHANGED spent
          /\ \/ put' = [Idle EXCEPT !.state = "failed"]
             \/ put' = [put EXCEPT !.state = "polling", !.waiting = Server, !.chunk = 0,
                                   !.failed = 0, !.harm = Harm]
             \/ put' = [put EXCEPT !.chunk = @ + 1, !.waiting = Server, !.failed = 0]
      BY <1>0, <1>6 DEF ChunkDispersed, PutClaims, history
    <2>2. \/ put'.state = "failed"
          \/ put'.state = "polling" /\ put'.on = {} /\ put'.harm = Harm
          \/ put'.state = "dispersing" /\ put'.on = {}
      BY <1>0, <2>1 DEF Putter, Idle
    <2>3. CASE put'.state = "polling" /\ put'.on = {} /\ put'.harm = Harm
      <3>1. Harm' = Harm /\ Harm \in Nat
        BY <1>0, <2>1, TroublesType, TroublesStay
      <3>2. Cardinality({}) + put'.harm <= Harm'
        BY <2>3, <3>1, FS_EmptySet
      <3>3. Kept(put.object, put.content, put.on, put.harm, {})'
        BY <2>3, <3>2 DEF Kept, Files
      <3>4. Claimed(put.object, put.content, put.on, put.harm)'
        BY <3>3 DEF Claimed
      <3> QED
        BY <1>0, <2>1, <2>3, <3>4, ShownNext DEF PutClaims
    <2> QED
      BY <1>0, <2>1, <2>2, <2>3, ShownNext DEF PutClaims
  <1>7. ASSUME NEW s \in Server, StatusRaises(s)
        PROVE  PutClaims' /\ ShownClaims'
    <2>1. put.state = "polling" /\ shown' = shown
      BY <1>7 DEF StatusRaises, Waiting
    <2>2. /\ put'.state = put.state /\ put'.object = object /\ put'.content = c
          /\ put'.on = on /\ put'.harm = harm
      BY <1>0, <1>1, <1>7 DEF StatusRaises, Putter
    <2> QED
      BY <1>0, <1>3, <2>1, <2>2, ShownNext DEF PutClaims
  <1>8. ASSUME NEW s \in Server, Status(s)
        PROVE  PutClaims' /\ ShownClaims'
    <2>1. /\ put.state = "polling" /\ shown' = shown
          /\ UNCHANGED <<slot, puts, spent>>
      BY <1>8 DEF Status, Waiting, history
    <2>2. /\ put'.state = put.state /\ put'.object = object /\ put'.content = c
          /\ put'.harm = harm
      BY <1>0, <1>1, <1>8 DEF Status, Putter
    <2>3. PICK after : after = put'.on
      OBVIOUS
    <2>4. ASSUME Only(object, c)'
          PROVE  \E bad \in SUBSET Server : Kept(object, c, after, harm, bad)'
      <3>1. Only(object, c)
        BY <2>1, <2>4 DEF Only
      <3>2. PICK bad \in SUBSET Server : Kept(object, c, on, harm, bad)
        BY <1>0, <1>1, <2>1, <3>1 DEF PutClaims, Claimed
      <3>3. put.chunk = 0
        BY <1>0, <1>1, <2>1, <3>1 DEF PutPlaced, Only
      <3>4. Kept(object, c, after, harm, bad)
        BY <1>0, <1>1, <1>8, <2>3, <3>1, <3>2, <3>3, StatusKeeps
      <3>5. Harm' = Harm
        BY <1>0, <2>1, TroublesStay
      <3>6. Kept(object, c, after, harm, bad)'
        BY <2>1, <3>4, <3>5 DEF Kept, Files, EntryAt
      <3> QED
        BY <3>6
    <2>5. Claimed(object, c, after, harm)'
      BY <2>4 DEF Claimed
    <2> QED
      BY <1>0, <2>1, <2>2, <2>3, <2>5, ShownNext DEF PutClaims
  <1>9. CASE ShowStatus
    <2>1. /\ put.state = "polling" /\ put' = Idle
          /\ shown' = [object |-> object, content |-> c, on |-> on, harm |-> harm]
      BY <1>1, <1>9 DEF ShowStatus
    <2>2. /\ shown'.object = object /\ shown'.content = c
          /\ shown'.on = on /\ shown'.harm = harm /\ put'.state = "idle"
      BY <2>1 DEF Idle
    <2>3. <<object, c>> \in puts' /\ Claimed(object, c, on, harm)'
      BY <1>0, <1>3, <2>1
    <2> QED
      BY <2>2, <2>3 DEF PutClaims, ShownClaims
  <1> QED
    BY <1>4, <1>5, <1>6, <1>7, <1>8, <1>9 DEF PutNext

(* With one content put under the name, nobody answers with another.       *)
LEMMA OnlyOutvotes ==
  ASSUME HeldInv, NEW c, Only(get.object, c), NEW good \in SUBSET Server, good # {},
         get.state = "retrieving"
  PROVE  Outvoted(c, good)
  <1> SUFFICES ASSUME NEW v \in Version, v # Piece(c, Len(get.chunks))
               PROVE  Cardinality({s \in Server : get.replies[s] = v}) < Cardinality(good)
    BY DEF Outvoted
  <1>1. /\ Len(get.chunks) \in Nat
        /\ \A s \in Server : get.replies[s] \in Version =>
               Placed(chunk_key(get.object, Len(get.chunks)), get.replies[s])
    BY DEF HeldInv, ObjectsInv, ObjectsTypeOK, Getter, GetPlaced
  <1>2. {s \in Server : get.replies[s] = v} = {}
    BY <1>1, OnlyPiece DEF HeldInv
  <1>3. IsFiniteSet(good) /\ Cardinality(good) \in Nat /\ Cardinality(good) # 0
    BY BadType, FS_EmptySet
  <1>4. Cardinality({s \in Server : get.replies[s] = v}) = 0
    BY <1>2, FS_EmptySet
  <1> QED
    BY <1>3, <1>4

LEMMA KeptGood ==
  ASSUME HeldInv, NEW object, NEW c, NEW on \in SUBSET Server, NEW harm \in Nat,
         NEW bad \in SUBSET Server, Kept(object, c, on, harm, bad),
         Cardinality(on) - (Harm - harm) >= Needed
  PROVE  Cardinality(on \ bad) >= Needed /\ on \ bad # {}
  <1>1. /\ Harm \in Nat /\ Cardinality(bad) + harm <= Harm
    BY TroublesType DEF HeldInv, ObjectsInv, ObjectsTypeOK, Kept
  <1>2. Needed \in Nat /\ Needed > 0
    BY NeededType
  <1>3. IsFiniteSet(on) /\ IsFiniteSet(bad) /\ on \cap bad \in SUBSET Server
    BY BadType
  <1>4. /\ Cardinality(on) \in Nat /\ Cardinality(bad) \in Nat
        /\ Cardinality(on \cap bad) \in Nat /\ Cardinality(on \ bad) \in Nat
    <2>1. on \ bad \in SUBSET Server
      OBVIOUS
    <2> QED
      BY <1>3, <2>1, BadType
  <1>5. Cardinality(on \ bad) = Cardinality(on) - Cardinality(on \cap bad)
    BY <1>3, FS_Difference
  <1>6. Cardinality(on \cap bad) <= Cardinality(bad)
    BY <1>3, FS_Subset
  <1>7. Cardinality(on \ bad) >= Needed
    BY <1>1, <1>2, <1>4, <1>5, <1>6
  <1> QED
    BY <1>2, <1>7, FS_EmptySet

(* What a step of a get that was told of a report keeps of it.             *)
LEMMA TrackedGet ==
  ASSUME HeldInv, HeldInv', NEW object, NEW c, Only(object, c), object = get.object,
         NEW on \in SUBSET Server, NEW harm \in Nat, NEW bad \in SUBSET Server,
         ReportTracked(object, c, on, harm, bad),
         \/ \E s \in Server : Reply(s) \/ ReplyRaises(s)
         \/ Probed \/ Retrieved \/ RetrieveFails
  PROVE  \E more \in SUBSET Server : ReportTracked(object, c, on, harm, more)'
  <1>0. /\ spent \in [Trouble -> Nat] /\ Harm \in Nat /\ Harm' \in Nat /\ Harm' >= Harm
        /\ UNCHANGED slot /\ c \in Content
    <2>1. GetNext
      BY DEF GetNext
    <2>2. c \in Content
      BY OnlyContent DEF HeldInv
    <2> QED
      BY <2>1, <2>2, GetChange, TroublesType, TroublesNext
         DEF HeldInv, ObjectsInv, ObjectsTypeOK
  <1>1. /\ Cardinality(bad) + harm <= Harm /\ Cardinality(bad) \in Nat
        /\ Files(object, c, on \ bad)
    BY BadType DEF ReportTracked, Kept
  <1>2. \A more : bad \subseteq more => Files(object, c, on \ more)'
    BY <1>0, <1>1 DEF Files, EntryAt
  <1>3. ASSUME Cardinality(on) - (Harm' - harm) >= Needed
        PROVE  /\ Cardinality(on \ bad) >= Needed /\ on \ bad # {}
               /\ Track(get, c, on \ bad)
    <2>1. Cardinality(on) \in Nat /\ Needed \in Nat
      BY BadType, NeededType
    <2>2. Cardinality(on) - (Harm - harm) >= Needed
      BY <1>0, <1>3, <2>1
    <2> QED
      BY <2>2, KeptGood DEF ReportTracked
  <1>4. ASSUME NEW s \in Server, ReplyRaises(s)
        PROVE  ReportTracked(object, c, on, harm, bad \cup {s})'
    <2>1. Harm' = Harm + 1
      BY <1>0, <1>4, SpendCounts DEF ReplyRaises, Trouble
    <2>2. Cardinality(bad \cup {s}) \in Nat
      <3>1. bad \cup {s} \in SUBSET Server
        OBVIOUS
      <3> QED
        BY <3>1, BadType
    <2>3. Cardinality(bad \cup {s}) <= Cardinality(bad) + 1
      BY BadType
    <2>4. Cardinality(bad \cup {s}) + harm <= Harm'
      BY <1>0, <1>1, <2>1, <2>2, <2>3
    <2>5. ASSUME Cardinality(on) - (Harm' - harm) >= Needed
          PROVE  Track(get', c, on \ (bad \cup {s}))
      <3>1. Track(get', c, (on \ bad) \ {s})
        BY <1>0, <1>3, <1>4, <2>5, TrackRaises
      <3>2. (on \ bad) \ {s} = on \ (bad \cup {s})
        OBVIOUS
      <3> QED
        BY <3>1, <3>2
    <2>6. Files(object, c, on \ (bad \cup {s}))'
      BY <1>2
    <2> QED
      BY <2>4, <2>5, <2>6 DEF ReportTracked, Kept
  <1>5. CASE (\E s \in Server : Reply(s)) \/ Probed \/ Retrieved \/ RetrieveFails
    <2>1. ASSUME Cardinality(on) - (Harm' - harm) >= Needed
          PROVE  Track(get', c, on \ bad)
      <3> DEFINE good == on \ bad
      <3>1. /\ good \in SUBSET Server /\ good # {} /\ Cardinality(good) >= Needed
            /\ Track(get, c, good) /\ Files(get.object, c, good)
        BY <1>1, <1>3, <2>1
      <3> HIDE DEF good
      <3>2. CASE \E s \in Server : Reply(s)
        BY <1>0, <3>1, <3>2, TrackReply DEF good
      <3>3. CASE Probed
        BY <1>0, <3>1, <3>3, OnlyIsLongest, TrackProbed DEF good
      <3>4. CASE Retrieved \/ RetrieveFails
        <4>1. get.state = "retrieving"
          BY <3>4 DEF Retrieved, RetrieveFails
        <4>2. Outvoted(c, good)
          BY <3>1, <4>1, OnlyOutvotes
        <4> QED
          BY <1>0, <3>1, <3>4, <4>2, TrackRetrieved DEF good
      <3> QED
        BY <1>5, <3>2, <3>3, <3>4
    <2>2. Cardinality(bad) + harm <= Harm'
      BY <1>0, <1>1
    <2>3. Files(object, c, on \ bad)'
      BY <1>2
    <2>4. ReportTracked(object, c, on, harm, bad)'
      BY <2>1, <2>2, <2>3 DEF ReportTracked, Kept
    <2> QED
      BY <2>4
  <1>6. \A s \in Server : bad \cup {s} \in SUBSET Server
    OBVIOUS
  <1> QED
    BY <1>4, <1>5, <1>6

LEMMA GetClaimsGet ==
  ASSUME ReportInv, HeldInv', GetNext
  PROVE  GetClaims'
  <1>0. /\ ObjectsInv /\ HeldInv /\ get \in Getter /\ shown \in Report
        /\ spent \in [Trouble -> Nat] /\ UNCHANGED <<slot, puts>>
    BY GetChange DEF ReportInv, HeldInv, ObjectsInv, ObjectsTypeOK
  <1>1. ASSUME NEW key \in Object \cup Key,
               GetBegin(key) \/ \E k \in 0..MaxChunks : GetCounted(key, k)
        PROVE  GetClaims'
    <2>1. UNCHANGED spent
      BY <1>1 DEF GetBegin, GetCounted, history
    <2>2. /\ get' \in Getter /\ get'.chunks = <<>> /\ get'.replies = NoReplies
          /\ \/ get'.report = NoReport
             \/ /\ get'.report = shown /\ shown.object = get'.object
                /\ \/ get'.state = "probing" /\ get'.count = 0
                   \/ get'.state = "retrieving" /\ get'.count = Chunks[shown.content]
      BY <1>0, <1>1, GetBegun
    <2>3. PICK r \in Report : r = shown
      BY <1>0
    <2>4. CASE get'.report # NoReport
      <3>1. /\ <<r.object, r.content>> \in puts /\ Claimed(r.object, r.content, r.on, r.harm)
        BY <2>2, <2>3, <2>4 DEF ReportInv, ShownClaims
      <3>2. ASSUME Only(r.object, r.content)'
            PROVE  \E bad \in SUBSET Server :
                      ReportTracked(r.object, r.content, r.on, r.harm, bad)'
        <4>1. Only(r.object, r.content) /\ Harm' = Harm
          BY <1>0, <2>1, <3>2, TroublesStay DEF Only
        <4>2. PICK bad \in SUBSET Server : Kept(r.object, r.content, r.on, r.harm, bad)
          BY <3>1, <4>1 DEF Claimed
        <4>3. Kept(r.object, r.content, r.on, r.harm, bad)'
          BY <1>0, <4>1, <4>2 DEF Kept, Files, EntryAt
        <4>4. r.content \in Content /\ r.on \ bad \in SUBSET Server /\ Chunks[r.content] = 1
          BY <1>0, <3>1, <4>1 DEF ObjectsInv, ObjectsTypeOK, Report, Only
        <4>5. Track(get', r.content, r.on \ bad)
          BY <2>2, <2>3, <2>4, <4>4, TrackBegin
        <4> QED
          BY <4>3, <4>5 DEF ReportTracked
      <3>3. get'.report = r /\ get'.object = r.object
        BY <2>2, <2>3, <2>4
      <3> QED
        BY <1>0, <3>1, <3>2, <3>3 DEF GetClaims
    <2> QED
      BY <2>4 DEF GetClaims
  <1>2. CASE \/ \E s \in Server : Reply(s) \/ ReplyRaises(s)
             \/ Probed \/ Retrieved \/ RetrieveFails
    <2>1. get'.object = get.object /\ get'.report = get.report
      BY <1>0, <1>2, GetGoesOn
    <2>2. PICK r \in Report : r = get.report /\ r = get'.report
      BY <1>0, <2>1 DEF Getter
    <2>3. CASE r # NoReport
      <3>1. /\ <<r.object, r.content>> \in puts /\ r.object = get.object
            /\ Only(r.object, r.content) => \E bad \in SUBSET Server :
                  ReportTracked(r.object, r.content, r.on, r.harm, bad)
        BY <2>2, <2>3 DEF ReportInv, GetClaims
      <3>2. r.on \in SUBSET Server /\ r.harm \in Nat
        BY DEF Report
      <3>3. ASSUME Only(r.object, r.content)'
            PROVE  \E bad \in SUBSET Server :
                      ReportTracked(r.object, r.content, r.on, r.harm, bad)'
        <4>1. Only(r.object, r.content)
          BY <1>0, <3>3 DEF Only
        <4>2. PICK bad \in SUBSET Server :
                ReportTracked(r.object, r.content, r.on, r.harm, bad)
          BY <3>1, <4>1
        <4> QED
          BY <1>0, <1>2, <3>1, <3>2, <4>1, <4>2, TrackedGet
      <3> QED
        BY <1>0, <2>1, <2>2, <3>1, <3>3 DEF GetClaims
    <2> QED
      BY <2>2, <2>3 DEF GetClaims
  <1> QED
    BY <1>1, <1>2 DEF GetNext

LEMMA NextReportInv == ReportInv /\ [ObjectsNext]_objVars => ReportInv'
  <1> SUFFICES ASSUME ReportInv, [ObjectsNext]_objVars PROVE ReportInv'
    OBVIOUS
  <1>1. /\ HeldInv /\ HeldInv' /\ ObjectsInv /\ put \in Putter
        /\ PutClaims /\ ShownClaims /\ GetClaims
    BY NextHeldInv DEF ReportInv, HeldInv, ObjectsInv, ObjectsTypeOK
  <1>2. ASSUME UNCHANGED <<put, shown>>, puts \subseteq puts', Calm \/ \E s \in Server : Hurt(s)
        PROVE  PutClaims' /\ ShownClaims'
    <2>1. ShownClaims'
      BY <1>1, <1>2, ShownNext
    <2>2. PICK object, c, on, harm :
            object = put.object /\ c = put.content /\ on = put.on /\ harm = put.harm
      OBVIOUS
    <2>0. on \in SUBSET Server /\ harm \in Nat
      BY <1>1, <2>2 DEF Putter
    <2>3. ASSUME put.state = "polling" PROVE Claimed(object, c, on, harm)'
      <3>1. <<object, c>> \in puts /\ Claimed(object, c, on, harm)
        BY <1>1, <2>2, <2>3 DEF PutClaims, ObjectsInv, PutPlaced
      <3> QED
        BY <1>1, <1>2, <2>0, <3>1, ClaimedNext
    <2>4. PutClaims'
      BY <1>1, <1>2, <2>2, <2>3 DEF PutClaims
    <2> QED
      BY <2>1, <2>4
  <1>3. CASE ServersNext
    BY <1>1, <1>2, <1>3, ServersChange, GetClaimsNext DEF ReportInv
  <1>4. CASE PutNext
    BY <1>1, <1>4, PutChange, PutClaimsNext, GetClaimsNext DEF ReportInv
  <1>5. ASSUME UNCHANGED slot, spent \in [Trouble -> Nat], UNCHANGED spent PROVE Calm
    BY <1>5, Unspent DEF Onward
  <1>6. CASE GetNext
    <2>1. UNCHANGED <<slot, put, shown, puts>> /\ Harm' >= Harm /\ Troubles' >= Troubles
      BY <1>1, <1>6, GetChange
    <2>2. Calm
      BY <2>1 DEF Calm, Onward
    <2> QED
      BY <1>1, <1>2, <1>6, <2>1, <2>2, GetClaimsGet DEF ReportInv
  <1>7. CASE UNCHANGED objVars
    <2>1. UNCHANGED <<slot, put, get, shown, puts, spent>>
      BY <1>7 DEF objVars, history
    <2>2. Calm
      BY <1>1, <1>5, <2>1 DEF ObjectsInv, ObjectsTypeOK
    <2> QED
      BY <1>1, <1>2, <2>1, <2>2, GetClaimsNext DEF ReportInv
  <1> QED
    BY <1>3, <1>4, <1>6, <1>7 DEF ObjectsNext

LEMMA InitReportInv == ObjectsInit => ReportInv
  BY InitHeldInv DEF ReportInv, ObjectsInit, InitClients, InitGet, PutClaims, ShownClaims,
     GetClaims, Idle, IdleGet

(* A file of one chunk that the CLI reported as stored can be got back, for  *)
(* any number of servers, objects and puts, as long as it is the only        *)
(* content put under its name and enough of the servers it was reported on   *)
(* had no call that raised, torn write or reset since, however often any of  *)
(* them restarted, is sent the file again and handles calls of older puts.   *)
THEOREM ReportedIsRetrievableCorrect == ObjectsSpec => []ReportedIsRetrievable
  <1>1. ReportInv => ReportedIsRetrievable
    <2> DEFINE r == get.report
               c == r.content
    <2> SUFFICES ASSUME ReportInv, Successful(r), Chunks[c] = 1,
                        {p \in puts : p[1] = get.object} = {<<get.object, c>>},
                        Remaining(r) >= Needed
                 PROVE  get.state # "failed" /\ (get.state = "got" => get.chunks = Whole(c))
      BY DEF ReportedIsRetrievable
    <2>1. r # NoReport
      <3>1. Cardinality(r.on) # 0
        BY NeededType DEF Successful
      <3> QED
        BY <3>1, FS_EmptySet DEF NoReport
    <2>2. Only(r.object, c) /\ r.object = get.object
          /\ \E bad \in SUBSET Server : ReportTracked(r.object, c, r.on, r.harm, bad)
      BY <2>1 DEF ReportInv, GetClaims, Only
    <2>3. \E good : Track(get, c, good)
      BY <2>2 DEF ReportTracked, Remaining
    <2>4. HeldInv /\ c \in Content
      BY <2>2, OnlyContent DEF ReportInv, HeldInv
    <2> QED
      BY <2>3, <2>4, TrackIsWhole
  <1> QED
    BY <1>1, InitReportInv, NextReportInv, PTL DEF ObjectsSpec
===============================================================================
