------------------------------ MODULE MCObjects ------------------------------
(* Instances of Objects for TLC.                                             *)
EXTENDS Objects, TLC

CONSTANTS s1, s2, s3, short, long

ThreeServers == {s1, s2, s3}
OneName == {<<"a">>}

(* An empty file has one chunk as well.                                      *)
ChunksOf == [c \in Content |-> IF c = long THEN 2 ELSE 1]

KeysOnServers == Key \X Server
Pieces == UNION {{Piece(c, i) : i \in 0..(Chunks[c] - 1)} : c \in Content}

Symmetry == Permutations(Server)

-----------------------------------------------------------------------------
(* Name "a" after a put of c: every server was sent every chunk of it, and   *)
(* the servers `on` have stored them. No other put, or one of e.             *)
Holding(v, stored) ==
    [held |-> v, stored |-> stored, file |-> IF stored THEN v ELSE None]

AfterPut(c, on) ==
    /\ slot = [p \in Place |->
           IF p[1] \in {chunk_key(<<"a">>, i) : i \in 0..(Chunks[c] - 1)}
           THEN Holding(Piece(c, p[1][2]), p[2] \in on) ELSE Empty]
    /\ puts = {<<<<"a">>, c>>}

NoPut == left = [c \in Content |-> 0]
OnePut(e) == left = [c \in Content |-> IF c = e THEN 1 ELSE 0]

(* Long is stored everywhere, and there may be another put.                  *)
InitStored ==
    /\ AfterPut(long, Server)
    /\ InitClients
    /\ \E e \in Content : OnePut(e)

(* Short is stored somewhere, and the client is about to ask for the status. *)
InitPolling ==
    /\ \E on \in SUBSET Server : AfterPut(short, on)
    /\ NoPut
    /\ InitGet
    /\ put = [Idle EXCEPT !.state = "polling", !.object = <<"a">>, !.content = short,
                          !.waiting = Server]
    /\ shown = NoReport

(* Short was reported as stored everywhere, and may be put again.            *)
InitReported ==
    /\ AfterPut(short, Server)
    /\ OnePut(short)
    /\ InitGet
    /\ put = Idle
    /\ shown = [object |-> <<"a">>, content |-> short, on |-> Server, harm |-> 0]

SpecAfterPut == (InitStored \/ InitPolling \/ InitReported) /\ [][ObjectsNext]_objVars
=============================================================================
