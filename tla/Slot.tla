-------------------------------- MODULE Slot --------------------------------
(***************************************************************************)
(* What a server does with a key, seen from outside the protocol: it holds *)
(* the last content it was sent, commits it to a file when the protocol    *)
(* lets it (at any time or never, here), and from then on ignores contents *)
(* it is sent, until it loses its memory or a debug endpoint is called.    *)
(* AvidSlot states that the servers of AvidServer do no more than this;    *)
(* Objects builds objects of several chunks on it.                         *)
(***************************************************************************)
CONSTANTS
    Place,      \* what keeps an entry: the servers, or keys on servers
    Version,    \* contents
    None,
    Torn        \* a file whose write was cut short

VARIABLE slot

Entry == [held : Version \cup {None},           \* in memory
          stored : BOOLEAN,                     \* KeyState.stored
          file : Version \cup {None, Torn}]     \* on disk

Empty == [held |-> None, stored |-> FALSE, file |-> None]

Init == slot = [p \in Place |-> Empty]

Becomes(p, held, stored, file) ==
    slot' = [slot EXCEPT ![p] = [held |-> held, stored |-> stored, file |-> file]]

(* POST /disperse of v, accepted or not.                                   *)
Hold(p, v) ==
    /\ ~slot[p].stored
    /\ Becomes(p, v, FALSE, slot[p].file)

Commit(p) ==
    /\ ~slot[p].stored
    /\ slot[p].held # None
    /\ Becomes(p, slot[p].held, TRUE, slot[p].held)

(* The process ends, between two commits or inside one.                    *)
Forget(p) == Becomes(p, None, FALSE, slot[p].file)
Tear(p) ==
    /\ ~slot[p].stored
    /\ slot[p].held # None
    /\ Becomes(p, None, FALSE, Torn)

(* /lie loads the file of a server that does not serve from memory.        *)
Load(p) ==
    /\ slot[p].file \in Version
    /\ Becomes(p, slot[p].file, TRUE, slot[p].file)

(* /corrupt and /reset.                                                    *)
OptOut(p) ==
    /\ slot[p].stored
    /\ Becomes(p, slot[p].held, FALSE, slot[p].file)
Wipe(p) == Becomes(p, None, FALSE, None)

Next ==
    \E p \in Place :
        \/ \E v \in Version : Hold(p, v)
        \/ Commit(p)
        \/ Forget(p)
        \/ Tear(p)
        \/ Load(p)
        \/ OptOut(p)
        \/ Wipe(p)

Spec == Init /\ [][Next]_slot
=============================================================================
