------------------------------- MODULE Metrics -------------------------------
(***************************************************************************)
(* What a server of AvidServer tells GET /metrics that it stores. The      *)
(* counter is in the memory of the process: it starts from 0 in a restart, *)
(* and neither /reset nor a file that is there already changes it.         *)
(***************************************************************************)
EXTENDS AvidServer

VARIABLE stored_objects_total

metricsVars == <<vars, stored_objects_total>>

(* The step is a /ready whose _try_store commits; /lie sets stored as well *)
(* and does not count.                                                     *)
Stores(s) ==
    \E m \in readys \cup FromByzantine :
        m.to = s /\ Commits(AfterReady(m)) /\ ReceiveReady(m)

MetricsInit == Init /\ stored_objects_total = [s \in Correct |-> 0]

MetricsNext ==
    /\ Next
    /\ stored_objects_total' = [s \in Correct |->
           IF s \notin up' THEN 0
           ELSE stored_objects_total[s] + (IF Stores(s) THEN 1 ELSE 0)]

MetricsSpec == MetricsInit /\ [][MetricsNext]_metricsVars

-----------------------------------------------------------------------------
(* metrics.py:33 "Total objects durably stored on this server": a server   *)
(* that was left alone has counted its file of the key exactly once,       *)
(* however often READY arrives again.                                     *)
StoredIsCounted ==
    \A s \in Correct \ disturbed :
        stored_objects_total[s] = (IF disk[s] \in File THEN 1 ELSE 0)
=============================================================================
