------------------------------ MODULE MCAvidSlot ------------------------------
(* Instances of AvidSlot and Metrics for TLC.                                  *)
EXTENDS AvidSlot, Metrics, MCAvidServer
===============================================================================
