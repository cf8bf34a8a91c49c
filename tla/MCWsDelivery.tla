--------------------------- MODULE MCWsDelivery ---------------------------
(* The instance of WsDelivery for TLC.  No symmetry: the run has liveness   *)
(* properties.                                                              *)
EXTENDS WsDelivery, TLC
=============================================================================
