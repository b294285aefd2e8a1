--------------------------- MODULE MCWsConnection ---------------------------
(* Instances of WsConnection for TLC. *)
EXTENDS WsConnection, TLC

CONSTANTS t1, t2

MCThreads == {t1, t2}
=============================================================================
