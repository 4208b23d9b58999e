--------------------------- MODULE MCRemoteServer ---------------------------
(* Instances of RemoteServer for TLC.                                       *)
EXTENDS RemoteServer

CONSTANTS w1, w2, d1, d2
=============================================================================
