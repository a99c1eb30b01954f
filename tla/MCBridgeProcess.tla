--------------------------- MODULE MCBridgeProcess ---------------------------
(* Instances of BridgeProcess for TLC. *)
EXTENDS BridgeProcess

Unit == <<8081, 8080, "crt", "key", "tflite", "vx_delegate", "csv">>

\* As the unit file has it; without a log; with the defaults; a port of 0; a certificate
\* without its key.
ArgLists == {Unit, [Unit EXCEPT ![7] = ""], <<>>, <<8081, 0>>, SubSeq(Unit, 1, 3)}
=============================================================================
