--------------------------- MODULE MCMotorInference ---------------------------
(* Instances of MotorInference for TLC. *)
EXTENDS MotorInference

Positions == 0..2
Predictions == 1..3
=============================================================================
