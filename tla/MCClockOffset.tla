---------------------------- MODULE MCClockOffset ----------------------------
(* Instances of ClockOffset for TLC. *)
EXTENDS ClockOffset

\* The controller's clock may be ahead of the bridge's.
Transfers == -1..1
=============================================================================
