----------------------------- MODULE MCFrameStats -----------------------------
(* Instances of FrameStats for TLC. *)
EXTENDS FrameStats

\* The controller's clock may be ahead: transfer times may all be negative.
TransferTimes == {-2, -1, 1}
ProcessingTimes == 0..1
=============================================================================
