------------------------- MODULE MCControllerBridge -------------------------
(* Instances of ControllerBridge for TLC. *)
EXTENDS ControllerBridge, TLC

\* Connections and ICU clients have no identity in the code.
Symmetry == Permutations(Conn) \cup Permutations(ICU)
=============================================================================
