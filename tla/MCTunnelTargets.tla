--------------------------- MODULE MCTunnelTargets ---------------------------
(* Instances of TunnelTargets for TLC. *)
EXTENDS TunnelTargets

CONSTANTS a, b   \* backend addresses
TwoBackends == {a, b}
=============================================================================
