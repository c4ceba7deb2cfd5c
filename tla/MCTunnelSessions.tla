-------------------------- MODULE MCTunnelSessions ---------------------------
(* Instances of TunnelSessions for TLC. *)
EXTENDS TunnelSessions

TwoLists == {<<>>, <<"a", "b", "c">>}
=============================================================================
