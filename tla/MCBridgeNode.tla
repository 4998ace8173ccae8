----------------------------- MODULE MCBridgeNode -----------------------------
(* BridgeNode with two devices that tell their lists and a third one. *)
EXTENDS BridgeNode

MCPeer == {1, 2, 3}
MCTeller == {1, 2}
MCMovable == {3}
MCMovables == {2, 3}
=============================================================================
