--------------------------- MODULE MCPeerSessions ---------------------------
(* Instances of PeerSessions: one other account with two devices, or one other and one own device. *)
EXTENDS PeerSessions, TLC

CONSTANTS alice, bob, p1, p2

OwnAndOther == (p1 :> alice) @@ (p2 :> bob)
OtherOnly == p2 :> bob
Interchangeable == Permutations(Verifies) \cup Permutations(Conns)
=============================================================================
