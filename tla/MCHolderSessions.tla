-------------------------- MODULE MCHolderSessions --------------------------
(* Instances of HolderSessions: one connection of one peer, an inbound and an outbound stream. *)
EXTENDS HolderSessions, TLC

CONSTANTS alice, bob, p1

OnlyBob == p1 :> bob
=============================================================================
