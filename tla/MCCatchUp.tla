----------------------------- MODULE MCCatchUp -----------------------------
(* Instances of CatchUp: one holder, messages of one or two senders. *)
EXTENDS CatchUp, TLC

CONSTANTS m1, m2, m3, bob, carol

TwoSenders == (m1 :> bob) @@ (m2 :> carol) @@ (m3 :> bob)
OneSender  == (m1 :> bob) @@ (m2 :> bob)
Interchangeable == Permutations(Jobs)
=============================================================================
