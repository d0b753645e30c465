-------------------------- MODULE MCOutboxRuntime --------------------------
(* An instance of OutboxRuntime: two rows for one recipient. *)
EXTENDS OutboxRuntime, TLC

CONSTANT bob

BothToBob == (1 :> bob) @@ (2 :> bob)
=============================================================================
