------------------------------ MODULE MCDelivery ------------------------------
EXTENDS Delivery, TLC

MCSymmetry == Permutations(Holders) \cup Permutations(Slots)

(* The recipient is away, so only a holder can deliver.                    *)
AwayNext == Next /\ \A s \in Slots : sends'[s].direct # "stored"

(* The send has ended and some holder has the message, or is thought to    *)
(* have it.                                                                *)
HeldInit ==
  \E h \in Holders :
    /\ status = "held" /\ holderPeerId = h /\ strandedIn = 0
    /\ \/ rows = [k \in Holders |-> IF k = h THEN "queued" ELSE "none"] /\ lateRequests = {}
       \/ rows = [k \in Holders |-> "none"] /\ lateRequests = {h}
    /\ roster = Holders /\ unlinked = {} /\ lastKnownHolderPeerIds = Holders
    /\ generation = 1 /\ running = TRUE /\ recovering = FALSE
    /\ sends = [s \in Slots |-> IdleSend]
    /\ handoff = NoHandoff
    /\ reconciles = [g \in Generations |-> IdleReconcile]
    /\ retries = 0 /\ stored = FALSE

HeldWhileAway ==
  HeldInit /\ [][AwayNext]_vars /\ Fairness
=============================================================================
