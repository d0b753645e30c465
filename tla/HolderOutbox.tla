----------------------------- MODULE HolderOutbox -----------------------------
(***************************************************************************)
(* One message in the outboxes of the command-line devices (holders) of    *)
(* the sender's account: acceptHandoff in cli/src/sync.ts and deliverOne   *)
(* in cli/src/outbox.ts over the SQLite table of cli/src/outbox-store.ts.  *)
(* Every step of a holder is keyed by the message id, so one message is    *)
(* enough; the loop that picks rows and times retries is another matter.   *)
(***************************************************************************)
EXTENDS Integers, FiniteSets

CONSTANTS
  Holders,   \* command-line devices of the account, by peer id
  NoHolder   \* null

ASSUME HoldersAssumption == NoHolder \notin Holders

VARIABLES
  rows,   \* the outbox row of each holder: "none" or its status
  stored  \* has a device of the recipient durably stored the message?

outboxVars == <<rows, stored>>

OutboxTypeOK ==
  /\ rows \in [Holders -> {"none", "queued", "sent", "failed"}]
  /\ stored \in BOOLEAN

OutboxInit ==
  /\ rows = [h \in Holders |-> "none"]
  /\ stored = FALSE

(* store.enqueue is idempotent by id: an existing row is returned as it is. *)
Enqueue(h) ==
  rows' = IF rows[h] = "none" THEN [rows EXCEPT ![h] = "queued"] ELSE rows

(* A terminal failed row must not look like a hold. *)
Refuses(h) == rows[h] = "failed"

(* deliverOne: the recipient stores the message, then answers; the row is  *)
(* sent once its ACK is read. It stays queued if the ACK is lost, or if    *)
(* the process dies or the write fails after the ACK.                      *)
Deliver(h, acked) ==
  /\ rows[h] = "queued"
  /\ stored' = TRUE
  /\ IF acked THEN rows' = [rows EXCEPT ![h] = "sent"] ELSE UNCHANGED rows

(* The recipient's handle resolves to another account. *)
GiveUp(h) ==
  /\ rows[h] = "queued"
  /\ rows' = [rows EXCEPT ![h] = "failed"]
  /\ UNCHANGED stored
=============================================================================
