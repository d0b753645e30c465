------------------------------ MODULE DeviceLink ------------------------------
(***************************************************************************)
(* Linking and removing a CLI: the phone, the CLI, the API and the chain.  *)
(* The phone persists an approval, sends it to the CLI over the pairing    *)
(* stream, submits it once the CLI has saved it, and both watch the API    *)
(* and the registry for its outcome.                                       *)
(***************************************************************************)
EXTENDS PhoneActions, CliLink

ASSUME StreamAssumption == Handlers = Flows

vars == <<serviceVars, phoneVars, cliVars>>

TypeOK == ServiceTypeOK /\ PhoneTypeOK /\ CliTypeOK

Init == ServiceInit /\ PhoneInit /\ CliInit

\* The offer is scanned and the handshake done.
ScanOffer(f) ==
    /\ Paired(cli.key)
    /\ BeginLink(f, cli.key)
    /\ UNCHANGED cliVars

\* sendPairingApproval.  A flow that began with an earlier session of the same key is let
\* through as well: it does what a flow that starts now and resumes does.
SendApproval(f) ==
    /\ At(f, "send")
    /\ Receive(f, flows[f].rec)
    /\ Goto(f, "sent")
    /\ UNCHANGED <<slot, call>>
\* approvalSaved reaches the phone.
ApprovalSaved(f) ==
    /\ At(f, "sent")
    /\ Replied(f)
    /\ Goto(f, "mark")
    /\ UNCHANGED <<slot, call>>

Next ==
    \/ ServiceStep /\ UNCHANGED <<phoneVars, cliVars>>
    \/ CliStep /\ UNCHANGED phoneVars
    \/ \E f \in Flows : \/ PhoneStep(f) /\ UNCHANGED cliVars
                        \/ ScanOffer(f) \/ SendApproval(f) \/ ApprovalSaved(f)

Spec == Init /\ [][Next]_vars

-----------------------------------------------------------------------------
(* Properties.                                                             *)

\* May the registry still execute it?
Alive(d) == Executable(d) /\ (d \in DOMAIN rows => rows[d] = "active")

\* Approvals somebody holds who would store, submit or execute them.
Out == ({slot.rec, approval} \cup {handlers[h].rec : h \in Handlers} \cup posted) \ {NoApproval}

\* "Before permitting a replacement approval, establish that the old intent cannot execute": of
\* the approvals that phone, CLI and API hold, at most one can still be executed, whatever was
\* read late, sent twice or cleared (occupiesApprovalSlot).
OneApprovalOut == \A d, e \in Out : Alive(d) /\ Alive(e) => d = e

\* An addition the API may have was saved by the CLI first, also when the phone runs two flows
\* (persistApproval, markAcknowledged and submitAcknowledged lock each for itself).
SubmittedIsSaved == \A d \in posted : d.op = "add" => d \in saved

\* A key that is active is the key of device.key: the CLI never rotates a key away that the
\* registry has added, or still will (the comment on API `confirmed` in readEnrollmentState).
NoOrphanKey ==
    /\ \A k \in account.active : k = secret
    /\ \A d \in Out : d.op = "add" /\ Alive(d) => d.key = secret

\* The phone reports `removed` only of a key that the registry removed.
RemovedIsTrue ==
    Stored /\ call.by # NoFlow /\ SlotMembership = "removed" => slot.rec.key \in account.removed
===============================================================================
