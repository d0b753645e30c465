---------------------------- MODULE PhoneActions ----------------------------
(***************************************************************************)
(* The phone's side of linking and removing a device: the one stored       *)
(* action of mobile/src/lib/local-device-action-core.ts and the flows of   *)
(* device-link-flow-core.ts over it.  An operation on the stored action    *)
(* holds a lock while it asks the API and the registry and writes.  The    *)
(* lock is all that keeps flows apart: the guards of the screens are their *)
(* own, and a flow goes on when its screen is closed.  A flow may end      *)
(* anywhere (a failure, a timeout, the app's death); the action stays.     *)
(*                                                                         *)
(* The membership that a refresh writes is left out of the stored action:  *)
(* only the screens read it (SlotMembership).                              *)
(***************************************************************************)
EXTENDS ActionService

CONSTANTS Flows, NoFlow    \* the flows there will be: each runs once

ASSUME FlowAssumption == NoFlow \notin Flows

VARIABLES slot,          \* the stored action (STORAGE_KEY)
          flows,         \* completeDeviceLink and completeDeviceRemove, as they run
          call           \* the holder of the lock, and what the API answered it

phoneVars == <<slot, flows, call>>

EmptySlot == [rec |-> NoApproval, acknowledged |-> FALSE, apiStatus |-> "none",
              historicallyAdded |-> FALSE, submitted |-> FALSE]
NewFlow   == [pc |-> "new", op |-> "add", key |-> NoKey, rec |-> NoApproval]
NoCall    == [by |-> NoFlow, answer |-> "unknown"]

Refreshes == {"resume", "persist", "poll"}

PhoneTypeOK ==
    /\ slot \in [rec : Approvals \cup {NoApproval}, acknowledged : BOOLEAN,
                 apiStatus : {"none"} \cup Statuses, historicallyAdded : BOOLEAN, submitted : BOOLEAN]
    /\ flows \in [Flows -> [pc : Refreshes \cup {"new", "sign", "send", "sent", "mark", "submit", "done"},
                            op : {"add", "remove"}, key : Keys \cup {NoKey},
                            rec : Approvals \cup {NoApproval}]]
    /\ call \in [by : Flows \cup {NoFlow}, answer : {"missing", "unknown"} \cup Statuses]
    /\ slot.submitted => slot.acknowledged

PhoneInit ==
    /\ slot = EmptySlot
    /\ flows = [f \in Flows |-> NewFlow]
    /\ call = NoCall

At(f, pc)   == flows[f].pc = pc
Goto(f, pc) == flows' = [flows EXCEPT ![f].pc = pc]
\* The flow goes on with the stored action, whichever it is.
Follow(f, pc) == flows' = [flows EXCEPT ![f] = [NewFlow EXCEPT !.pc = pc]]
End(f)      == Follow(f, "done")
Unlock      == call' = NoCall

\* The user approves the key the CLI offers, or removes one the roster shows.
Begin(f, op, key) ==
    /\ At(f, "new")
    /\ flows' = [flows EXCEPT ![f] = [NewFlow EXCEPT !.pc = "resume", !.op = op, !.key = key]]
    /\ UNCHANGED <<serviceVars, slot, call>>
BeginLink(f, k)   == Begin(f, "add", k)
BeginRemove(f, k) == k \in phoneView.active /\ Begin(f, "remove", k)

-----------------------------------------------------------------------------
(* refreshStored: the API is asked, then the registry.                     *)

Ask(f) ==
    /\ flows[f].pc \in Refreshes /\ call.by = NoFlow
    /\ \E answer \in {Answer(slot.rec), "unknown"} : call' = [by |-> f, answer |-> answer]
    /\ UNCHANGED <<serviceVars, slot, flows>>

Answered(f, pc) == At(f, pc) /\ call.by = f
Stored          == slot.rec # NoApproval

MutHistorically(linked) == slot.historicallyAdded \/ linked \/ call.answer = "confirmed"
\* Linked once, at one of the observations.
Historically(linked) == slot.historicallyAdded \/ linked

Refreshed ==
    IF ~Stored THEN slot
    ELSE [slot EXCEPT !.apiStatus = IF call.answer \in Statuses THEN call.answer ELSE @,
                      !.historicallyAdded = Historically(slot.rec.key \in phoneView.active)]
SlotMembership == Membership(slot.rec.key, phoneView, Refreshed.historicallyAdded)

\* occupiesStored; the time of the head may not be known.
Times == {Unknown, phoneView.time}
Pending(time) ==
    Stored /\ Occupies(slot.rec, call.answer, Refreshed.apiStatus, time, SlotMembership)

\* reconcileMembership of a link flow and resumeInFlight, whose refresh comes right after it.
Resume(f) ==
    /\ Answered(f, "resume") /\ Unlock
    /\ slot' = Refreshed
    /\ \E time \in Times :
         LET same == Stored /\ slot.rec.op = flows[f].op /\ slot.rec.key = flows[f].key
         IN  CASE same /\ flows[f].op = "add" /\ SlotMembership = "linked" -> Follow(f, "poll")
               [] same /\ Pending(time) -> flows' = [flows EXCEPT ![f].pc = "persist", ![f].rec = slot.rec]
               [] OTHER -> Goto(f, "sign")
    /\ UNCHANGED serviceVars

\* signDeviceActionRecord; no further action than the account may still execute (MaxNonce).
Sign(f) ==
    /\ At(f, "sign") /\ phoneView.nonce < MaxNonce
    /\ flows' = [flows EXCEPT ![f].pc = "persist",
                  ![f].rec = [op |-> flows[f].op, key |-> flows[f].key, nonce |-> phoneView.nonce,
                              deadline |-> phoneView.time + Horizon]]
    /\ UNCHANGED <<serviceVars, slot, call>>

MutIncoming(rec, acknowledged) ==
    IF slot.rec = rec
    THEN [Refreshed EXCEPT !.acknowledged = @ \/ acknowledged]
    ELSE [EmptySlot EXCEPT !.rec = rec, !.acknowledged = slot.acknowledged \/ acknowledged]
\* storedFromIncoming.
Incoming(rec, acknowledged) ==
    IF slot.rec = rec
    THEN [Refreshed EXCEPT !.acknowledged = @ \/ acknowledged]
    ELSE [EmptySlot EXCEPT !.rec = rec, !.acknowledged = acknowledged]

\* persistApproval: a removal needs no acknowledgement.
Persist(f) ==
    /\ Answered(f, "persist") /\ Unlock
    /\ \E time \in Times :
         IF Pending(time) /\ slot.rec # flows[f].rec
         THEN slot' = Refreshed /\ End(f)
         ELSE /\ slot' = Incoming(flows[f].rec, flows[f].op = "remove")
              /\ IF flows[f].op = "add" THEN Goto(f, "send") ELSE Follow(f, "submit")
    /\ UNCHANGED serviceVars

\* markAcknowledged, when the CLI has answered `approvalSaved`.
Mark(f) ==
    /\ At(f, "mark") /\ call.by = NoFlow
    /\ IF slot.rec = flows[f].rec
       THEN slot' = [slot EXCEPT !.acknowledged = TRUE] /\ Follow(f, "submit")
       ELSE UNCHANGED slot /\ End(f)
    /\ UNCHANGED <<serviceVars, call>>

\* submitAcknowledged: posts the stored action, whichever it is, until a post was answered.
Post(f) ==
    /\ At(f, "submit") /\ call.by = NoFlow
    /\ slot.acknowledged /\ ~slot.submitted
    /\ posted' = posted \cup {slot.rec}
    /\ call' = [NoCall EXCEPT !.by = f]
    /\ UNCHANGED <<account, rows, phoneView, cliView, slot, flows>>
Posted(f) ==
    /\ Answered(f, "submit")
    /\ Answer(slot.rec) \in {"active", "confirmed"}
    /\ slot' = [slot EXCEPT !.apiStatus = Answer(slot.rec), !.submitted = TRUE]
    /\ Unlock /\ Follow(f, "poll")
    /\ UNCHANGED serviceVars
SubmittedBefore(f) ==
    /\ At(f, "submit") /\ call.by = NoFlow
    /\ slot.acknowledged /\ slot.submitted
    /\ \E status \in {slot.apiStatus, Answer(slot.rec)} \ {"missing"} :
         slot' = [slot EXCEPT !.apiStatus = status]
    /\ Follow(f, "poll")
    /\ UNCHANGED <<serviceVars, call>>

\* pollEnrollment, one attempt.
Poll(f) ==
    /\ Answered(f, "poll") /\ Unlock
    /\ slot' = Refreshed
    /\ IF ~Stored \/ PollComplete(slot.rec, Refreshed.apiStatus, SlotMembership)
       THEN End(f) ELSE UNCHANGED flows
    /\ UNCHANGED serviceVars

\* A request fails or is refused, a poll runs out of attempts, the app dies.  Of a flow that does
\* not hold the lock this cannot be told from one that does not go on.
Stop(f) ==
    /\ call.by = f
    /\ Unlock /\ End(f)
    /\ UNCHANGED <<serviceVars, slot>>

PhoneStep(f) ==
    \/ \E k \in Keys : BeginRemove(f, k)
    \/ Ask(f) \/ Resume(f) \/ Sign(f) \/ Persist(f) \/ Mark(f)
    \/ Post(f) \/ Posted(f) \/ SubmittedBefore(f) \/ Poll(f) \/ Stop(f)
=============================================================================
