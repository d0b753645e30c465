----------------------------- MODULE PhoneDelivery -----------------------------
(***************************************************************************)
(* How the phone delivers one composed message: the send jobs, the handoff *)
(* job and the reconcile jobs of mobile/src/lib/p2p-store-core.ts, over    *)
(* the message row of mobile/src/lib/db.ts and performSend / performHandoff*)
(* of p2p-send.ts and p2p-sync.ts. All of them are keyed by the message,   *)
(* so one message stands for each.                                         *)
(*                                                                         *)
(* An action runs from one await to the next. `generation` counts the      *)
(* sessions of the endpoint: the code bumps it when it stops and again     *)
(* when it starts, and no job is created in between.                       *)
(***************************************************************************)
EXTENDS HolderOutbox

CONSTANTS
  Slots,          \* bound: send jobs alive at once
  MaxGeneration,  \* bound: sessions of the endpoint
  MaxRetries,     \* bound: taps on retry
  MaxUnlinked     \* bound: holders unlinked

ASSUME PhoneAssumption == MaxGeneration \in Nat \ {0} /\ MaxRetries \in Nat /\ MaxUnlinked \in Nat

VARIABLES
  status, holderPeerId,   \* the row in the phone's database
  strandedIn,             \* history: the session in which a send job could not write how it
                          \* ended, 0 when the row was written since
  generation, running,
  recovering,             \* recoveryOperation has still to fail interrupted sends
  sends,                  \* sendStoredMessage, per slot
  handoff,                \* the one entry handoffJobs can have for the message
  reconciles,             \* reconcileOwnHolders, per generation
  roster, unlinked,       \* the account's other devices, now and formerly
  lastKnownHolderPeerIds, \* the roster as last read
  lateRequests,           \* holders a request no job waits for may still reach
  retries                 \* taps on retry so far

messageVars == <<status, holderPeerId, strandedIn>>
rosterVars == <<roster, unlinked>>
sessionVars == <<generation, running, recovering>>
jobVars == <<sends, handoff, reconciles, lateRequests>>
phoneVars == <<messageVars, rosterVars, sessionVars, jobVars, lastKnownHolderPeerIds, retries>>

Generations == 1..MaxGeneration
Statuses == {"none", "failed", "sending", "held", "sent"}

IdleSend ==
  [pc |-> "idle", gen |-> 1, retry |-> FALSE, direct |-> "dialing",
   waiting |-> FALSE, holder |-> NoHolder]

(* placed, stray: of this job's requests, the holders that stored the      *)
(* message and the holders one may still reach although its attempt ended. *)
NoHandoff ==
  [pc |-> "none", gen |-> 1, signal |-> FALSE, pinned |-> NoHolder, target |-> NoHolder,
   untried |-> {}, attempt |-> 1, mayHold |-> FALSE, earlierMayHold |-> FALSE,
   placed |-> {}, stray |-> {}]

IdleReconcile == [pc |-> "idle", target |-> NoHolder, snapshot |-> "none"]

SendRecords ==
  [pc : {"idle", "marked", "open"}, gen : Generations, retry : BOOLEAN,
   direct : {"dialing", "stored", "acked", "failed"},
   waiting : BOOLEAN, holder : Holders \cup {NoHolder}]
HandoffRecords ==
  [pc : {"none", "resolving", "choosing", "dialing", "asked", "held", "unavailable", "rejected"},
   gen : Generations, signal : BOOLEAN, pinned : Holders \cup {NoHolder},
   target : Holders \cup {NoHolder}, untried : SUBSET Holders, attempt : 1..2,
   mayHold : BOOLEAN, earlierMayHold : BOOLEAN, placed : SUBSET Holders, stray : SUBSET Holders]
ReconcileRecords ==
  [pc : {"idle", "polling", "homing", "waiting"}, target : Holders \cup {NoHolder},
   snapshot : Statuses]

PhoneTypeOK ==
  /\ status \in Statuses
  /\ holderPeerId \in Holders \cup {NoHolder}
  /\ status = "held" <=> holderPeerId # NoHolder
  /\ strandedIn \in 0..MaxGeneration
  /\ generation \in Generations /\ running \in BOOLEAN /\ recovering \in BOOLEAN
  /\ sends \in [Slots -> SendRecords]
  /\ handoff \in HandoffRecords
  /\ reconciles \in [Generations -> ReconcileRecords]
  /\ roster \subseteq Holders /\ unlinked \subseteq Holders
  /\ lastKnownHolderPeerIds \subseteq Holders /\ lateRequests \subseteq Holders
  /\ retries \in 0..MaxRetries

PhoneInit ==
  /\ status = "none" /\ holderPeerId = NoHolder /\ strandedIn = 0
  /\ generation = 1 /\ running = TRUE /\ recovering = FALSE
  /\ sends = [s \in Slots |-> IdleSend]
  /\ handoff = NoHandoff
  /\ reconciles = [g \in Generations |-> IdleReconcile]
  /\ roster \in SUBSET Holders /\ unlinked = {}
  /\ lastKnownHolderPeerIds = {} /\ lateRequests = {} /\ retries = 0

-----------------------------------------------------------------------------
(* The message row. *)

Write(s, h) == status' = s /\ holderPeerId' = h /\ strandedIn' = 0
Keep == UNCHANGED messageVars

AdvanceFrom ==
  [failed |-> {"sending"}, sending |-> {"failed"}, sent |-> {"failed", "held", "sending"}]

Advance(to) == IF status \in AdvanceFrom[to] THEN Write(to, NoHolder) ELSE Keep

MutMarkHeld(h) == Write("held", h)

MarkHeld(h) == IF status \in {"held", "sending"} THEN Write("held", h) ELSE Keep

FailRejected == IF status \in {"sending", "held"} THEN Write("failed", NoHolder) ELSE Keep

FailInterrupted == IF status = "sending" THEN Write("failed", NoHolder) ELSE Keep

(* The job of the present session ends and the database takes no write.    *)
Strand ==
  /\ UNCHANGED <<status, holderPeerId>>
  /\ strandedIn' = IF status = "sending" THEN generation ELSE strandedIn

-----------------------------------------------------------------------------
(* The endpoint. *)

(* The holders a request of the handoff job reaches although nobody waits  *)
(* for its answer any more. One that has the message already is left out:  *)
(* to it another request changes nothing.                                  *)
StrayNow ==
  {h \in handoff.stray \cup (IF handoff.pc = "asked" THEN {handoff.target} ELSE {}) : rows[h] = "none"}

Current(g) == g = generation /\ running

(* stop() and failEndpoint: running jobs become stale, nothing waits for   *)
(* them longer than five seconds.                                          *)
Stop ==
  /\ running /\ generation < MaxGeneration
  /\ generation' = generation + 1 /\ running' = FALSE /\ recovering' = TRUE
  /\ lastKnownHolderPeerIds' = {}
  /\ UNCHANGED <<messageVars, rosterVars, jobVars, retries>>

(* The error of a failing write is shown; the next start tries again.      *)
Recover ==
  /\ recovering
  /\ recovering' = FALSE
  /\ FailInterrupted \/ Keep
  /\ UNCHANGED <<rosterVars, generation, running, jobVars, lastKnownHolderPeerIds, retries>>

MutStart ==
  /\ ~running /\ ~recovering
  /\ running' = TRUE
  /\ Keep
  /\ UNCHANGED <<rosterVars, generation, recovering, jobVars, lastKnownHolderPeerIds, retries>>

Start ==
  /\ ~running /\ ~recovering
  /\ running' = TRUE
  /\ FailInterrupted
  /\ UNCHANGED <<rosterVars, generation, recovering, jobVars, lastKnownHolderPeerIds, retries>>

(* The app is killed: only the database survives. A request on the wire    *)
(* may still arrive.                                                       *)
Kill ==
  /\ generation < MaxGeneration
  /\ generation' = generation + 1 /\ running' = FALSE /\ recovering' = FALSE
  /\ sends' = [s \in Slots |-> IdleSend]
  /\ handoff' = NoHandoff
  /\ reconciles' = [g \in Generations |-> IdleReconcile]
  /\ lateRequests' = lateRequests \cup StrayNow
  /\ lastKnownHolderPeerIds' = {}
  /\ UNCHANGED <<messageVars, rosterVars, retries>>

Link(h) ==
  /\ h \notin roster \cup unlinked
  /\ roster' = roster \cup {h}
  /\ UNCHANGED <<messageVars, unlinked, sessionVars, jobVars, lastKnownHolderPeerIds, retries>>

(* A removed device key never returns (Registry!RemovedKeysStayOut). *)
Unlink(h) ==
  /\ h \in roster /\ Cardinality(unlinked) < MaxUnlinked
  /\ roster' = roster \ {h} /\ unlinked' = unlinked \cup {h}
  /\ UNCHANGED <<messageVars, sessionVars, jobVars, lastKnownHolderPeerIds, retries>>

-----------------------------------------------------------------------------
(* Sending. *)

MarkedSend(retry) == [IdleSend EXCEPT !.pc = "marked", !.gen = generation, !.retry = retry]

(* sendMessage; offline the row is inserted as failed and nothing is sent. *)
Compose(s) ==
  /\ status = "none" /\ sends[s].pc = "idle"
  /\ IF running
     THEN Write("sending", NoHolder) /\ sends' = [sends EXCEPT ![s] = MarkedSend(FALSE)]
     ELSE Write("failed", NoHolder) /\ UNCHANGED sends
  /\ UNCHANGED <<rosterVars, sessionVars, handoff, reconciles, lateRequests,
                 lastKnownHolderPeerIds, retries>>

(* retryMessage: one at a time for a message, and only of a failed one. *)
Retry(s) ==
  /\ running /\ status = "failed" /\ sends[s].pc = "idle"
  /\ retries < MaxRetries
  /\ \A t \in Slots : sends[t].pc = "idle" \/ ~sends[t].retry \/ ~Current(sends[t].gen)
  /\ Advance("sending")
  /\ sends' = [sends EXCEPT ![s] = MarkedSend(TRUE)]
  /\ retries' = retries + 1
  /\ UNCHANGED <<rosterVars, sessionVars, handoff, reconciles, lateRequests,
                 lastKnownHolderPeerIds>>

(* handoffToHolder: a job for the message, however old, is joined.         *)
JoinHandoff(g, signal, pinned) ==
  IF handoff.pc # "none" THEN UNCHANGED handoff
  ELSE handoff' = [NoHandoff EXCEPT !.pc = "resolving", !.gen = g, !.signal = signal,
                                    !.pinned = pinned]

(* sendStoredMessage up to its first await: the direct send and the        *)
(* handoff start together.                                                 *)
SendBegin(s) ==
  /\ sends[s].pc = "marked"
  /\ IF Current(sends[s].gen)
     THEN /\ sends' = [sends EXCEPT ![s].pc = "open", ![s].waiting = TRUE]
          /\ JoinHandoff(sends[s].gen, sends[s].retry, NoHolder)
     ELSE sends' = [sends EXCEPT ![s] = IdleSend] /\ UNCHANGED handoff
  /\ UNCHANGED <<messageVars, rosterVars, sessionVars, reconciles, lateRequests,
                 lastKnownHolderPeerIds, retries>>

(* performSend. A device of the recipient stores the message before it     *)
(* acknowledges; a lost acknowledgement, a timeout and an abort all fail.  *)
DirectStored(s) ==
  /\ sends[s].pc = "open" /\ sends[s].direct = "dialing"
  /\ sends' = [sends EXCEPT ![s].direct = "stored"]
  /\ UNCHANGED <<messageVars, rosterVars, sessionVars, handoff, reconciles, lateRequests,
                 lastKnownHolderPeerIds, retries>>

DirectEnds(s, outcome) ==
  /\ sends[s].pc = "open"
  /\ \/ outcome = "acked" /\ sends[s].direct = "stored"
     \/ outcome = "failed" /\ sends[s].direct \in {"dialing", "stored"}
  /\ sends' = [sends EXCEPT ![s].direct = outcome]
  /\ UNCHANGED <<messageVars, rosterVars, sessionVars, handoff, reconciles, lateRequests,
                 lastKnownHolderPeerIds, retries>>

(* How a send ended: sent, else held by whoever took it, else failed.      *)
SendOutcome(s) ==
  IF sends[s].direct = "acked" THEN Advance("sent")
  ELSE IF sends[s].holder # NoHolder THEN MarkHeld(sends[s].holder) ELSE Advance("failed")

(* The rest of sendStoredMessage. An acknowledged send does not wait for   *)
(* the handoff. When the outcome cannot be written the row is marked as    *)
(* failed, and when that cannot be written either it stays as it is.       *)
(* Nothing is written if the endpoint was stopped in between.              *)
SendEnd(s) ==
  /\ sends[s].pc = "open" /\ sends[s].direct \in {"acked", "failed"}
  /\ \/ ~Current(sends[s].gen) /\ Keep
     \/ /\ Current(sends[s].gen)
        /\ sends[s].direct = "acked" \/ ~sends[s].waiting
        /\ SendOutcome(s) \/ Advance("failed") \/ Strand
  /\ sends' = [sends EXCEPT ![s] = IdleSend]
  /\ UNCHANGED <<rosterVars, sessionVars, handoff, reconciles, lateRequests,
                 lastKnownHolderPeerIds, retries>>

-----------------------------------------------------------------------------
(* The handoff job. *)

(* What a reconcile does with the result: a refusal fails the message.     *)
WriteResult(holder, rejected) ==
  IF rejected THEN FailRejected ELSE IF holder # NoHolder THEN MarkHeld(holder) ELSE Keep

(* The job settles: whoever awaits it goes on. A reconcile writes the      *)
(* result at once, does not look at the generation again, and ends as well *)
(* when the write fails.                                                   *)
Settle(holder, rejected) ==
  /\ handoff' = NoHandoff
  /\ sends' = [s \in Slots |->
                 IF sends[s].waiting
                 THEN [sends[s] EXCEPT !.waiting = FALSE, !.holder = holder]
                 ELSE sends[s]]
  /\ reconciles' = [g \in Generations |->
                      IF reconciles[g].pc = "waiting" THEN IdleReconcile ELSE reconciles[g]]
  /\ \/ Keep
     \/ /\ \E g \in Generations : reconciles[g].pc = "waiting"
        /\ WriteResult(holder, rejected)

SettleEmpty == Settle(NoHolder, FALSE)

(* What a read of the own roster returns: the chain's answer, or the last  *)
(* known one while it is cached or the registry does not answer.           *)
RosterViews == {roster, lastKnownHolderPeerIds}

MutCandidates(view) == IF handoff.pinned # NoHolder THEN {handoff.pinned} ELSE view

(* A message whose holder is still linked goes back to that holder only. *)
Candidates(view) == IF handoff.pinned \in view THEN {handoff.pinned} ELSE view

HandoffResolve(view) ==
  /\ handoff.pc = "resolving"
  /\ lastKnownHolderPeerIds' = IF view = {} THEN lastKnownHolderPeerIds ELSE view
  /\ IF view = {} \/ ~Current(handoff.gen)
     THEN SettleEmpty
     ELSE /\ handoff' = [handoff EXCEPT !.pc = "choosing", !.pinned = NoHolder,
                                         !.untried = Candidates(view)]
          /\ UNCHANGED <<messageVars, sends, reconciles>>
  /\ UNCHANGED <<rosterVars, sessionVars, lateRequests, retries>>

(* tryHolder: connected holders come first, so any order can happen. *)
HandoffChoose ==
  /\ handoff.pc = "choosing"
  /\ IF handoff.untried = {} \/ ~Current(handoff.gen)
     THEN SettleEmpty
     ELSE /\ \E h \in handoff.untried :
               handoff' = [handoff EXCEPT !.pc = "dialing", !.target = h, !.untried = @ \ {h}]
          /\ UNCHANGED <<messageVars, sends, reconciles>>
  /\ UNCHANGED <<rosterVars, sessionVars, lateRequests, lastKnownHolderPeerIds, retries>>

(* The request is written and the write side closed. *)
HandoffWrite ==
  /\ handoff.pc = "dialing"
  /\ handoff' = [handoff EXCEPT !.pc = "asked", !.earlierMayHold = handoff.mayHold, !.mayHold = TRUE]
  /\ UNCHANGED <<messageVars, rosterVars, sessionVars, sends, reconciles, lateRequests,
                 lastKnownHolderPeerIds, retries>>

MutUndecided(mayHold) ==
  IF handoff.signal /\ ~Current(handoff.gen) THEN SettleEmpty
  ELSE Settle(handoff.target, FALSE)

(* The attempts end without a usable answer from the target: it is taken   *)
(* for the holder if it may hold the message, else the next one is tried.  *)
Undecided(mayHold) ==
  IF handoff.signal /\ ~Current(handoff.gen) THEN SettleEmpty
  ELSE IF mayHold THEN Settle(handoff.target, FALSE)
  ELSE /\ handoff' = [handoff EXCEPT !.pc = "choosing", !.mayHold = FALSE, !.target = NoHolder,
                                     !.attempt = 1]
       /\ UNCHANGED <<messageVars, sends, reconciles>>

(* An attempt fails: it is repeated once, unless the time is up. *)
AttemptFails(mayHold) ==
  \/ /\ handoff.attempt = 1
     /\ handoff' = [handoff EXCEPT !.pc = "dialing", !.attempt = 2, !.mayHold = mayHold,
                                   !.earlierMayHold = FALSE, !.stray = StrayNow]
     /\ UNCHANGED <<messageVars, sends, reconciles, lateRequests>>
  \/ /\ Undecided(mayHold)
     /\ lateRequests' = lateRequests \cup StrayNow

HandoffDialFails ==
  /\ handoff.pc = "dialing"
  /\ AttemptFails(handoff.mayHold)
  /\ UNCHANGED <<rosterVars, sessionVars, lastKnownHolderPeerIds, retries>>

MutHandoffUnavailable ==
  /\ handoff.pc = "unavailable"
  /\ AttemptFails(FALSE)
  /\ UNCHANGED <<rosterVars, sessionVars, lastKnownHolderPeerIds, retries>>

(* The holder could not store it: this attempt left nothing behind. *)
HandoffUnavailable ==
  /\ handoff.pc = "unavailable"
  /\ AttemptFails(handoff.earlierMayHold)
  /\ UNCHANGED <<rosterVars, sessionVars, lastKnownHolderPeerIds, retries>>

(* The answer is lost, or too late. A lost `unavailable` is a request that *)
(* was lost.                                                               *)
HandoffReplyLost ==
  /\ handoff.pc \in {"asked", "held", "rejected"}
  /\ AttemptFails(TRUE)
  /\ UNCHANGED <<rosterVars, sessionVars, lastKnownHolderPeerIds, retries>>

HandoffAnswered ==
  /\ handoff.pc \in {"held", "rejected"}
  /\ IF handoff.pc = "held" THEN Settle(handoff.target, FALSE) ELSE Settle(NoHolder, TRUE)
  /\ lateRequests' = lateRequests \cup handoff.stray
  /\ UNCHANGED <<rosterVars, sessionVars, lastKnownHolderPeerIds, retries>>

HandoffStep ==
  \/ \E view \in RosterViews : HandoffResolve(view)
  \/ HandoffChoose \/ HandoffWrite
  \/ HandoffDialFails \/ HandoffUnavailable \/ HandoffReplyLost \/ HandoffAnswered

-----------------------------------------------------------------------------
(* Reconciling with the own holders. *)

(* On start, and whenever an own holder connects. A held message is first  *)
(* asked about.                                                            *)
ReconcileBegin(g) ==
  /\ Current(g) /\ reconciles[g].pc = "idle"
  /\ status \in {"sending", "held"}
  /\ reconciles' = [reconciles EXCEPT ![g] =
                      IF status = "held"
                      THEN [@ EXCEPT !.pc = "polling", !.target = holderPeerId]
                      ELSE [@ EXCEPT !.pc = "homing", !.snapshot = "sending"]]
  /\ UNCHANGED <<messageVars, rosterVars, sessionVars, sends, handoff, lateRequests,
                 lastKnownHolderPeerIds, retries>>

MutReceipt(h) == rows[h] \in {"queued", "sent"}

(* The holder gives receipts for sent rows only. *)
Receipt(h) == rows[h] = "sent"

(* applyReceipts, then the second listOutgoingPending. A receipt that      *)
(* cannot be written is as good as none, and ReconcileSkip follows.        *)
ReconcilePoll(g, receipt) ==
  /\ reconciles[g].pc = "polling"
  /\ IF receipt THEN Current(g) /\ Receipt(reconciles[g].target) /\ Advance("sent") ELSE Keep
  /\ reconciles' = [reconciles EXCEPT ![g] =
                      IF status' \in {"sending", "held"}
                      THEN [pc |-> "homing", target |-> holderPeerId', snapshot |-> status']
                      ELSE IdleReconcile]
  /\ UNCHANGED <<rosterVars, sessionVars, sends, handoff, lateRequests,
                 lastKnownHolderPeerIds, retries>>

(* With the roster read: hand off a row still sending, one whose holder    *)
(* left the roster, and, to confirm it, one whose holder is connected.     *)
ReconcileHome(g) ==
  /\ reconciles[g].pc = "homing" /\ Current(g)
  /\ \E view \in RosterViews :
       lastKnownHolderPeerIds' = IF view = {} THEN lastKnownHolderPeerIds ELSE view
  /\ JoinHandoff(g, FALSE, reconciles[g].target)
  /\ reconciles' = [reconciles EXCEPT ![g] = [IdleReconcile EXCEPT !.pc = "waiting"]]
  /\ UNCHANGED <<messageVars, rosterVars, sessionVars, sends, lateRequests, retries>>

(* The roster or the database cannot be read, the endpoint was stopped, or *)
(* the holder is linked and not connected.                                 *)
ReconcileSkip(g) ==
  /\ reconciles[g].pc = "homing"
  /\ reconciles' = [reconciles EXCEPT ![g] = IdleReconcile]
  /\ UNCHANGED <<messageVars, rosterVars, sessionVars, sends, handoff, lateRequests,
                 lastKnownHolderPeerIds, retries>>

ReconcileGoesOn(g) ==
  \/ ReconcileHome(g) \/ ReconcileSkip(g)
  \/ \E receipt \in BOOLEAN : ReconcilePoll(g, receipt)

ReconcileStep(g) == ReconcileBegin(g) \/ ReconcileGoesOn(g)

SendStep(s) ==
  \/ SendBegin(s) \/ SendEnd(s)
  \/ \E outcome \in {"acked", "failed"} : DirectEnds(s, outcome)
=============================================================================
