------------------------------- MODULE Delivery -------------------------------
(***************************************************************************)
(* The phone, the holders of its account and the network between them, at  *)
(* work on one message; the recipient is one flag, `stored`.               *)
(***************************************************************************)
EXTENDS PhoneDelivery

vars == <<outboxVars, phoneVars>>

TypeOK == OutboxTypeOK /\ PhoneTypeOK

Init == OutboxInit /\ PhoneInit

(* acceptHandoff: the row is durable before `held` is written. *)
HolderStores(h) ==
  /\ handoff.pc = "asked" /\ handoff.target = h
  /\ Enqueue(h)
  /\ handoff' = [handoff EXCEPT !.pc = IF Refuses(h) THEN "rejected" ELSE "held",
                                !.placed = IF rows[h] = "none" THEN @ \cup {h} ELSE @,
                                !.stray = @ \ {h}]
  /\ lateRequests' = lateRequests \ {h}
  /\ UNCHANGED <<stored, messageVars, rosterVars, sessionVars, sends, reconciles,
                 lastKnownHolderPeerIds, retries>>

(* Its database fails. *)
HolderUnavailable(h) ==
  /\ handoff.pc = "asked" /\ handoff.target = h
  /\ handoff' = [handoff EXCEPT !.pc = "unavailable"]
  /\ UNCHANGED <<outboxVars, messageVars, rosterVars, sessionVars, sends, reconciles, lateRequests,
                 lastKnownHolderPeerIds, retries>>

(* A request whose sender stopped waiting arrives all the same. *)
HolderTakesLate(h) ==
  /\ h \in lateRequests \cup handoff.stray
  /\ Enqueue(h)
  /\ handoff' = [handoff EXCEPT !.stray = @ \ {h},
                   !.placed = IF h \in handoff.stray THEN @ \cup {h} ELSE @]
  /\ lateRequests' = lateRequests \ {h}
  /\ UNCHANGED <<stored, messageVars, rosterVars, sessionVars, sends, reconciles,
                 lastKnownHolderPeerIds, retries>>

RecipientStores(s) ==
  /\ DirectStored(s)
  /\ stored' = TRUE
  /\ UNCHANGED rows

PhoneStep ==
  /\ \/ Stop \/ Recover \/ Start \/ Kill
     \/ \E h \in Holders : Link(h) \/ Unlink(h)
     \/ \E s \in Slots : Compose(s) \/ Retry(s) \/ SendStep(s)
     \/ HandoffStep
     \/ \E g \in Generations : ReconcileStep(g)
  /\ UNCHANGED outboxVars

HolderStep(h) == GiveUp(h) \/ \E acked \in BOOLEAN : Deliver(h, acked)

Next ==
  \/ PhoneStep
  \/ \E s \in Slots : RecipientStores(s)
  \/ \E h \in Holders : HolderStores(h) \/ HolderUnavailable(h) \/ HolderTakesLate(h)
  \/ \E h \in Holders : HolderStep(h) /\ UNCHANGED phoneVars

Spec == Init /\ [][Next]_vars

(* Every await of a job that runs ends: streams and lookups have timeouts, *)
(* the database answers.                                                   *)
JobFairness ==
  /\ WF_vars((Recover \/ HandoffStep) /\ UNCHANGED outboxVars)
  /\ WF_vars((\E s \in Slots : SendStep(s)) /\ UNCHANGED outboxVars)
  /\ WF_vars((\E g \in Generations : ReconcileGoesOn(g)) /\ UNCHANGED outboxVars)

AppOpensAgain == WF_vars(Start /\ UNCHANGED outboxVars)

(* No timer begins a reconcile: a start of the endpoint does, and an own   *)
(* holder that connects. It is assumed that while a message is pending one *)
(* of them comes again and again.                                          *)
HoldersConnectAgain ==
  WF_vars((\E g \in Generations : ReconcileBegin(g)) /\ UNCHANGED outboxVars)

(* The result of a handoff that a reconcile waits for is written down.     *)
WrittenDown ==
  (\E g \in Generations : reconciles[g].pc = "waiting") =>
    holderPeerId' \in {NoHolder} \cup (IF handoff.pc = "held" THEN {handoff.target} ELSE {})

(* Linked holders, the registry and, for a holder, the recipient are       *)
(* reached again and again, and again and again the database takes what a  *)
(* reconcile writes.                                                       *)
ReachabilityFairness ==
  /\ SF_vars(HandoffResolve(roster) /\ UNCHANGED outboxVars)
  /\ SF_vars(HandoffWrite /\ handoff.target \in roster /\ UNCHANGED outboxVars)
  /\ SF_vars(HandoffAnswered /\ WrittenDown /\ UNCHANGED outboxVars)
  /\ SF_vars(\E h \in roster : HolderStores(h))
  /\ SF_vars((\E h \in roster : Deliver(h, TRUE)) /\ UNCHANGED phoneVars)
  /\ SF_vars((\E g \in Generations : ReconcileHome(g)) /\ UNCHANGED outboxVars)
  /\ SF_vars((\E g \in Generations : reconciles[g].target \in roster /\ ReconcilePoll(g, TRUE))
             /\ UNCHANGED outboxVars)

Fairness == JobFairness /\ AppOpensAgain /\ HoldersConnectAgain /\ ReachabilityFairness
FairSpec == Spec /\ Fairness
-----------------------------------------------------------------------------
(* Nobody reports a delivery that did not happen: the phone shows `sent`,  *)
(* and a holder records `sent`, only of a message a device of the          *)
(* recipient has stored, whatever acknowledgements were lost, whichever    *)
(* jobs survived a restart.                                                *)
SentWasStored ==
  /\ status = "sent" => stored
  /\ \A h \in Holders : rows[h] = "sent" => stored

(* `held` is no guess: the holder has the message in its outbox, or was    *)
(* sent it and the request may still arrive.                               *)
HeldIsBacked ==
  status = "held" => rows[holderPeerId] # "none" \/ holderPeerId \in lateRequests

(* One handoff job leaves the message with one holder: it turns to another *)
(* only when the one before cannot have stored it (p2p-sync.ts, lines      *)
(* 137-145).                                                               *)
JobPlacesOnce ==
  \A h \in handoff.placed \cup handoff.stray : handoff.target = h

(* No message keeps the sending mark unattended: while the endpoint runs   *)
(* a job of the present session works on it, unless the database refused,  *)
(* in this very session, both the outcome of such a job and `failed`       *)
(* (p2p-store-core.ts, lines 1143-1155). Stops, crashes, jobs of earlier   *)
(* sessions and failing recoveries leave no such row behind them.          *)
SendingIsAttended ==
  running /\ status = "sending" /\ strandedIn # generation =>
    \E s \in Slots : sends[s].pc # "idle" /\ sends[s].gen = generation

Promise == INSTANCE SenderPromise WITH
  shown <- status,
  holder <- holderPeerId,
  entrusted <- {h \in Holders : rows[h] # "none" \/ h \in lateRequests},
  arrived <- stored,
  reported <- {h \in Holders : rows[h] = "sent"},
  refused <- {h \in Holders : rows[h] = "failed"}

(* The jobs of the phone and the holders implement what a sender relies    *)
(* on, "without clobbering a later terminal state" (db.ts, line 397):      *)
(* nothing leaves the phone before it is composed, sent is final and is    *)
(* shown only of a message that arrived, a held one is with its holder and *)
(* fails only after a holder refused it, and only retry starts again.      *)
ImplementsPromise == Promise!Spec

(* "switching CLIs could send Bob a second copy" (p2p-store-core.ts, lines *)
(* 549-552): the message is in two outboxes only if the user tapped retry  *)
(* or a holder was unlinked.                                               *)
OneHolder ==
  retries = 0 /\ unlinked = {} =>
    \A h, k \in Holders : rows[h] # "none" /\ rows[k] # "none" => h = k

(* A message left with a holder is not forgotten: as long as some holder   *)
(* stays linked it is delivered and the phone learns of it, or it fails    *)
(* visibly, although replies get lost, the holder that took it is unlinked *)
(* or never had it, and the phone restarts.                                *)
HeldIsResolved == (status = "held" /\ roster # {}) ~> (status \in {"sent", "failed"} \/ roster = {})
=============================================================================
