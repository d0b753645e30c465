--------------------------- MODULE DeliveryProofs ---------------------------
(***************************************************************************)
(* For any number of holders, send jobs, sessions and retries: what the    *)
(* phone and the holders report of a message is true, a handoff job leaves *)
(* it with one holder, and a row is not left sending.                      *)
(*                                                                         *)
(* The strengthening is about the handoff job: while it may have left the  *)
(* message with its target, the target has a row, or a request that nobody *)
(* waits for is still on its way there; while it may not, it has left the  *)
(* message with nobody, and may turn to another holder.                    *)
(***************************************************************************)
EXTENDS Delivery, TLAPS

\* The holder has the message or a request is on its way to it, now and after the step.
Backed(h) == rows[h] # "none" \/ h \in lateRequests
BackedNext(h) == rows'[h] # "none" \/ h \in lateRequests'

\* What jobs were told of the recipient.
Told ==
  /\ SentWasStored
  /\ \A s \in Slots : sends[s].direct \in {"stored", "acked"} => stored

\* Whom the row and the send jobs name as the holder.
Named ==
  /\ HeldIsBacked
  /\ \A s \in Slots : sends[s].holder # NoHolder => Backed(sends[s].holder)

\* What the earlier attempts of the handoff job left behind.
Left(mayHold) ==
  IF mayHold THEN rows[handoff.target] # "none" \/ handoff.target \in handoff.stray
  ELSE handoff.placed = {} /\ handoff.stray = {}

\* The jobs that are at a holder know which.
AtHolder == handoff.pc \in {"dialing", "asked", "held", "unavailable", "rejected"} => handoff.target \in Holders
Polling == \A g \in Generations : reconciles[g].pc = "polling" => reconciles[g].target \in Holders

Requests ==
  /\ handoff.pc \in {"none", "resolving", "choosing"} =>
       ~handoff.mayHold /\ handoff.placed = {} /\ handoff.stray = {}
  /\ AtHolder
  /\ handoff.pc = "dialing" => Left(handoff.mayHold)
  /\ handoff.pc \in {"asked", "unavailable"} => Left(handoff.earlierMayHold)
  /\ handoff.pc = "held" => rows[handoff.target] # "none"
  /\ handoff.pc = "rejected" => rows[handoff.target] = "failed"
  /\ JobPlacesOnce

DeliveryInv == TypeOK /\ Told /\ Named /\ Polling /\ Requests /\ SendingIsAttended

-----------------------------------------------------------------------------

\* At the start nothing is stored, sent or asked for.
LEMMA DeliveryInit == Init => DeliveryInv
<1> SUFFICES ASSUME Init PROVE DeliveryInv
  OBVIOUS
<1>1. IdleSend \in SendRecords /\ NoHandoff \in HandoffRecords /\ IdleReconcile \in ReconcileRecords
  BY PhoneAssumption DEF IdleSend, SendRecords, NoHandoff, HandoffRecords, IdleReconcile, ReconcileRecords,
                         Generations, Statuses
<1>2. TypeOK
  <2>1. OutboxTypeOK
    BY DEF Init, OutboxInit, OutboxTypeOK
  <2>2. sends \in [Slots -> SendRecords] /\ handoff \in HandoffRecords /\ reconciles \in [Generations -> ReconcileRecords]
    BY <1>1 DEF Init, PhoneInit
  <2>3. /\ status \in Statuses /\ generation \in Generations /\ retries \in 0..MaxRetries
        /\ strandedIn \in 0..MaxGeneration
    BY PhoneAssumption DEF Init, PhoneInit, Statuses, Generations
  <2>4. running \in BOOLEAN /\ recovering \in BOOLEAN
    BY DEF Init, PhoneInit
  <2>5. /\ roster \subseteq Holders /\ unlinked \subseteq Holders
        /\ lastKnownHolderPeerIds \subseteq Holders /\ lateRequests \subseteq Holders
    BY DEF Init, PhoneInit
  <2> QED
    BY <2>1, <2>2, <2>3, <2>4, <2>5 DEF Init, PhoneInit, TypeOK, PhoneTypeOK
<1>3. Told /\ Named /\ Polling
  BY DEF Init, OutboxInit, PhoneInit, Told, Named, Polling, SentWasStored, HeldIsBacked, IdleSend,
         IdleReconcile
<1>4. Requests /\ SendingIsAttended
  BY DEF Init, OutboxInit, PhoneInit, Requests, AtHolder, NoHandoff, JobPlacesOnce, SendingIsAttended
<1> QED
  BY <1>2, <1>3, <1>4 DEF DeliveryInv

-----------------------------------------------------------------------------
(* Types.                                                                  *)

\* What a job of the phone may write to the message row.
LEMMA RowTypes ==
    ASSUME TypeOK, \/ Keep
                   \/ \E to \in {"failed", "sending", "sent"} : Advance(to)
                   \/ \E h \in Holders : MarkHeld(h)
                   \/ FailRejected \/ FailInterrupted \/ Strand
                   \/ \E new \in {"failed", "sending"} : Write(new, NoHolder)
    PROVE  /\ status' \in Statuses /\ holderPeerId' \in Holders \cup {NoHolder}
           /\ status' = "held" <=> holderPeerId' # NoHolder
           /\ strandedIn' \in 0..MaxGeneration
<1> DEFINE Stranded == strandedIn' \in 0..MaxGeneration
<1>0. 0 \in 0..MaxGeneration /\ strandedIn \in 0..MaxGeneration /\ generation \in 0..MaxGeneration
  BY PhoneAssumption DEF TypeOK, PhoneTypeOK, Generations
<1>1. CASE Keep \/ Strand
  BY <1>0, <1>1 DEF TypeOK, PhoneTypeOK, Keep, Strand, messageVars
<1>2. ASSUME NEW to \in {"failed", "sending", "sent"}, Advance(to)
      PROVE  /\ (status' = status /\ holderPeerId' = holderPeerId) \/ (status' = to /\ holderPeerId' = NoHolder)
             /\ Stranded
  BY <1>0, <1>2 DEF Advance, Write, Keep, messageVars
<1>3. ASSUME NEW h \in Holders, MarkHeld(h)
      PROVE  /\ (status' = status /\ holderPeerId' = holderPeerId) \/ (status' = "held" /\ holderPeerId' = h)
             /\ Stranded
  BY <1>0, <1>3 DEF MarkHeld, Write, Keep, messageVars
<1>4. CASE FailRejected \/ FailInterrupted
  BY <1>0, <1>4 DEF TypeOK, PhoneTypeOK, FailRejected, FailInterrupted, Write, Keep, messageVars, Statuses
<1>5. ASSUME NEW new \in {"failed", "sending"}, Write(new, NoHolder)
      PROVE  status' = new /\ holderPeerId' = NoHolder /\ Stranded
  BY <1>0, <1>5 DEF Write
<1> QED
  BY <1>1, <1>2, <1>3, <1>4, <1>5, HoldersAssumption DEF TypeOK, PhoneTypeOK, Statuses

\* What a settled job writes.
LEMMA SettleTypes ==
    ASSUME TypeOK, NEW holder \in Holders \cup {NoHolder}, NEW rejected \in BOOLEAN, Settle(holder, rejected)
    PROVE  /\ sends' \in [Slots -> SendRecords] /\ handoff' \in HandoffRecords
           /\ reconciles' \in [Generations -> ReconcileRecords]
           /\ status' \in Statuses /\ holderPeerId' \in Holders \cup {NoHolder}
           /\ status' = "held" <=> holderPeerId' # NoHolder
           /\ strandedIn' \in 0..MaxGeneration
<1>1. NoHandoff \in HandoffRecords /\ IdleReconcile \in ReconcileRecords
  BY PhoneAssumption DEF NoHandoff, HandoffRecords, IdleReconcile, ReconcileRecords, Generations, Statuses
<1>2. sends' \in [Slots -> SendRecords]
  <2>1. ASSUME NEW x \in SendRecords PROVE [x EXCEPT !.waiting = FALSE, !.holder = holder] \in SendRecords
    BY DEF SendRecords
  <2> QED
    BY <2>1 DEF TypeOK, PhoneTypeOK, Settle
<1>3. handoff' \in HandoffRecords /\ reconciles' \in [Generations -> ReconcileRecords]
  BY <1>1 DEF TypeOK, PhoneTypeOK, Settle
<1>4. Keep \/ FailRejected \/ (holder # NoHolder /\ MarkHeld(holder))
  BY DEF Settle, WriteResult
<1> QED
  BY <1>2, <1>3, <1>4, RowTypes

\* The steps of the handoff job.
LEMMA HandoffTypes ==
    ASSUME TypeOK, AtHolder, HandoffStep, UNCHANGED outboxVars
    PROVE  TypeOK'
<1> DEFINE Jobs == /\ sends' \in [Slots -> SendRecords] /\ handoff' \in HandoffRecords
                   /\ reconciles' \in [Generations -> ReconcileRecords]
           Row == /\ status' \in Statuses /\ holderPeerId' \in Holders \cup {NoHolder}
                  /\ status' = "held" <=> holderPeerId' # NoHolder
                  /\ strandedIn' \in 0..MaxGeneration
<1>1. /\ sends \in [Slots -> SendRecords] /\ handoff \in HandoffRecords
      /\ reconciles \in [Generations -> ReconcileRecords]
      /\ status \in Statuses /\ holderPeerId \in Holders \cup {NoHolder}
      /\ status = "held" <=> holderPeerId # NoHolder
      /\ strandedIn \in 0..MaxGeneration
      /\ roster \subseteq Holders /\ unlinked \subseteq Holders
      /\ lastKnownHolderPeerIds \subseteq Holders /\ lateRequests \subseteq Holders
  BY DEF TypeOK, PhoneTypeOK
<1>2. StrayNow \subseteq Holders
  BY <1>1 DEF StrayNow, AtHolder, HandoffRecords
<1>3. ASSUME SettleEmpty PROVE Jobs /\ Row
  BY <1>3, SettleTypes DEF SettleEmpty
<1>4. ASSUME handoff.target \in Holders, Settle(handoff.target, FALSE) PROVE Jobs /\ Row
  BY <1>4, SettleTypes
<1>5. ASSUME Settle(NoHolder, TRUE) PROVE Jobs /\ Row
  BY <1>5, SettleTypes
<1>6. ASSUME NEW mayHold \in BOOLEAN, AttemptFails(mayHold), handoff.target \in Holders
      PROVE  Jobs /\ Row /\ lateRequests' \subseteq Holders
  <2>1. CASE handoff' = [handoff EXCEPT !.pc = "dialing", !.attempt = 2, !.mayHold = mayHold,
                                        !.earlierMayHold = FALSE, !.stray = StrayNow]
             /\ UNCHANGED <<messageVars, sends, reconciles, lateRequests>>
    <3>1. handoff' \in HandoffRecords
      <4>1. ASSUME NEW a \in 1..2
            PROVE  [handoff EXCEPT !.pc = "dialing", !.attempt = a, !.mayHold = mayHold,
                                         !.earlierMayHold = FALSE, !.stray = StrayNow] \in HandoffRecords
        BY <1>1, <1>2 DEF HandoffRecords
      <4> QED
        BY <2>1, <4>1
    <3> QED
      BY <1>1, <2>1, <3>1 DEF messageVars
  <2>2. CASE Undecided(mayHold) /\ lateRequests' = lateRequests \cup StrayNow
    <3>1. CASE handoff' = [handoff EXCEPT !.pc = "choosing", !.mayHold = FALSE, !.target = NoHolder, !.attempt = 1]
               /\ UNCHANGED <<messageVars, sends, reconciles>>
      <4>1. handoff' \in HandoffRecords
        <5>1. ASSUME NEW a \in 1..2
              PROVE  [handoff EXCEPT !.pc = "choosing", !.mayHold = FALSE, !.target = NoHolder,
                                                           !.attempt = a] \in HandoffRecords
          BY <1>1 DEF HandoffRecords
        <5> QED
          BY <3>1, <5>1
      <4> QED
        BY <1>1, <1>2, <2>2, <3>1, <4>1 DEF messageVars
    <3> QED
      BY <1>1, <1>2, <1>3, <1>4, <1>6, <2>2, <3>1 DEF Undecided
  <2> QED
    BY <1>6, <2>1, <2>2 DEF AttemptFails
<1>7. ASSUME NEW view \in RosterViews, HandoffResolve(view)
      PROVE  Jobs /\ Row /\ lastKnownHolderPeerIds' \subseteq Holders /\ lateRequests' \subseteq Holders
  <2>1. view \subseteq Holders
    BY <1>1 DEF RosterViews
  <2>2. Candidates(view) \subseteq Holders
    BY <1>1, <2>1 DEF Candidates, HandoffRecords
  <2>3. CASE handoff' = [handoff EXCEPT !.pc = "choosing", !.pinned = NoHolder, !.untried = Candidates(view)]
             /\ UNCHANGED <<messageVars, sends, reconciles>>
    BY <1>1, <1>7, <2>1, <2>2, <2>3 DEF HandoffRecords, messageVars, HandoffResolve
  <2> QED
    BY <1>1, <1>3, <1>7, <2>1, <2>3 DEF HandoffResolve
<1>8. ASSUME HandoffChoose
      PROVE  Jobs /\ Row /\ lastKnownHolderPeerIds' \subseteq Holders /\ lateRequests' \subseteq Holders
  <2>1. ASSUME NEW h \in handoff.untried, handoff' = [handoff EXCEPT !.pc = "dialing", !.target = h, !.untried = @ \ {h}]
        PROVE  handoff' \in HandoffRecords
    BY <1>1, <2>1 DEF HandoffRecords
  <2> QED
    BY <1>1, <1>3, <1>8, <2>1 DEF HandoffChoose, messageVars
<1>9. ASSUME HandoffWrite
      PROVE  Jobs /\ Row /\ lastKnownHolderPeerIds' \subseteq Holders /\ lateRequests' \subseteq Holders
  BY <1>1, <1>9 DEF HandoffWrite, HandoffRecords, messageVars
<1>10. ASSUME HandoffDialFails \/ HandoffUnavailable \/ HandoffReplyLost
       PROVE  Jobs /\ Row /\ lastKnownHolderPeerIds' \subseteq Holders /\ lateRequests' \subseteq Holders
  <2>1. handoff.mayHold \in BOOLEAN /\ handoff.earlierMayHold \in BOOLEAN /\ handoff.target \in Holders
    BY <1>1, <1>10 DEF HandoffRecords, AtHolder, HandoffDialFails, HandoffUnavailable, HandoffReplyLost
  <2>2. /\ UNCHANGED lastKnownHolderPeerIds
        /\ \/ AttemptFails(handoff.mayHold) \/ AttemptFails(handoff.earlierMayHold) \/ AttemptFails(TRUE)
    BY <1>10 DEF HandoffDialFails, HandoffUnavailable, HandoffReplyLost
  <2> QED
    BY <1>1, <1>6, <2>1, <2>2
<1>11. ASSUME HandoffAnswered
       PROVE  Jobs /\ Row /\ lastKnownHolderPeerIds' \subseteq Holders /\ lateRequests' \subseteq Holders
  <2>1. handoff.target \in Holders /\ handoff.stray \subseteq Holders
    BY <1>1, <1>11 DEF HandoffRecords, AtHolder, HandoffAnswered
  <2> QED
    BY <1>1, <1>4, <1>5, <1>11, <2>1 DEF HandoffAnswered
<1>12. Jobs /\ Row /\ lastKnownHolderPeerIds' \subseteq Holders /\ lateRequests' \subseteq Holders
  BY <1>7, <1>8, <1>9, <1>10, <1>11 DEF HandoffStep
<1>13. UNCHANGED <<rows, stored, roster, unlinked, generation, running, recovering, retries>>
  BY DEF HandoffStep, HandoffResolve, HandoffChoose, HandoffWrite, HandoffDialFails, HandoffUnavailable,
         HandoffReplyLost, HandoffAnswered, rosterVars, sessionVars, outboxVars
<1> QED
  BY <1>12, <1>13 DEF TypeOK, OutboxTypeOK, PhoneTypeOK

\* A job that is started or joined.
LEMMA JoinTypes ==
    ASSUME TypeOK, NEW g \in Generations, NEW signal \in BOOLEAN, NEW pinned \in Holders \cup {NoHolder},
           JoinHandoff(g, signal, pinned)
    PROVE  handoff' \in HandoffRecords
<1>1. handoff \in HandoffRecords
  BY DEF TypeOK, PhoneTypeOK
<1>2. NoHandoff \in HandoffRecords
  BY PhoneAssumption DEF NoHandoff, HandoffRecords, Generations
<1>3. ASSUME NEW x \in HandoffRecords
      PROVE  [x EXCEPT !.pc = "resolving", !.gen = g, !.signal = signal, !.pinned = pinned] \in HandoffRecords
  BY DEF HandoffRecords
<1> QED
  BY <1>1, <1>2, <1>3 DEF JoinHandoff

\* The steps of a send job.
LEMMA SendTypes ==
    ASSUME TypeOK, UNCHANGED outboxVars, NEW s \in Slots,
           Compose(s) \/ Retry(s) \/ SendBegin(s) \/ SendEnd(s) \/ (\E outcome \in {"acked", "failed"} : DirectEnds(s, outcome))
    PROVE  TypeOK'
<1> DEFINE Jobs == sends' \in [Slots -> SendRecords] /\ handoff' \in HandoffRecords
           Row == /\ status' \in Statuses /\ holderPeerId' \in Holders \cup {NoHolder}
                  /\ status' = "held" <=> holderPeerId' # NoHolder
                  /\ strandedIn' \in 0..MaxGeneration
<1>1. /\ sends \in [Slots -> SendRecords] /\ handoff \in HandoffRecords
      /\ generation \in Generations /\ retries \in 0..MaxRetries
  BY DEF TypeOK, PhoneTypeOK
<1>2. IdleSend \in SendRecords
  BY PhoneAssumption DEF IdleSend, SendRecords, Generations
<1>3. ASSUME NEW retry \in BOOLEAN PROVE MarkedSend(retry) \in SendRecords
  BY <1>1, <1>2 DEF MarkedSend, SendRecords
<1>4. ASSUME Compose(s) PROVE Jobs /\ Row /\ retries' \in 0..MaxRetries
  <2>1. Row
    BY <1>4, RowTypes DEF Compose
  <2> QED
    BY <1>1, <1>3, <1>4, <2>1 DEF Compose
<1>5. ASSUME Retry(s) PROVE Jobs /\ Row /\ retries' \in 0..MaxRetries
  <2>1. Row
    BY <1>5, RowTypes DEF Retry
  <2>2. retries' \in 0..MaxRetries
    BY <1>1, <1>5, PhoneAssumption DEF Retry
  <2> QED
    BY <1>1, <1>3, <1>5, <2>1, <2>2 DEF Retry
<1>6. ASSUME SendBegin(s) PROVE Jobs /\ Row /\ retries' \in 0..MaxRetries
  <2>1. Row
    BY <1>6, RowTypes DEF SendBegin, Keep
  <2>2. sends' \in [Slots -> SendRecords]
    <3>1. CASE sends' = [sends EXCEPT ![s] = IdleSend]
      BY <1>1, <1>2, <3>1
    <3>2. CASE sends' = [sends EXCEPT ![s].pc = "open", ![s].waiting = TRUE]
      <4>1. [sends EXCEPT ![s].pc = "open"] \in [Slots -> SendRecords]
        BY <1>1 DEF SendRecords
      <4>2. ASSUME NEW f \in [Slots -> SendRecords]
            PROVE  [f EXCEPT ![s].waiting = TRUE] \in [Slots -> SendRecords]
        BY DEF SendRecords
      <4> QED
        BY <3>2, <4>1, <4>2
    <3> QED
      BY <1>6, <3>1, <3>2 DEF SendBegin
  <2>3. sends[s].gen \in Generations /\ sends[s].retry \in BOOLEAN
    BY <1>1 DEF SendRecords
  <2>4. handoff' \in HandoffRecords
    BY <1>1, <1>6, <2>3, JoinTypes DEF SendBegin
  <2> QED
    BY <1>1, <1>6, <2>1, <2>2, <2>4 DEF SendBegin
<1>7. ASSUME SendEnd(s) PROVE Jobs /\ Row /\ retries' \in 0..MaxRetries
  <2>1. sends[s].holder \in Holders \cup {NoHolder}
    BY <1>1 DEF SendRecords
  <2>2. Row
    BY <1>7, <2>1, RowTypes DEF SendEnd, SendOutcome, Strand
  <2> QED
    BY <1>1, <1>2, <1>7, <2>2 DEF SendEnd, SendOutcome, Strand
<1>8. ASSUME NEW outcome \in {"acked", "failed"}, DirectEnds(s, outcome)
      PROVE  Jobs /\ Row /\ retries' \in 0..MaxRetries
  <2>1. Row
    BY <1>8, RowTypes DEF DirectEnds, Keep
  <2>2. sends' \in [Slots -> SendRecords]
    BY <1>1, <1>8 DEF DirectEnds, SendRecords
  <2> QED
    BY <1>1, <1>8, <2>1, <2>2 DEF DirectEnds
<1>9. UNCHANGED <<rows, stored, roster, unlinked, generation, running, recovering, reconciles, lateRequests,
                  lastKnownHolderPeerIds>>
  BY DEF Compose, Retry, SendBegin, SendEnd, SendOutcome, Strand, DirectEnds, rosterVars, sessionVars, outboxVars
<1> QED
  BY <1>4, <1>5, <1>6, <1>7, <1>8, <1>9 DEF TypeOK, OutboxTypeOK, PhoneTypeOK

\* The steps of a reconcile.
LEMMA ReconcileTypes ==
    ASSUME TypeOK, UNCHANGED outboxVars, NEW g \in Generations, ReconcileStep(g)
    PROVE  TypeOK'
<1> DEFINE Jobs == reconciles' \in [Generations -> ReconcileRecords] /\ handoff' \in HandoffRecords
           Row == /\ status' \in Statuses /\ holderPeerId' \in Holders \cup {NoHolder}
                  /\ status' = "held" <=> holderPeerId' # NoHolder
                  /\ strandedIn' \in 0..MaxGeneration
           Known == lastKnownHolderPeerIds' \subseteq Holders
<1>1. /\ reconciles \in [Generations -> ReconcileRecords] /\ handoff \in HandoffRecords
      /\ status \in Statuses /\ holderPeerId \in Holders \cup {NoHolder}
      /\ roster \subseteq Holders /\ lastKnownHolderPeerIds \subseteq Holders
  BY DEF TypeOK, PhoneTypeOK
<1>2. IdleReconcile \in ReconcileRecords
  BY DEF IdleReconcile, ReconcileRecords, Statuses
<1>3. ASSUME ReconcileBegin(g) PROVE Jobs /\ Row /\ Known
  <2>1. Row
    BY <1>3, RowTypes DEF ReconcileBegin, Keep
  <2>2. ASSUME NEW x \in ReconcileRecords
        PROVE  /\ [x EXCEPT !.pc = "polling", !.target = holderPeerId] \in ReconcileRecords
               /\ [x EXCEPT !.pc = "homing", !.snapshot = "sending"] \in ReconcileRecords
    BY <1>1 DEF ReconcileRecords, Statuses
  <2> QED
    BY <1>1, <1>3, <2>1, <2>2 DEF ReconcileBegin
<1>4. ASSUME NEW receipt \in BOOLEAN, ReconcilePoll(g, receipt) PROVE Jobs /\ Row /\ Known
  <2>1. Row
    BY <1>4, RowTypes DEF ReconcilePoll
  <2>2. [pc |-> "homing", target |-> holderPeerId', snapshot |-> status'] \in ReconcileRecords
    BY <2>1 DEF ReconcileRecords
  <2> QED
    BY <1>1, <1>2, <1>4, <2>1, <2>2 DEF ReconcilePoll
<1>5. ASSUME ReconcileHome(g) PROVE Jobs /\ Row /\ Known
  <2>1. Row
    BY <1>5, RowTypes DEF ReconcileHome, Keep
  <2>2. [IdleReconcile EXCEPT !.pc = "waiting"] \in ReconcileRecords
    BY <1>2 DEF ReconcileRecords
  <2>3. reconciles[g].target \in Holders \cup {NoHolder}
    BY <1>1 DEF ReconcileRecords
  <2>4. handoff' \in HandoffRecords
    BY <1>5, <2>3, JoinTypes DEF ReconcileHome
  <2>5. Known
    BY <1>1, <1>5 DEF ReconcileHome, RosterViews
  <2> QED
    BY <1>1, <1>5, <2>1, <2>2, <2>4, <2>5 DEF ReconcileHome
<1>6. ASSUME ReconcileSkip(g) PROVE Jobs /\ Row /\ Known
  <2>1. Row
    BY <1>6, RowTypes DEF ReconcileSkip, Keep
  <2> QED
    BY <1>1, <1>2, <1>6, <2>1 DEF ReconcileSkip
<1>7. UNCHANGED <<rows, stored, roster, unlinked, generation, running, recovering, sends, lateRequests,
                  retries>>
  BY DEF ReconcileStep, ReconcileGoesOn, ReconcileBegin, ReconcilePoll, ReconcileHome, ReconcileSkip, rosterVars,
         sessionVars, outboxVars
<1> QED
  BY <1>3, <1>4, <1>5, <1>6, <1>7 DEF ReconcileStep, ReconcileGoesOn, TypeOK, OutboxTypeOK, PhoneTypeOK

\* Starts, stops, kills, and holders linked and unlinked.
LEMMA SessionTypes ==
    ASSUME TypeOK, AtHolder, UNCHANGED outboxVars,
           Stop \/ Recover \/ Start \/ Kill \/ (\E h \in Holders : Link(h) \/ Unlink(h))
    PROVE  TypeOK'
<1> DEFINE Jobs == /\ sends' \in [Slots -> SendRecords] /\ handoff' \in HandoffRecords
                   /\ reconciles' \in [Generations -> ReconcileRecords] /\ lateRequests' \subseteq Holders
           Row == /\ status' \in Statuses /\ holderPeerId' \in Holders \cup {NoHolder}
                  /\ status' = "held" <=> holderPeerId' # NoHolder
                  /\ strandedIn' \in 0..MaxGeneration
           Session == generation' \in Generations /\ running' \in BOOLEAN /\ recovering' \in BOOLEAN
           Roster == roster' \subseteq Holders /\ unlinked' \subseteq Holders /\ lastKnownHolderPeerIds' \subseteq Holders
<1>1. /\ sends \in [Slots -> SendRecords] /\ handoff \in HandoffRecords
      /\ reconciles \in [Generations -> ReconcileRecords]
      /\ roster \subseteq Holders /\ unlinked \subseteq Holders
      /\ lastKnownHolderPeerIds \subseteq Holders /\ lateRequests \subseteq Holders
      /\ generation \in Generations
  BY DEF TypeOK, PhoneTypeOK
<1>2. running \in BOOLEAN /\ recovering \in BOOLEAN
  BY DEF TypeOK, PhoneTypeOK
<1>3. Row
  BY RowTypes DEF Stop, Recover, Start, Kill, Link, Unlink, Keep, messageVars
<1>4. Jobs
  <2>1. ASSUME Kill PROVE Jobs
    <3>1. IdleSend \in SendRecords /\ NoHandoff \in HandoffRecords /\ IdleReconcile \in ReconcileRecords
      BY PhoneAssumption DEF IdleSend, SendRecords, NoHandoff, HandoffRecords, IdleReconcile,
                             ReconcileRecords, Generations, Statuses
    <3>2. StrayNow \subseteq lateRequests'
      BY <2>1 DEF Kill
    <3>3. StrayNow \subseteq Holders
      BY <1>1 DEF StrayNow, AtHolder, HandoffRecords
    <3> QED
      BY <1>1, <2>1, <3>1, <3>3 DEF Kill
  <2>2. ASSUME Stop \/ Recover \/ Start \/ (\E h \in Holders : Link(h) \/ Unlink(h)) PROVE Jobs
    BY <1>1, <2>2 DEF Stop, Recover, Start, Link, Unlink, jobVars
  <2> QED
    BY <2>1, <2>2
<1>5. generation' \in Generations
  BY <1>1, PhoneAssumption DEF Generations, Stop, Recover, Start, Kill, Link, Unlink, sessionVars
<1>6. running' \in BOOLEAN /\ recovering' \in BOOLEAN
  BY <1>2 DEF Stop, Recover, Start, Kill, Link, Unlink, sessionVars
<1>7. Roster
  BY <1>1 DEF Stop, Recover, Start, Kill, Link, Unlink, rosterVars
<1>8. UNCHANGED <<rows, stored, retries>>
  BY DEF Stop, Recover, Start, Kill, Link, Unlink, outboxVars
<1> QED
  BY <1>3, <1>4, <1>5, <1>6, <1>7, <1>8 DEF TypeOK, OutboxTypeOK, PhoneTypeOK

\* What the holders and the network do.
LEMMA HolderTypes ==
    ASSUME TypeOK,
           \/ \E s \in Slots : RecipientStores(s)
           \/ \E h \in Holders : HolderStores(h) \/ HolderUnavailable(h) \/ HolderTakesLate(h)
           \/ \E h \in Holders : HolderStep(h) /\ UNCHANGED phoneVars
    PROVE  TypeOK'
<1>1. /\ sends \in [Slots -> SendRecords] /\ handoff \in HandoffRecords /\ lateRequests \subseteq Holders
      /\ rows \in [Holders -> {"none", "queued", "sent", "failed"}]
  BY DEF TypeOK, OutboxTypeOK, PhoneTypeOK
<1>2. ASSUME NEW s \in Slots, RecipientStores(s) PROVE TypeOK'
  <2>1. sends' \in [Slots -> SendRecords]
    BY <1>1, <1>2 DEF RecipientStores, DirectStored, SendRecords
  <2> QED
    BY <1>2, <2>1 DEF RecipientStores, DirectStored, TypeOK, OutboxTypeOK, PhoneTypeOK, messageVars,
                      rosterVars, sessionVars
<1>3. ASSUME NEW h \in Holders, HolderStores(h) \/ HolderUnavailable(h) \/ HolderTakesLate(h) PROVE TypeOK'
  <2>1. rows' \in [Holders -> {"none", "queued", "sent", "failed"}]
    BY <1>1, <1>3 DEF HolderStores, HolderUnavailable, HolderTakesLate, Enqueue, outboxVars
  <2>2. handoff' \in HandoffRecords
    <3>1. ASSUME NEW x \in HandoffRecords, NEW pc \in {"held", "rejected", "unavailable"}, NEW placed \in SUBSET Holders
          PROVE  /\ [x EXCEPT !.pc = pc, !.placed = placed, !.stray = @ \ {h}] \in HandoffRecords
                 /\ [x EXCEPT !.stray = @ \ {h}, !.placed = placed] \in HandoffRecords
                 /\ [x EXCEPT !.pc = pc] \in HandoffRecords
      BY <1>3 DEF HandoffRecords
    <3>2. handoff.placed \in SUBSET Holders /\ handoff.placed \cup {h} \in SUBSET Holders
      BY <1>1, <1>3 DEF HandoffRecords
    <3>3. CASE HolderStores(h)
      BY <1>1, <3>1, <3>2, <3>3 DEF HolderStores
    <3>4. CASE HolderUnavailable(h)
      BY <1>1, <3>1, <3>2, <3>4 DEF HolderUnavailable
    <3>5. CASE HolderTakesLate(h)
      BY <1>1, <3>1, <3>2, <3>5 DEF HolderTakesLate
    <3> QED
      BY <1>3, <3>3, <3>4, <3>5
  <2>3. lateRequests' \subseteq Holders
    BY <1>1, <1>3 DEF HolderStores, HolderUnavailable, HolderTakesLate
  <2>4. UNCHANGED <<stored, messageVars, rosterVars, sessionVars, sends, reconciles, lastKnownHolderPeerIds,
  retries>>
    BY <1>3 DEF HolderStores, HolderUnavailable, HolderTakesLate, outboxVars
  <2> QED
    BY <2>1, <2>2, <2>3, <2>4 DEF TypeOK, OutboxTypeOK, PhoneTypeOK, messageVars, rosterVars, sessionVars
<1>4. ASSUME NEW h \in Holders, HolderStep(h), UNCHANGED phoneVars PROVE TypeOK'
  <2>1. rows' \in [Holders -> {"none", "queued", "sent", "failed"}] /\ stored' \in BOOLEAN
    BY <1>1, <1>4 DEF HolderStep, GiveUp, Deliver, TypeOK, OutboxTypeOK
  <2> QED
    BY <1>4, <2>1 DEF phoneVars, messageVars, rosterVars, sessionVars, jobVars, TypeOK, OutboxTypeOK,
                      PhoneTypeOK
<1> QED
  BY <1>2, <1>3, <1>4

\* Every step keeps the types.
LEMMA TypesKept == ASSUME TypeOK, AtHolder, [Next]_vars PROVE TypeOK'
<1>1. CASE PhoneStep
  <2>1. CASE Stop \/ Recover \/ Start \/ Kill \/ (\E h \in Holders : Link(h) \/ Unlink(h))
    BY <1>1, <2>1, SessionTypes DEF PhoneStep
  <2>2. CASE \E s \in Slots : Compose(s) \/ Retry(s) \/ SendStep(s)
    BY <1>1, <2>2, SendTypes DEF PhoneStep, SendStep
  <2>3. CASE HandoffStep
    BY <1>1, <2>3, HandoffTypes DEF PhoneStep
  <2>4. CASE \E g \in Generations : ReconcileStep(g)
    BY <1>1, <2>4, ReconcileTypes DEF PhoneStep
  <2> QED
    BY <1>1, <2>1, <2>2, <2>3, <2>4 DEF PhoneStep
<1>2. CASE UNCHANGED vars
  BY <1>2 DEF vars, outboxVars, phoneVars, messageVars, rosterVars, sessionVars, jobVars, TypeOK,
              OutboxTypeOK, PhoneTypeOK
<1> QED
  BY <1>1, <1>2, HolderTypes DEF Next

-----------------------------------------------------------------------------
(* What is believed of the recipient and the holders.                      *)

\* A row never goes away, and a refused or sent one stays so; a request on its way arrives as one.
LEMMA RowsStay ==
    ASSUME TypeOK, [Next]_vars
    PROVE  /\ stored => stored'
           /\ \A h \in Holders : /\ rows[h] # "none" => rows'[h] # "none"
                                 /\ rows[h] = "failed" => rows'[h] = "failed"
                                 /\ Backed(h) => BackedNext(h)
<1>1. rows \in [Holders -> {"none", "queued", "sent", "failed"}]
  BY DEF TypeOK, OutboxTypeOK
<1>2. ASSUME PhoneStep PROVE UNCHANGED <<rows, stored>> /\ lateRequests \subseteq lateRequests'
  BY <1>2 DEF PhoneStep, outboxVars, jobVars, Stop, Recover, Start, Kill, Link, Unlink, Compose, Retry,
              SendStep, SendBegin, SendEnd, SendOutcome, Strand,
       DirectEnds, HandoffStep, HandoffResolve, HandoffChoose, HandoffWrite, HandoffDialFails,
       HandoffUnavailable, HandoffReplyLost,
       HandoffAnswered, AttemptFails, ReconcileStep, ReconcileGoesOn, ReconcileBegin, ReconcilePoll, ReconcileHome,
       ReconcileSkip
<1>3. ASSUME NEW s \in Slots, RecipientStores(s)
      PROVE  rows' = rows /\ stored' /\ lateRequests' = lateRequests
  BY <1>3 DEF RecipientStores, DirectStored
<1>4. ASSUME NEW h \in Holders, HolderStores(h) \/ HolderTakesLate(h)
      PROVE  /\ stored' = stored /\ lateRequests' = lateRequests \ {h}
             /\ rows' = IF rows[h] = "none" THEN [rows EXCEPT ![h] = "queued"] ELSE rows
  BY <1>4 DEF HolderStores, HolderTakesLate, Enqueue
<1>5. ASSUME NEW h \in Holders, HolderUnavailable(h) PROVE UNCHANGED <<rows, stored, lateRequests>>
  BY <1>5 DEF HolderUnavailable, outboxVars
<1>6. ASSUME NEW h \in Holders, HolderStep(h), UNCHANGED phoneVars
      PROVE  /\ stored => stored'
             /\ lateRequests' = lateRequests /\ rows[h] = "queued"
             /\ \/ rows' = rows
                \/ rows' = [rows EXCEPT ![h] = "sent"]
                \/ rows' = [rows EXCEPT ![h] = "failed"]
  BY <1>6 DEF HolderStep, Deliver, GiveUp, phoneVars, jobVars
<1>7. CASE UNCHANGED vars
  BY <1>7 DEF vars, outboxVars, phoneVars, jobVars, Backed, BackedNext
<1>8. CASE Next
  <2>1. CASE PhoneStep
    BY <1>2, <2>1 DEF Backed, BackedNext
  <2>2. CASE \E s \in Slots : RecipientStores(s)
    BY <1>3, <2>2 DEF Backed, BackedNext
  <2>3. CASE \E h \in Holders : HolderStores(h) \/ HolderTakesLate(h)
    BY <1>1, <1>4, <2>3 DEF Backed, BackedNext
  <2>4. CASE \E h \in Holders : HolderUnavailable(h)
    BY <1>5, <2>4 DEF Backed, BackedNext
  <2>5. CASE \E h \in Holders : HolderStep(h) /\ UNCHANGED phoneVars
    BY <1>1, <1>6, <2>5 DEF Backed, BackedNext
  <2> QED
    BY <1>8, <2>1, <2>2, <2>3, <2>4, <2>5 DEF Next
<1> QED
  BY <1>7, <1>8

\* A job writes `sent` when it was told so, and never takes it back.
LEMMA SentIsTold ==
    ASSUME DeliveryInv, [Next]_vars
    PROVE  /\ status' = "sent" => status = "sent" \/ stored
           /\ status = "sent" => status' = "sent"
<1>1. /\ sends \in [Slots -> SendRecords] /\ reconciles \in [Generations -> ReconcileRecords]
      /\ status \in Statuses
  BY DEF DeliveryInv, TypeOK, PhoneTypeOK
<1>2. ASSUME NEW to \in {"failed", "sending"}, Advance(to)
      PROVE  status = status' \/ (status \in {"sending", "failed"} /\ status' = to)
  BY <1>2 DEF Advance, AdvanceFrom, Write, Keep, messageVars
<1>3. ASSUME NEW h \in Holders, MarkHeld(h) PROVE status = status' \/ (status # "sent" /\ status' = "held")
  BY <1>3 DEF MarkHeld, Write, Keep, messageVars
<1>4. ASSUME FailRejected \/ FailInterrupted
      PROVE  status = status' \/ (status # "sent" /\ status' = "failed")
  BY <1>4 DEF FailRejected, FailInterrupted, Write, Keep, messageVars
<1>5. ASSUME NEW holder \in Holders \cup {NoHolder}, NEW rejected \in BOOLEAN, Settle(holder, rejected)
      PROVE  status = status' \/ (status # "sent" /\ status' \in {"held", "failed"})
  BY <1>3, <1>4, <1>5 DEF Settle, WriteResult, Keep, messageVars
<1>6. ASSUME HandoffStep PROVE status = status' \/ (status # "sent" /\ status' \in {"held", "failed"})
  <2>1. ASSUME SettleEmpty PROVE status = status' \/ (status # "sent" /\ status' \in {"held", "failed"})
    BY <1>5, <2>1 DEF SettleEmpty
  <2>2. ASSUME NEW mayHold \in BOOLEAN, AttemptFails(mayHold), handoff.target \in Holders
        PROVE  status = status' \/ (status # "sent" /\ status' \in {"held", "failed"})
    BY <1>5, <2>1, <2>2 DEF AttemptFails, Undecided, messageVars
  <2>3. handoff.mayHold \in BOOLEAN /\ handoff.earlierMayHold \in BOOLEAN
    BY DEF DeliveryInv, TypeOK, PhoneTypeOK, HandoffRecords
  <2>4. CASE HandoffDialFails \/ HandoffUnavailable \/ HandoffReplyLost
    <3>1. handoff.target \in Holders
      BY <2>4 DEF DeliveryInv, Requests, AtHolder, HandoffDialFails, HandoffUnavailable, HandoffReplyLost
    <3> QED
      BY <2>2, <2>3, <2>4, <3>1 DEF HandoffDialFails, HandoffUnavailable, HandoffReplyLost
  <2>5. CASE HandoffAnswered
    BY <1>5, <2>5 DEF DeliveryInv, Requests, AtHolder, HandoffAnswered
  <2>6. CASE HandoffChoose \/ HandoffWrite \/ \E view \in RosterViews : HandoffResolve(view)
    BY <2>1, <2>6 DEF HandoffChoose, HandoffWrite, HandoffResolve, messageVars
  <2> QED
    BY <1>6, <2>4, <2>5, <2>6 DEF HandoffStep
<1>7. ASSUME NEW s \in Slots, Compose(s) \/ Retry(s) \/ SendStep(s)
      PROVE  (status' = "sent" => status = "sent" \/ stored) /\ (status = "sent" => status' = "sent")
  <2>1. CASE Compose(s) \/ Retry(s)
    BY <1>2, <2>1 DEF Compose, Retry, Write, Keep, messageVars
  <2>2. CASE SendEnd(s)
    <3>1. sends[s].holder \in Holders \cup {NoHolder}
      BY <1>1 DEF SendRecords
    <3>2. CASE sends[s].direct = "acked" /\ Advance("sent")
      BY <1>1, <3>2 DEF DeliveryInv, Told, Advance, AdvanceFrom, Write, Keep, messageVars
    <3> QED
      BY <1>2, <1>3, <2>2, <3>1, <3>2 DEF SendEnd, SendOutcome, Strand, Keep, messageVars
  <2>3. CASE SendBegin(s) \/ \E outcome \in {"acked", "failed"} : DirectEnds(s, outcome)
    BY <2>3 DEF SendBegin, DirectEnds, messageVars
  <2> QED
    BY <1>7, <2>1, <2>2, <2>3 DEF SendStep
<1>8. ASSUME NEW g \in Generations, ReconcileStep(g)
      PROVE  (status' = "sent" => status = "sent" \/ stored) /\ (status = "sent" => status' = "sent")
  <2>1. ASSUME NEW receipt \in BOOLEAN, ReconcilePoll(g, receipt)
        PROVE  (status' = "sent" => status = "sent" \/ stored) /\ (status = "sent" => status' = "sent")
    <3>1. CASE Receipt(reconciles[g].target) /\ Advance("sent")
      <4>1. stored
        BY <2>1, <3>1 DEF DeliveryInv, Polling, Told, SentWasStored, ReconcilePoll, Receipt
      <4> QED
        BY <3>1, <4>1 DEF Advance, AdvanceFrom, Write, Keep, messageVars
    <3> QED
      BY <2>1, <3>1 DEF ReconcilePoll, Keep, messageVars
  <2> QED
    BY <1>8, <2>1 DEF ReconcileStep, ReconcileGoesOn, ReconcileBegin, ReconcileHome, ReconcileSkip, messageVars
<1>9. ASSUME Stop \/ Recover \/ Start \/ Kill \/ (\E h \in Holders : Link(h) \/ Unlink(h))
      PROVE  status = status' \/ (status # "sent" /\ status' = "failed")
  BY <1>4, <1>9 DEF Stop, Recover, Start, Kill, Link, Unlink, Keep, messageVars
<1>10. ASSUME \/ \E s \in Slots : RecipientStores(s)
              \/ \E h \in Holders : HolderStores(h) \/ HolderUnavailable(h) \/ HolderTakesLate(h)
              \/ \E h \in Holders : HolderStep(h) /\ UNCHANGED phoneVars
              \/ UNCHANGED vars
       PROVE  status' = status
  BY <1>10 DEF RecipientStores, DirectStored, HolderStores, HolderUnavailable, HolderTakesLate, phoneVars,
               messageVars, vars
<1> QED
  BY <1>6, <1>7, <1>8, <1>9, <1>10 DEF Next, PhoneStep

\* No step makes a job, the row or a holder believe what is not so.
LEMMA ToldKept == ASSUME DeliveryInv, [Next]_vars, TypeOK' PROVE Told'
<1>1. sends \in [Slots -> SendRecords] /\ rows \in [Holders -> {"none", "queued", "sent", "failed"}]
  BY DEF DeliveryInv, TypeOK, OutboxTypeOK, PhoneTypeOK
<1>2. stored => stored'
  BY RowsStay DEF DeliveryInv
<1>3. status' = "sent" => stored'
  BY <1>2, SentIsTold DEF DeliveryInv, Told, SentWasStored
<1>4. ASSUME NEW s \in Slots, sends'[s].direct \in {"stored", "acked"}
      PROVE  sends[s].direct \in {"stored", "acked"} \/ stored'
  <2>1. CASE PhoneStep
    <3>1. IdleSend.direct = "dialing" /\ \A retry \in BOOLEAN : MarkedSend(retry).direct = "dialing"
      BY DEF IdleSend, MarkedSend
    <3>2. ASSUME NEW t \in Slots, Compose(t) \/ Retry(t) \/ SendStep(t)
          PROVE  sends[s].direct \in {"stored", "acked"}
      <4>1. CASE Compose(t) \/ Retry(t)
        BY <1>1, <1>4, <3>1, <4>1 DEF Compose, Retry
      <4>2. CASE SendEnd(t)
        BY <1>1, <1>4, <3>1, <4>2 DEF SendEnd, SendOutcome, Strand
      <4>3. CASE SendBegin(t)
        BY <1>1, <1>4, <3>1, <4>3 DEF SendBegin, SendRecords
      <4>4. CASE \E outcome \in {"acked", "failed"} : DirectEnds(t, outcome)
        BY <1>1, <1>4, <4>4 DEF DirectEnds, SendRecords
      <4> QED
        BY <3>2, <4>1, <4>2, <4>3, <4>4 DEF SendStep
    <3>3. ASSUME HandoffStep PROVE sends[s].direct = sends'[s].direct
      <4>1. ASSUME NEW holder, NEW rejected, Settle(holder, rejected)
            PROVE  sends[s].direct = sends'[s].direct
        BY <1>1, <4>1 DEF Settle, SendRecords
      <4>2. sends' = sends \/ \E holder, rejected : Settle(holder, rejected)
        BY <3>3 DEF HandoffStep, HandoffResolve, HandoffChoose, HandoffWrite, HandoffDialFails,
                    HandoffUnavailable, HandoffReplyLost,
             HandoffAnswered, AttemptFails, Undecided, SettleEmpty
      <4> QED
        BY <4>1, <4>2
    <3>4. ASSUME Stop \/ Recover \/ Start \/ (\E h \in Holders : Link(h) \/ Unlink(h)) \/ (\E g \in Generations : ReconcileStep(g))
          PROVE sends' = sends
      BY <3>4 DEF Stop, Recover, Start, Link, Unlink, jobVars, ReconcileStep, ReconcileGoesOn, ReconcileBegin, ReconcilePoll,
                  ReconcileHome, ReconcileSkip
    <3>5. ASSUME Kill PROVE sends'[s].direct = "dialing"
      BY <3>1, <3>5 DEF Kill
    <3> QED
      BY <1>4, <2>1, <3>2, <3>3, <3>4, <3>5 DEF PhoneStep
  <2>2. ASSUME NEW t \in Slots, RecipientStores(t) PROVE stored'
    BY <2>2 DEF RecipientStores
  <2>3. CASE \/ \E h \in Holders : HolderStores(h) \/ HolderUnavailable(h) \/ HolderTakesLate(h)
             \/ \E h \in Holders : HolderStep(h) /\ UNCHANGED phoneVars
             \/ UNCHANGED vars
    BY <1>4, <2>3 DEF HolderStores, HolderUnavailable, HolderTakesLate, phoneVars, jobVars, vars
  <2> QED
    BY <2>1, <2>2, <2>3 DEF Next
<1>5. ASSUME NEW h \in Holders, rows'[h] = "sent" PROVE rows[h] = "sent" \/ stored'
  <2>1. ASSUME NEW k \in Holders, Enqueue(k) PROVE rows[h] = "sent"
    BY <1>1, <1>5, <2>1 DEF Enqueue
  <2>2. ASSUME NEW k \in Holders, HolderStep(k) PROVE rows[h] = "sent" \/ stored'
    BY <1>1, <1>5, <2>2 DEF HolderStep, Deliver, GiveUp
  <2>3. ASSUME rows' = rows PROVE rows[h] = "sent"
    BY <1>5, <2>3
  <2>4. \/ rows' = rows \/ \E k \in Holders : Enqueue(k) \/ HolderStep(k)
    BY DEF Next, PhoneStep, outboxVars, RecipientStores, HolderStores, HolderUnavailable, HolderTakesLate,
           vars
  <2> QED
    BY <2>1, <2>2, <2>3, <2>4
<1> QED
  BY <1>2, <1>3, <1>4, <1>5 DEF DeliveryInv, Told, SentWasStored

\* A reconcile that asks for a receipt asks the holder of the row.
LEMMA PollingKept == ASSUME DeliveryInv, [Next]_vars PROVE Polling'
<1>1. /\ reconciles \in [Generations -> ReconcileRecords] /\ holderPeerId \in Holders \cup {NoHolder}
      /\ status = "held" => holderPeerId # NoHolder
  BY DEF DeliveryInv, TypeOK, PhoneTypeOK
<1>2. SUFFICES ASSUME NEW g \in Generations, reconciles'[g].pc = "polling"
               PROVE  reconciles'[g] = reconciles[g] \/ reconciles'[g].target \in Holders
  BY DEF DeliveryInv, Polling
<1>3. IdleReconcile.pc = "idle"
  BY DEF IdleReconcile
<1>4. ASSUME NEW k \in Generations, ReconcileStep(k)
      PROVE  reconciles'[g] = reconciles[g] \/ reconciles'[g].target \in Holders
  <2>1. CASE ReconcileBegin(k)
    <3>1. CASE status = "held"
      BY <1>1, <2>1, <3>1, HoldersAssumption DEF ReconcileBegin, ReconcileRecords
    <3>2. CASE status # "held"
      BY <1>1, <1>2, <2>1, <3>2 DEF ReconcileBegin, ReconcileRecords
    <3> QED
      BY <3>1, <3>2
  <2>2. CASE \E receipt \in BOOLEAN : ReconcilePoll(k, receipt)
    BY <1>1, <1>2, <1>3, <2>2 DEF ReconcilePoll
  <2>3. CASE ReconcileHome(k)
    <3>1. [IdleReconcile EXCEPT !.pc = "waiting"].pc = "waiting"
      BY DEF IdleReconcile
    <3> QED
      BY <1>1, <1>2, <2>3, <3>1 DEF ReconcileHome
  <2>4. CASE ReconcileSkip(k)
    BY <1>1, <1>2, <1>3, <2>4 DEF ReconcileSkip
  <2> QED
    BY <1>4, <2>1, <2>2, <2>3, <2>4 DEF ReconcileStep, ReconcileGoesOn
<1>5. ASSUME NEW holder, NEW rejected, Settle(holder, rejected) PROVE reconciles'[g] = reconciles[g]
  BY <1>1, <1>2, <1>3, <1>5 DEF Settle
<1>6. \/ reconciles' = reconciles \/ (\E holder, rejected : Settle(holder, rejected)) \/ (\E k \in Generations : ReconcileStep(k)) \/ Kill
  BY DEF Next, PhoneStep, HandoffStep, HandoffResolve, HandoffChoose, HandoffWrite, HandoffDialFails,
         HandoffUnavailable, HandoffReplyLost,
       HandoffAnswered, AttemptFails, Undecided, SettleEmpty, Stop, Recover, Start, Link, Unlink, Compose,
       Retry, SendStep, SendBegin,
       SendEnd, SendOutcome, Strand, DirectEnds, RecipientStores, DirectStored, HolderStores, HolderUnavailable, HolderTakesLate,
       phoneVars, jobVars, vars
<1>7. ASSUME Kill PROVE reconciles'[g].pc = "idle"
  BY <1>3, <1>7 DEF Kill
<1> QED
  BY <1>2, <1>4, <1>5, <1>6, <1>7

\* What a settled job names is backed, if its holder is.
LEMMA SettleNames ==
    ASSUME DeliveryInv, NEW holder \in Holders \cup {NoHolder}, NEW rejected \in BOOLEAN, Settle(holder, rejected),
           holder # NoHolder => BackedNext(holder),
           \A h \in Holders : Backed(h) => BackedNext(h)
    PROVE  Named'
<1>1. /\ sends \in [Slots -> SendRecords] /\ holderPeerId \in Holders \cup {NoHolder}
      /\ status = "held" <=> holderPeerId # NoHolder
  BY DEF DeliveryInv, TypeOK, PhoneTypeOK
<1>2. \/ status' = status /\ holderPeerId' = holderPeerId
      \/ status' = "failed"
      \/ status' = "held" /\ holder # NoHolder /\ holderPeerId' = holder
  BY DEF Settle, WriteResult, Keep, FailRejected, MarkHeld, Write, messageVars
<1>3. status' = "held" => BackedNext(holderPeerId')
  BY <1>1, <1>2 DEF DeliveryInv, Named, HeldIsBacked, Backed, BackedNext
<1>4. ASSUME NEW s \in Slots, sends'[s].holder # NoHolder PROVE BackedNext(sends'[s].holder)
  <2>1. sends'[s].holder = sends[s].holder \/ sends'[s].holder = holder
    BY <1>1 DEF Settle, SendRecords
  <2>2. sends[s].holder \in Holders \cup {NoHolder}
    BY <1>1 DEF SendRecords
  <2> QED
    BY <1>4, <2>1, <2>2 DEF DeliveryInv, Named
<1> QED
  BY <1>3, <1>4 DEF Named, HeldIsBacked, Backed, BackedNext

\* An attempt that ends as one that may have left the message with the target did.
LEMMA AttemptNames ==
    ASSUME DeliveryInv, [Next]_vars, NEW mayHold \in BOOLEAN, AttemptFails(mayHold), UNCHANGED outboxVars,
           handoff.target \in Holders,
           mayHold => rows[handoff.target] # "none" \/ handoff.target \in handoff.stray \/ handoff.pc = "asked"
    PROVE  Named'
<1>1. \A h \in Holders : Backed(h) => BackedNext(h)
  BY RowsStay DEF DeliveryInv
<1>2. CASE UNCHANGED <<messageVars, sends, reconciles>>
  <2>1. sends \in [Slots -> SendRecords] /\ holderPeerId \in Holders \cup {NoHolder} /\ (status = "held" <=> holderPeerId # NoHolder)
    BY DEF DeliveryInv, TypeOK, PhoneTypeOK
  <2>2. \A s \in Slots : sends[s].holder \in Holders \cup {NoHolder}
    BY <2>1 DEF SendRecords
  <2> QED
    BY <1>1, <1>2, <2>1, <2>2 DEF DeliveryInv, Named, HeldIsBacked, Backed, BackedNext, messageVars
<1>3. CASE mayHold /\ lateRequests' = lateRequests \cup StrayNow
  <2>1. BackedNext(handoff.target)
    BY <1>3 DEF Backed, BackedNext, StrayNow, outboxVars
  <2> QED
    BY <1>1, <1>3, <2>1, <1>2, SettleNames DEF AttemptFails, Undecided, SettleEmpty
<1> QED
  BY <1>1, <1>2, <1>3, SettleNames DEF AttemptFails, Undecided, SettleEmpty

\* No step names a holder that is not backed.
LEMMA NamedKept == ASSUME DeliveryInv, [Next]_vars PROVE Named'
<1>1. /\ sends \in [Slots -> SendRecords] /\ holderPeerId \in Holders \cup {NoHolder}
      /\ status = "held" <=> holderPeerId # NoHolder
      /\ handoff \in HandoffRecords
  BY DEF DeliveryInv, TypeOK, PhoneTypeOK
<1>2. \A h \in Holders : Backed(h) => BackedNext(h)
  BY RowsStay DEF DeliveryInv
<1>3. ASSUME \/ status' # "held" \/ (status' = status /\ holderPeerId' = holderPeerId)
             \/ \E s \in Slots : sends[s].holder # NoHolder /\ holderPeerId' = sends[s].holder,
             \A s \in Slots : sends'[s].holder \in {sends[s].holder, NoHolder}
      PROVE  Named'
  <2>1. \A s \in Slots : sends[s].holder \in Holders \cup {NoHolder}
    BY <1>1 DEF SendRecords
  <2>2. \A s \in Slots : sends'[s].holder # NoHolder => BackedNext(sends'[s].holder)
    BY <1>2, <1>3, <2>1 DEF DeliveryInv, Named
  <2>3. status' = "held" => BackedNext(holderPeerId')
    BY <1>1, <1>2, <1>3, <2>1 DEF DeliveryInv, Named, HeldIsBacked, Backed, BackedNext
  <2> QED
    BY <2>2, <2>3 DEF Named, HeldIsBacked, Backed, BackedNext
<1>4. ASSUME PhoneStep PROVE Named'
  <2>1. ASSUME NEW s \in Slots, Compose(s) \/ Retry(s) \/ SendBegin(s) \/ SendEnd(s) \/ (\E outcome \in {"acked", "failed"} : DirectEnds(s, outcome))
        PROVE  Named'
    <3>1. IdleSend.holder = NoHolder /\ \A retry \in BOOLEAN : MarkedSend(retry).holder = NoHolder
      BY DEF IdleSend, MarkedSend
    <3>2. CASE Compose(s) \/ Retry(s)
      <4>1. status' # "held" \/ (status' = status /\ holderPeerId' = holderPeerId)
        BY <3>2 DEF Compose, Retry, Advance, Write, Keep, messageVars
      <4>2. \A t \in Slots : sends'[t].holder \in {sends[t].holder, NoHolder}
        BY <1>1, <3>1, <3>2 DEF Compose, Retry
      <4> QED
        BY <1>3, <4>1, <4>2
    <3>3. CASE SendEnd(s)
      <4>1. \A t \in Slots : sends'[t].holder \in {sends[t].holder, NoHolder}
        BY <1>1, <3>1, <3>3 DEF SendEnd, SendOutcome, Strand
      <4>2. \/ status' # "held" \/ (status' = status /\ holderPeerId' = holderPeerId)
            \/ sends[s].holder # NoHolder /\ holderPeerId' = sends[s].holder
        BY <3>3 DEF SendEnd, SendOutcome, Strand, Advance, MarkHeld, Write, Keep, messageVars
      <4> QED
        BY <1>3, <4>1, <4>2
    <3>4. CASE SendBegin(s) \/ \E outcome \in {"acked", "failed"} : DirectEnds(s, outcome)
      <4>1. \A t \in Slots : sends'[t].holder \in {sends[t].holder, NoHolder}
        <5>1. CASE SendBegin(s)
          BY <1>1, <3>1, <5>1 DEF SendBegin, SendRecords
        <5>2. CASE \E outcome \in {"acked", "failed"} : DirectEnds(s, outcome)
          BY <1>1, <5>2 DEF DirectEnds, SendRecords
        <5> QED
          BY <3>4, <5>1, <5>2
      <4>2. status' = status /\ holderPeerId' = holderPeerId
        BY <3>4 DEF SendBegin, DirectEnds, messageVars
      <4> QED
        BY <1>3, <4>1, <4>2
    <3> QED
      BY <2>1, <3>2, <3>3, <3>4
  <2>2. ASSUME HandoffStep PROVE Named'
    <3>1. UNCHANGED outboxVars
      BY <1>4 DEF PhoneStep
    <3>2. CASE HandoffDialFails
      <4>1. handoff.target \in Holders /\ handoff.mayHold \in BOOLEAN
        BY <1>1, <3>2 DEF DeliveryInv, Requests, AtHolder, HandoffDialFails, HandoffRecords
      <4> QED
        BY <3>1, <3>2, <4>1, AttemptNames DEF DeliveryInv, Requests, Left, HandoffDialFails
    <3>3. CASE HandoffUnavailable
      <4>1. handoff.target \in Holders /\ handoff.earlierMayHold \in BOOLEAN
        BY <1>1, <3>3 DEF DeliveryInv, Requests, AtHolder, HandoffUnavailable, HandoffRecords
      <4> QED
        BY <3>1, <3>3, <4>1, AttemptNames DEF DeliveryInv, Requests, Left, HandoffUnavailable
    <3>4. CASE HandoffReplyLost
      <4>1. handoff.target \in Holders
        BY <1>1, <3>4 DEF DeliveryInv, Requests, AtHolder, HandoffReplyLost
      <4> QED
        BY <3>1, <3>4, <4>1, AttemptNames DEF DeliveryInv, Requests, HandoffReplyLost
    <3>5. CASE HandoffAnswered
      <4>1. handoff.target \in Holders
        BY <1>1, <3>5 DEF DeliveryInv, Requests, AtHolder, HandoffAnswered
      <4>2. handoff.pc = "held" => BackedNext(handoff.target)
        BY <3>1 DEF DeliveryInv, Requests, Backed, BackedNext, outboxVars
      <4> QED
        BY <1>2, <3>5, <4>1, <4>2, SettleNames DEF HandoffAnswered
    <3>6. ASSUME SettleEmpty PROVE Named'
      BY <1>2, <3>6, SettleNames DEF SettleEmpty
    <3>7. CASE HandoffChoose \/ HandoffWrite \/ \E view \in RosterViews : HandoffResolve(view)
      BY <1>3, <3>6, <3>7 DEF HandoffChoose, HandoffWrite, HandoffResolve, messageVars
    <3> QED
      BY <2>2, <3>2, <3>3, <3>4, <3>5, <3>7 DEF HandoffStep
  <2>3. ASSUME NEW g \in Generations, ReconcileStep(g) PROVE Named'
    <3>1. status' # "held" \/ (status' = status /\ holderPeerId' = holderPeerId)
      BY <2>3 DEF ReconcileStep, ReconcileGoesOn, ReconcileBegin, ReconcilePoll, ReconcileHome, ReconcileSkip, Advance,
                  Write, Keep, messageVars
    <3>2. sends' = sends
      BY <2>3 DEF ReconcileStep, ReconcileGoesOn, ReconcileBegin, ReconcilePoll, ReconcileHome, ReconcileSkip
    <3> QED
      BY <1>3, <3>1, <3>2
  <2>4. ASSUME Stop \/ Recover \/ Start \/ (\E h \in Holders : Link(h) \/ Unlink(h)) PROVE Named'
    <3>1. status' # "held" \/ (status' = status /\ holderPeerId' = holderPeerId)
      BY <2>4 DEF Stop, Recover, Start, Link, Unlink, FailInterrupted, Write, Keep, messageVars
    <3>2. sends' = sends
      BY <2>4 DEF Stop, Recover, Start, Link, Unlink, jobVars
    <3> QED
      BY <1>3, <3>1, <3>2
  <2>5. ASSUME Kill PROVE Named'
    <3>1. IdleSend.holder = NoHolder
      BY DEF IdleSend
    <3> QED
      BY <1>3, <2>5, <3>1 DEF Kill, messageVars
  <2> QED
    BY <1>4, <2>1, <2>2, <2>3, <2>4, <2>5 DEF PhoneStep, SendStep
<1>5. ASSUME NEW s \in Slots, RecipientStores(s) PROVE Named'
  <2>1. \A t \in Slots : sends'[t].holder = sends[t].holder
    BY <1>1, <1>5 DEF RecipientStores, DirectStored, SendRecords
  <2> QED
    BY <1>3, <1>5, <2>1 DEF RecipientStores, DirectStored, messageVars
<1>6. CASE \/ \E h \in Holders : HolderStores(h) \/ HolderUnavailable(h) \/ HolderTakesLate(h)
           \/ \E h \in Holders : HolderStep(h) /\ UNCHANGED phoneVars
           \/ UNCHANGED vars
  <2>1. UNCHANGED <<messageVars, sends>>
    BY <1>6 DEF HolderStores, HolderUnavailable, HolderTakesLate, phoneVars, jobVars, vars
  <2> QED
    BY <1>3, <2>1 DEF messageVars
<1> QED
  BY <1>4, <1>5, <1>6 DEF Next

-----------------------------------------------------------------------------
(* The handoff job.                                                        *)

\* The job has asked nobody yet.
Fresh(job) == /\ job.pc \in {"none", "resolving", "choosing"}
              /\ ~job.mayHold /\ job.placed = {} /\ job.stray = {}

\* A job that has asked nobody owes nothing.
LEMMA FreshRequests == ASSUME Fresh(handoff') PROVE Requests'
  BY DEF Fresh, Requests, AtHolder, JobPlacesOnce

\* A failed attempt leaves the job as it describes itself.
LEMMA AttemptRequests ==
    ASSUME DeliveryInv, NEW mayHold \in BOOLEAN, AttemptFails(mayHold), UNCHANGED outboxVars,
           handoff.target \in Holders,
           mayHold => rows[handoff.target] # "none" \/ handoff.target \in handoff.stray \/ handoff.pc = "asked",
           ~mayHold => handoff.placed = {} /\ handoff.stray = {} /\ handoff.pc # "asked"
    PROVE  Requests'
<1>1. handoff \in HandoffRecords /\ JobPlacesOnce
  BY DEF DeliveryInv, Requests, TypeOK, PhoneTypeOK
<1>2. ASSUME handoff' = [handoff EXCEPT !.pc = "dialing", !.attempt = 2, !.mayHold = mayHold,
                                        !.earlierMayHold = FALSE, !.stray = StrayNow]
      PROVE  Requests'
  <2>1. /\ handoff'.pc = "dialing" /\ handoff'.mayHold = mayHold /\ handoff'.stray = StrayNow
        /\ handoff'.placed = handoff.placed /\ handoff'.target = handoff.target
    BY <1>1, <1>2 DEF HandoffRecords
  <2>2. IF mayHold THEN rows[handoff.target] # "none" \/ handoff.target \in StrayNow
        ELSE handoff.placed = {} /\ StrayNow = {}
    BY DEF StrayNow
  <2>3. \A h \in StrayNow : handoff.target = h
    BY <1>1 DEF StrayNow, JobPlacesOnce
  <2> QED
    BY <1>1, <2>1, <2>2, <2>3 DEF Requests, AtHolder, Left, JobPlacesOnce, outboxVars
<1>3. ASSUME NEW holder, NEW rejected, Settle(holder, rejected) PROVE Requests'
  BY <1>3, FreshRequests DEF Settle, Fresh, NoHandoff
<1>4. ASSUME ~mayHold,
             handoff' = [handoff EXCEPT !.pc = "choosing", !.mayHold = FALSE, !.target = NoHolder, !.attempt = 1]
      PROVE  Requests'
  <2>1. Fresh(handoff')
    BY <1>1, <1>4 DEF Fresh, HandoffRecords
  <2> QED
    BY <2>1, FreshRequests
<1> QED
  BY <1>2, <1>3, <1>4 DEF AttemptFails, Undecided, SettleEmpty

\* A step that leaves the job alone.
LEMMA UntouchedRequests ==
    ASSUME DeliveryInv, handoff' = handoff,
           \A h \in Holders : /\ rows[h] # "none" => rows'[h] # "none"
                              /\ rows[h] = "failed" => rows'[h] = "failed"
    PROVE  Requests'
<1>1. Requests
  BY DEF DeliveryInv
<1>2. AtHolder' /\ JobPlacesOnce'
  BY <1>1 DEF Requests, AtHolder, JobPlacesOnce
<1>3. ASSUME handoff.pc = "dialing" PROVE Left(handoff.mayHold) => Left(handoff.mayHold)'
  BY <1>1, <1>3 DEF Requests, AtHolder, Left
<1>4. ASSUME handoff.pc \in {"asked", "unavailable"}
      PROVE  Left(handoff.earlierMayHold) => Left(handoff.earlierMayHold)'
  BY <1>1, <1>4 DEF Requests, AtHolder, Left
<1>5. /\ handoff.pc = "held" => rows'[handoff.target] # "none"
      /\ handoff.pc = "rejected" => rows'[handoff.target] = "failed"
  BY <1>1 DEF Requests, AtHolder
<1> QED
  BY <1>1, <1>2, <1>3, <1>4, <1>5 DEF Requests

\* Every step keeps what the handoff job may have left behind.
LEMMA RequestsKept == ASSUME DeliveryInv, [Next]_vars PROVE Requests'
<1>1. /\ handoff \in HandoffRecords /\ Requests
      /\ rows \in [Holders -> {"none", "queued", "sent", "failed"}]
  BY DEF DeliveryInv, TypeOK, OutboxTypeOK, PhoneTypeOK
<1>2. \A h \in Holders : /\ rows[h] # "none" => rows'[h] # "none"
                         /\ rows[h] = "failed" => rows'[h] = "failed"
  BY RowsStay DEF DeliveryInv
<1>3. ASSUME handoff' = handoff PROVE Requests'
  BY <1>2, <1>3, UntouchedRequests
<1>4. ASSUME NEW g, NEW signal, NEW pinned, JoinHandoff(g, signal, pinned) PROVE Requests'
  <2>1. handoff' = handoff \/ Fresh(handoff')
    BY <1>4 DEF JoinHandoff, Fresh, NoHandoff
  <2> QED
    BY <1>3, <2>1, FreshRequests
<1>5. ASSUME NEW holder, NEW rejected, Settle(holder, rejected) PROVE Requests'
  BY <1>5, FreshRequests DEF Settle, Fresh, NoHandoff
<1>6. ASSUME HandoffStep, UNCHANGED outboxVars PROVE Requests'
  <2>1. ASSUME NEW view \in RosterViews, HandoffResolve(view) PROVE Requests'
    <3>1. CASE handoff.pc = "resolving" /\ handoff' = [handoff EXCEPT !.pc = "choosing", !.pinned = NoHolder, !.untried = Candidates(view)]
      <4>1. Fresh(handoff')
        BY <1>1, <3>1 DEF Fresh, HandoffRecords, Requests
      <4> QED
        BY <4>1, FreshRequests
    <3> QED
      BY <1>5, <2>1, <3>1 DEF HandoffResolve, SettleEmpty
  <2>2. ASSUME HandoffChoose PROVE Requests'
    <3>1. ASSUME NEW h \in handoff.untried, handoff.pc = "choosing",
                 handoff' = [handoff EXCEPT !.pc = "dialing", !.target = h, !.untried = @ \ {h}]
          PROVE  Requests'
      <4>1. /\ handoff'.pc = "dialing" /\ handoff'.target = h /\ handoff'.mayHold = handoff.mayHold
            /\ handoff'.placed = handoff.placed /\ handoff'.stray = handoff.stray /\ h \in Holders
        BY <1>1, <3>1 DEF HandoffRecords
      <4> QED
        BY <1>1, <3>1, <4>1 DEF Requests, AtHolder, Left, JobPlacesOnce
    <3> QED
      BY <1>5, <2>2, <3>1 DEF HandoffChoose, SettleEmpty
  <2>3. ASSUME HandoffWrite PROVE Requests'
    <3>1. /\ handoff'.pc = "asked" /\ handoff'.target = handoff.target /\ handoff'.earlierMayHold = handoff.mayHold
          /\ handoff'.placed = handoff.placed /\ handoff'.stray = handoff.stray
      BY <1>1, <2>3 DEF HandoffRecords, HandoffWrite
    <3> QED
      BY <1>1, <1>6, <2>3, <3>1 DEF Requests, AtHolder, Left, JobPlacesOnce, outboxVars, HandoffWrite
  <2>4. CASE HandoffDialFails
    <3>1. handoff.target \in Holders /\ handoff.mayHold \in BOOLEAN
      BY <1>1, <2>4 DEF Requests, AtHolder, HandoffDialFails, HandoffRecords
    <3> QED
      BY <1>1, <1>6, <2>4, <3>1, AttemptRequests DEF Requests, Left, HandoffDialFails
  <2>5. CASE HandoffUnavailable
    <3>1. handoff.target \in Holders /\ handoff.earlierMayHold \in BOOLEAN
      BY <1>1, <2>5 DEF Requests, AtHolder, HandoffUnavailable, HandoffRecords
    <3> QED
      BY <1>1, <1>6, <2>5, <3>1, AttemptRequests DEF Requests, Left, HandoffUnavailable
  <2>6. CASE HandoffReplyLost
    <3>1. handoff.target \in Holders
      BY <1>1, <2>6 DEF Requests, AtHolder, HandoffReplyLost
    <3> QED
      BY <1>1, <1>6, <2>6, <3>1, AttemptRequests DEF Requests, HandoffReplyLost
  <2>7. CASE HandoffAnswered
    BY <1>5, <2>7 DEF HandoffAnswered
  <2> QED
    BY <1>6, <2>1, <2>2, <2>3, <2>4, <2>5, <2>6, <2>7 DEF HandoffStep
<1>7. ASSUME NEW h \in Holders, HolderStores(h) PROVE Requests'
  <2>1. /\ handoff'.pc = IF rows[h] = "failed" THEN "rejected" ELSE "held"
        /\ handoff'.target = h /\ handoff.target = h
        /\ handoff'.placed \subseteq handoff.placed \cup {h} /\ handoff'.stray \subseteq handoff.stray
    BY <1>1, <1>7 DEF HandoffRecords, HolderStores, Refuses
  <2>2. rows'[h] # "none" /\ (rows[h] = "failed" => rows'[h] = "failed")
    BY <1>1, <1>7 DEF HolderStores, Enqueue
  <2> QED
    BY <1>1, <2>1, <2>2 DEF Requests, AtHolder, JobPlacesOnce
<1>8. ASSUME NEW h \in Holders, HolderUnavailable(h) PROVE Requests'
  <2>1. /\ handoff'.pc = "unavailable" /\ handoff'.target = handoff.target /\ handoff'.earlierMayHold = handoff.earlierMayHold
        /\ handoff'.placed = handoff.placed /\ handoff'.stray = handoff.stray
    BY <1>1, <1>8 DEF HandoffRecords, HolderUnavailable
  <2> QED
    BY <1>1, <1>8, <2>1 DEF Requests, AtHolder, Left, JobPlacesOnce, HolderUnavailable, outboxVars
<1>9. ASSUME NEW h \in Holders, HolderTakesLate(h) PROVE Requests'
  <2>1. /\ handoff'.pc = handoff.pc /\ handoff'.target = handoff.target /\ handoff'.mayHold = handoff.mayHold
        /\ handoff'.earlierMayHold = handoff.earlierMayHold
        /\ handoff'.stray = handoff.stray \ {h}
        /\ handoff'.placed = handoff.placed \cup (handoff.stray \cap {h})
    BY <1>1, <1>9 DEF HandoffRecords, HolderTakesLate
  <2>2. rows'[h] # "none"
    BY <1>1, <1>9 DEF HolderTakesLate, Enqueue
  <2>3. JobPlacesOnce'
    BY <1>1, <2>1 DEF Requests, JobPlacesOnce
  <2>4. ASSUME NEW mayHold \in BOOLEAN, handoff.target \in Holders, Left(mayHold)
        PROVE  IF mayHold THEN rows'[handoff'.target] # "none" \/ handoff'.target \in handoff'.stray
               ELSE handoff'.placed = {} /\ handoff'.stray = {}
    BY <1>2, <2>1, <2>2, <2>4 DEF Left
  <2>5. handoff'.pc = "dialing" => Left(handoff.mayHold)'
    BY <1>1, <2>1, <2>4 DEF Requests, AtHolder, Left, HandoffRecords
  <2>6. handoff'.pc \in {"asked", "unavailable"} => Left(handoff.earlierMayHold)'
    BY <1>1, <2>1, <2>4 DEF Requests, AtHolder, Left, HandoffRecords
  <2>7. /\ handoff.pc = "held" => rows'[handoff.target] # "none"
        /\ handoff.pc = "rejected" => rows'[handoff.target] = "failed"
    BY <1>1, <1>2 DEF Requests, AtHolder
  <2>8. AtHolder'
    BY <1>1, <2>1 DEF Requests, AtHolder
  <2> QED
    BY <1>1, <2>1, <2>3, <2>5, <2>6, <2>7, <2>8 DEF Requests
<1>10. \/ handoff' = handoff
       \/ \E g, signal, pinned : JoinHandoff(g, signal, pinned)
       \/ (HandoffStep /\ UNCHANGED outboxVars) \/ Kill
       \/ \E h \in Holders : HolderStores(h) \/ HolderUnavailable(h) \/ HolderTakesLate(h)
  BY DEF Next, PhoneStep, Stop, Recover, Start, Link, Unlink, Compose, Retry, SendStep, SendBegin, SendEnd, SendOutcome, Strand,
         DirectEnds,
       RecipientStores, DirectStored, ReconcileStep, ReconcileGoesOn, ReconcileBegin, ReconcilePoll, ReconcileHome,
       ReconcileSkip, phoneVars, jobVars, vars
<1>11. ASSUME Kill PROVE Requests'
  BY <1>11, FreshRequests DEF Kill, Fresh, NoHandoff
<1> QED
  BY <1>3, <1>4, <1>6, <1>7, <1>8, <1>9, <1>10, <1>11

-----------------------------------------------------------------------------
(* A message marked as sending.                                            *)

\* A settled job leaves the send jobs where they are.
LEMMA SettleAttends ==
    ASSUME DeliveryInv, NEW holder, NEW rejected, Settle(holder, rejected)
    PROVE  /\ \A s \in Slots : sends'[s].pc = sends[s].pc /\ sends'[s].gen = sends[s].gen
           /\ status' = "sending" => status = "sending" /\ strandedIn' = strandedIn
<1>1. sends \in [Slots -> SendRecords]
  BY DEF DeliveryInv, TypeOK, PhoneTypeOK
<1>2. \A s \in Slots : sends'[s].pc = sends[s].pc /\ sends'[s].gen = sends[s].gen
  BY <1>1 DEF Settle, SendRecords
<1>3. status' = "sending" => status = "sending" /\ strandedIn' = strandedIn
  BY DEF Settle, WriteResult, Keep, FailRejected, MarkHeld, Write, messageVars
<1> QED
  BY <1>2, <1>3

\* No step leaves a message sending with nobody at work on it.
LEMMA AttendedKept == ASSUME DeliveryInv, [Next]_vars PROVE SendingIsAttended'
<1>1. /\ sends \in [Slots -> SendRecords] /\ status \in Statuses
      /\ SendingIsAttended
  BY DEF DeliveryInv, TypeOK, PhoneTypeOK
<1>2. ASSUME \A s \in Slots : sends'[s].pc = sends[s].pc /\ sends'[s].gen = sends[s].gen,
             status' = "sending" => status = "sending" /\ strandedIn' = strandedIn,
             UNCHANGED <<generation, running>>
      PROVE  SendingIsAttended'
  BY <1>1, <1>2 DEF SendingIsAttended
<1>3. ASSUME sends' = sends, status' = "sending" => status = "sending" /\ strandedIn' = strandedIn, UNCHANGED <<generation, running>>
      PROVE  SendingIsAttended'
  BY <1>2, <1>3
<1>4. ASSUME NEW s \in Slots, Compose(s) \/ Retry(s) \/ SendBegin(s) \/ SendEnd(s) \/ (\E outcome \in {"acked", "failed"} : DirectEnds(s, outcome))
      PROVE  SendingIsAttended'
  <2>1. \A retry \in BOOLEAN : MarkedSend(retry).pc = "marked" /\ MarkedSend(retry).gen = generation
    BY DEF MarkedSend, IdleSend
  <2>2. ASSUME NEW retry \in BOOLEAN, sends' = [sends EXCEPT ![s] = MarkedSend(retry)], generation' = generation
        PROVE  SendingIsAttended'
    <3>1. sends'[s].pc # "idle" /\ sends'[s].gen = generation'
      BY <1>1, <2>1, <2>2
    <3> QED
      BY <3>1 DEF SendingIsAttended
  <2>3. CASE Compose(s)
    <3>1. CASE sends' = [sends EXCEPT ![s] = MarkedSend(FALSE)]
      BY <2>2, <2>3, <3>1 DEF Compose, sessionVars
    <3>2. CASE Write("failed", NoHolder)
      BY <3>2 DEF Write, SendingIsAttended
    <3> QED
      BY <2>3, <3>1, <3>2 DEF Compose
  <2>4. CASE Retry(s)
    BY <2>2, <2>4 DEF Retry, sessionVars
  <2>5. ASSUME sends' = [sends EXCEPT ![s] = IdleSend], UNCHANGED <<generation, running>>,
               status' = "sending" => status = "sending" /\ strandedIn' = strandedIn /\ ~Current(sends[s].gen)
        PROVE  SendingIsAttended'
    BY <1>1, <2>5 DEF SendingIsAttended, Current
  <2>6. CASE SendBegin(s)
    <3>1. CASE sends' = [sends EXCEPT ![s].pc = "open", ![s].waiting = TRUE]
      <4>1. \A t \in Slots : sends'[t].gen = sends[t].gen /\ (sends[t].pc # "idle" => sends'[t].pc # "idle")
        BY <1>1, <3>1 DEF SendRecords
      <4>2. UNCHANGED <<status, strandedIn, generation, running>>
        BY <2>6 DEF SendBegin, messageVars, sessionVars
      <4> QED
        BY <1>1, <4>1, <4>2 DEF SendingIsAttended
    <3> QED
      BY <2>5, <2>6, <3>1 DEF SendBegin, messageVars, sessionVars
  <2>7. CASE SendEnd(s)
    <3>1. CASE ~Current(sends[s].gen)
      <4>1. UNCHANGED <<status, strandedIn>>
        BY <2>7, <3>1 DEF SendEnd, Keep, messageVars
      <4> QED
        BY <2>5, <2>7, <3>1, <4>1 DEF SendEnd, sessionVars
    <3>2. CASE Current(sends[s].gen)
      <4>1. Strand \/ (\E to \in {"sent", "failed"} : Advance(to)) \/ MarkHeld(sends[s].holder)
        BY <2>7, <3>2 DEF SendEnd, SendOutcome
      <4>2. ASSUME NEW to \in {"sent", "failed"}, Advance(to) PROVE status' # "sending"
        BY <4>2 DEF Advance, AdvanceFrom, Write, Keep, messageVars
      <4>3. ASSUME MarkHeld(sends[s].holder) PROVE status' # "sending"
        BY <4>3 DEF MarkHeld, Write, Keep, messageVars
      <4>4. generation' = generation
        BY <2>7 DEF SendEnd, sessionVars
      <4> QED
        BY <4>1, <4>2, <4>3, <4>4 DEF Strand, SendingIsAttended
    <3> QED
      BY <3>1, <3>2
  <2>8. ASSUME NEW outcome \in {"acked", "failed"}, DirectEnds(s, outcome) PROVE SendingIsAttended'
    <3>1. \A t \in Slots : sends'[t].pc = sends[t].pc /\ sends'[t].gen = sends[t].gen
      BY <1>1, <2>8 DEF DirectEnds, SendRecords
    <3> QED
      BY <1>2, <2>8, <3>1 DEF DirectEnds, messageVars, sessionVars
  <2> QED
    BY <1>4, <2>3, <2>4, <2>6, <2>7, <2>8
<1>5. ASSUME HandoffStep PROVE SendingIsAttended'
  <2>1. ASSUME NEW holder, NEW rejected, Settle(holder, rejected), UNCHANGED sessionVars
        PROVE  SendingIsAttended'
    BY <1>2, <2>1, SettleAttends DEF sessionVars
  <2>2. /\ UNCHANGED sessionVars
        /\ UNCHANGED <<messageVars, sends>> \/ \E holder, rejected : Settle(holder, rejected)
    BY <1>5 DEF HandoffStep, HandoffResolve, HandoffChoose, HandoffWrite, HandoffDialFails,
                HandoffUnavailable, HandoffReplyLost,
         HandoffAnswered, AttemptFails, Undecided, SettleEmpty
  <2> QED
    BY <1>3, <2>1, <2>2 DEF messageVars, sessionVars
<1>6. ASSUME NEW g \in Generations, ReconcileStep(g) PROVE SendingIsAttended'
  <2>1. status' = "sending" => status = "sending" /\ strandedIn' = strandedIn
    BY <1>6 DEF ReconcileStep, ReconcileGoesOn, ReconcileBegin, ReconcilePoll, ReconcileHome, ReconcileSkip, Advance, Write,
                Keep, messageVars
  <2> QED
    BY <1>3, <1>6, <2>1 DEF ReconcileStep, ReconcileGoesOn, ReconcileBegin, ReconcilePoll, ReconcileHome, ReconcileSkip,
                            sessionVars
<1>7. ASSUME Stop \/ Kill PROVE SendingIsAttended'
  BY <1>7 DEF Stop, Kill, SendingIsAttended
<1>8. ASSUME Recover \/ Start PROVE SendingIsAttended'
  <2>1. status' # "sending" \/ UNCHANGED <<messageVars, sends, generation, running>>
    BY <1>8 DEF Recover, Start, FailInterrupted, Write, Keep, messageVars, jobVars
  <2> QED
    BY <1>3, <2>1 DEF messageVars, SendingIsAttended
<1>9. ASSUME \E h \in Holders : Link(h) \/ Unlink(h) PROVE SendingIsAttended'
  BY <1>3, <1>9 DEF Link, Unlink, messageVars, sessionVars, jobVars
<1>10. ASSUME NEW s \in Slots, RecipientStores(s) PROVE SendingIsAttended'
  <2>1. \A t \in Slots : sends'[t].pc = sends[t].pc /\ sends'[t].gen = sends[t].gen
    BY <1>1, <1>10 DEF RecipientStores, DirectStored, SendRecords
  <2> QED
    BY <1>2, <1>10, <2>1 DEF RecipientStores, DirectStored, messageVars, sessionVars
<1>11. ASSUME \/ \E h \in Holders : HolderStores(h) \/ HolderUnavailable(h) \/ HolderTakesLate(h)
              \/ \E h \in Holders : HolderStep(h) /\ UNCHANGED phoneVars
              \/ UNCHANGED vars
       PROVE  SendingIsAttended'
  BY <1>3, <1>11 DEF HolderStores, HolderUnavailable, HolderTakesLate, messageVars, sessionVars, phoneVars,
                     jobVars, vars
<1> QED
  BY <1>4, <1>5, <1>6, <1>7, <1>8, <1>9, <1>10, <1>11 DEF Next, PhoneStep, SendStep

-----------------------------------------------------------------------------
(* The invariant, and what it says.                                        *)

\* The invariant is inductive.
LEMMA DeliveryNext == ASSUME DeliveryInv, [Next]_vars PROVE DeliveryInv'
<1>1. TypeOK'
  BY TypesKept DEF DeliveryInv, Requests
<1> QED
  BY <1>1, ToldKept, NamedKept, PollingKept, RequestsKept, AttendedKept DEF DeliveryInv

\* What the phone's jobs, the holders and the network keep true at every step.
THEOREM DeliveryInvariant == Spec => []DeliveryInv
<1>1. Init => DeliveryInv
  BY DeliveryInit
<1>2. DeliveryInv /\ [Next]_vars => DeliveryInv'
  BY DeliveryNext
<1> QED
  BY <1>1, <1>2, PTL DEF Spec

\* Neither the phone nor a holder reports a delivery that did not happen, whatever acknowledgements
\* are lost and whichever jobs outlive a restart (sendStoredMessage, applyReceipts, deliverOne).
THEOREM NoFalseReceipt == Spec => []SentWasStored
<1>1. DeliveryInv => SentWasStored
  BY DEF DeliveryInv, Told
<1> QED
  BY <1>1, DeliveryInvariant, PTL

\* A message shown as held is with that holder, or a request is still on its way to it
\* (tryHolder's mayHold, markMessageHeldByOwnDevice).
THEOREM HeldIsHeld == Spec => []HeldIsBacked
<1>1. DeliveryInv => HeldIsBacked
  BY DEF DeliveryInv, Named
<1> QED
  BY <1>1, DeliveryInvariant, PTL

\* While the endpoint runs, a job of the present session works on every message marked as sending
\* (failInterruptedSends on start and stop, sendStoredMessage).
THEOREM NoSendIsAbandoned == Spec => []SendingIsAttended
<1>1. DeliveryInv => SendingIsAttended
  BY DEF DeliveryInv
<1> QED
  BY <1>1, DeliveryInvariant, PTL

\* One handoff job leaves a message with one holder, although attempts time out and their requests
\* arrive late (performHandoff, tryHolder).
THEOREM OneHolderPerJob == Spec => []JobPlacesOnce
<1>1. DeliveryInv => JobPlacesOnce
  BY DEF DeliveryInv, Requests
<1> QED
  BY <1>1, DeliveryInvariant, PTL

-----------------------------------------------------------------------------

\* Only a refused handoff takes the mark of a held message away without a delivery.
LEMMA HeldFailsRefused ==
    ASSUME DeliveryInv, [Next]_vars, status = "held", status' = "failed"
    PROVE  \E h \in Holders : rows[h] = "failed"
<1>1. ASSUME NEW to \in {"failed", "sending", "sent"}, Advance(to) PROVE FALSE
  BY <1>1 DEF Advance, AdvanceFrom, Write, Keep, messageVars
<1>2. ASSUME NEW h, MarkHeld(h) PROVE FALSE
  BY <1>2 DEF MarkHeld, Write, Keep, messageVars
<1>3. ASSUME FailInterrupted \/ Keep PROVE FALSE
  BY <1>3 DEF FailInterrupted, Write, Keep, messageVars
<1>4. ASSUME NEW holder, Settle(holder, FALSE) PROVE FALSE
  BY <1>2, <1>3, <1>4 DEF Settle, WriteResult
<1>5. ASSUME HandoffStep PROVE \E h \in Holders : rows[h] = "failed"
  <2>1. CASE HandoffAnswered /\ handoff.pc = "rejected"
    BY <2>1 DEF DeliveryInv, Requests, AtHolder
  <2>2. \/ UNCHANGED messageVars \/ (\E holder : Settle(holder, FALSE)) \/ (HandoffAnswered /\ handoff.pc = "rejected")
    BY <1>5 DEF HandoffStep, HandoffResolve, HandoffChoose, HandoffWrite, HandoffDialFails,
                HandoffUnavailable, HandoffReplyLost,
         HandoffAnswered, AttemptFails, Undecided, SettleEmpty
  <2> QED
    BY <1>3, <1>4, <2>1, <2>2 DEF Keep
<1>6. ASSUME NEW s \in Slots, Compose(s) \/ Retry(s) \/ SendStep(s) PROVE FALSE
  BY <1>1, <1>2, <1>3, <1>6 DEF Compose, Retry, SendStep, SendBegin, SendEnd, SendOutcome, Strand, DirectEnds, Keep
<1>7. ASSUME NEW g \in Generations, ReconcileStep(g) PROVE FALSE
  BY <1>1, <1>3, <1>7 DEF ReconcileStep, ReconcileGoesOn, ReconcileBegin, ReconcilePoll, ReconcileHome, ReconcileSkip, Keep
<1>8. ASSUME Stop \/ Recover \/ Start \/ Kill \/ (\E h \in Holders : Link(h) \/ Unlink(h)) PROVE FALSE
  BY <1>3, <1>8 DEF Stop, Recover, Start, Kill, Link, Unlink, Keep
<1>9. ASSUME \/ \E s \in Slots : RecipientStores(s)
             \/ \E h \in Holders : HolderStores(h) \/ HolderUnavailable(h) \/ HolderTakesLate(h)
             \/ \E h \in Holders : HolderStep(h) /\ UNCHANGED phoneVars
             \/ UNCHANGED vars
      PROVE  FALSE
  BY <1>3, <1>9 DEF RecipientStores, DirectStored, HolderStores, HolderUnavailable, HolderTakesLate,
                    phoneVars, vars, Keep
<1> QED
  BY <1>5, <1>6, <1>7, <1>8, <1>9 DEF Next, PhoneStep

\* The instance's sets, as the proofs name them.
Entrusted == {h \in Holders : rows[h] # "none" \/ h \in lateRequests}
Reported == {h \in Holders : rows[h] = "sent"}
Refused == {h \in Holders : rows[h] = "failed"}

\* Nobody works on a message that is not composed, or has heard of it.
Uncomposed ==
  status = "none" =>
    /\ lateRequests = {} /\ handoff.pc = "none"
    /\ \A h \in Holders : rows[h] = "none"
    /\ \A s \in Slots : sends[s].pc = "idle"
    /\ \A g \in Generations : reconciles[g].pc = "idle"

\* What the row can turn into.
Moves ==
  \/ UNCHANGED <<status, holderPeerId>>
  \/ status \in {"sending", "failed", "held"} /\ status' = "sent" /\ holderPeerId' = NoHolder
  \/ status \in {"sending", "held"} /\ status' = "failed" /\ holderPeerId' = NoHolder
  \/ status \in {"sending", "held"} /\ status' = "held" /\ holderPeerId' \in Holders

\* A step of the phone other than composing and retrying moves the row forward.
LEMMA RowMoves ==
    ASSUME DeliveryInv, PhoneStep
    PROVE  Moves \/ \E s \in Slots : Compose(s) \/ Retry(s)
<1>1. /\ sends \in [Slots -> SendRecords] /\ handoff.target \in Holders \cup {NoHolder}
      /\ handoff.mayHold \in BOOLEAN /\ handoff.earlierMayHold \in BOOLEAN
  BY DEF DeliveryInv, TypeOK, PhoneTypeOK, HandoffRecords
<1>2. ASSUME NEW to \in {"failed", "sent"}, Advance(to) PROVE Moves
  BY <1>2 DEF Advance, AdvanceFrom, Write, Keep, messageVars, Moves
<1>3. ASSUME NEW h \in Holders, MarkHeld(h) PROVE Moves
  BY <1>3 DEF MarkHeld, Write, Keep, messageVars, Moves
<1>4. ASSUME FailRejected \/ FailInterrupted \/ Keep PROVE Moves
  BY <1>4 DEF FailRejected, FailInterrupted, Write, Keep, messageVars, Moves
<1>5. ASSUME NEW holder \in Holders \cup {NoHolder}, NEW rejected \in BOOLEAN, Settle(holder, rejected)
      PROVE  Moves
  <2>1. Keep \/ FailRejected \/ (holder # NoHolder /\ MarkHeld(holder))
    BY <1>5 DEF Settle, WriteResult
  <2> QED
    BY <1>3, <1>4, <2>1
<1>6. CASE HandoffStep
  <2>1. ASSUME SettleEmpty PROVE Moves
    BY <1>5, <2>1 DEF SettleEmpty
  <2>2. ASSUME NEW mayHold \in BOOLEAN, AttemptFails(mayHold) PROVE Moves
    BY <1>1, <1>4, <1>5, <2>1, <2>2 DEF AttemptFails, Undecided, Keep
  <2>3. CASE HandoffDialFails \/ HandoffUnavailable \/ HandoffReplyLost
    BY <1>1, <2>2, <2>3 DEF HandoffDialFails, HandoffUnavailable, HandoffReplyLost
  <2>4. CASE HandoffAnswered
    BY <1>1, <1>5, <2>4 DEF HandoffAnswered
  <2>5. CASE HandoffChoose \/ HandoffWrite \/ \E view \in RosterViews : HandoffResolve(view)
    <3>1. SettleEmpty \/ UNCHANGED <<status, holderPeerId>>
      BY <2>5 DEF HandoffChoose, HandoffWrite, HandoffResolve, messageVars
    <3> QED
      BY <2>1, <3>1 DEF Moves
  <2> QED
    BY <1>6, <2>3, <2>4, <2>5 DEF HandoffStep
<1>7. ASSUME NEW s \in Slots, SendStep(s) PROVE Moves
  <2>1. sends[s].holder \in Holders \cup {NoHolder}
    BY <1>1 DEF SendRecords
  <2> QED
    BY <1>2, <1>3, <1>4, <1>7, <2>1
       DEF SendStep, SendBegin, SendEnd, SendOutcome, Strand, DirectEnds, Keep, messageVars, Moves
<1>8. ASSUME NEW g \in Generations, ReconcileStep(g) PROVE Moves
  <2>1. UNCHANGED <<status, holderPeerId>> \/ Advance("sent")
    BY <1>8 DEF ReconcileStep, ReconcileGoesOn, ReconcileBegin, ReconcilePoll, ReconcileHome, ReconcileSkip, Keep, messageVars
  <2> QED
    BY <1>2, <2>1 DEF Moves
<1>9. CASE Stop \/ Recover \/ Start \/ Kill \/ (\E h \in Holders : Link(h) \/ Unlink(h))
  BY <1>4, <1>9 DEF Stop, Recover, Start, Kill, Link, Unlink, Keep
<1> QED
  BY <1>6, <1>7, <1>8, <1>9 DEF PhoneStep

\* Composing is what begins it: until then no job, request or row appears.
LEMMA UncomposedKept ==
    ASSUME DeliveryInv, Uncomposed, [Next]_vars
    PROVE  Uncomposed'
<1> SUFFICES ASSUME status' = "none"
             PROVE  /\ lateRequests' = {} /\ handoff'.pc = "none"
                    /\ \A h \in Holders : rows'[h] = "none"
                    /\ \A s \in Slots : sends'[s].pc = "idle"
                    /\ \A g \in Generations : reconciles'[g].pc = "idle"
  BY DEF Uncomposed
<1>1. ASSUME NEW s \in Slots, Compose(s) \/ Retry(s) PROVE FALSE
  BY <1>1 DEF Compose, Retry, Advance, AdvanceFrom, Write
<1>2. status = "none"
  <2>1. CASE PhoneStep
    BY <1>1, <2>1, RowMoves DEF Moves
  <2>2. CASE ~PhoneStep
    <3>1. status' = status
      BY <2>2 DEF Next, RecipientStores, DirectStored, HolderStores, HolderUnavailable, HolderTakesLate,
                  phoneVars, messageVars, vars
    <3> QED
      BY <3>1
  <2> QED
    BY <2>1, <2>2
<1>3. /\ lateRequests = {} /\ handoff.pc = "none" /\ handoff.stray = {}
      /\ \A h \in Holders : rows[h] = "none"
      /\ \A s \in Slots : sends[s].pc = "idle"
      /\ \A g \in Generations : reconciles[g].pc = "idle"
  BY <1>2 DEF Uncomposed, DeliveryInv, Requests
<1>4. StrayNow = {}
  BY <1>3 DEF StrayNow
<1>5. CASE PhoneStep
  <2>1. ~HandoffStep
    BY <1>3 DEF HandoffStep, HandoffResolve, HandoffChoose, HandoffWrite, HandoffDialFails,
                HandoffUnavailable, HandoffReplyLost, HandoffAnswered
  <2>2. \A s \in Slots : ~SendStep(s)
    BY <1>3 DEF SendStep, SendBegin, SendEnd, SendOutcome, Strand, DirectEnds
  <2>3. \A g \in Generations : ~ReconcileStep(g)
    BY <1>2, <1>3 DEF ReconcileStep, ReconcileGoesOn, ReconcileBegin, ReconcilePoll, ReconcileHome, ReconcileSkip
  <2>4. CASE Stop \/ Recover \/ Start \/ \E h \in Holders : Link(h) \/ Unlink(h)
    BY <1>3, <1>5, <2>4 DEF Stop, Recover, Start, Link, Unlink, jobVars, PhoneStep, outboxVars
  <2>5. CASE Kill
    BY <1>3, <1>4, <1>5, <2>5 DEF Kill, IdleSend, NoHandoff, IdleReconcile, PhoneStep, outboxVars
  <2> QED
    BY <1>1, <1>5, <2>1, <2>2, <2>3, <2>4, <2>5 DEF PhoneStep
<1>6. \A s \in Slots : ~RecipientStores(s)
  BY <1>3 DEF RecipientStores, DirectStored
<1>7. \A h \in Holders : ~HolderStores(h) /\ ~HolderUnavailable(h) /\ ~HolderTakesLate(h) /\ ~HolderStep(h)
  BY <1>3 DEF HolderStores, HolderUnavailable, HolderTakesLate, HolderStep, Deliver, GiveUp
<1>8. CASE UNCHANGED vars
  BY <1>3, <1>8 DEF vars, outboxVars, phoneVars, jobVars
<1> QED
  BY <1>5, <1>6, <1>7, <1>8 DEF Next

\* A step of the phone is a step of the promise.
LEMMA PhoneImplements ==
    ASSUME DeliveryInv, Uncomposed, DeliveryInv', Uncomposed', Next, PhoneStep
    PROVE  [Promise!Next]_(Promise!promiseVars)
<1>1. rows' = rows /\ stored' = stored
  BY DEF PhoneStep, outboxVars
<1>2. Entrusted' \in SUBSET Holders /\ Entrusted' = Entrusted \cup Entrusted'
  BY RowsStay DEF DeliveryInv, Entrusted, Backed, BackedNext
<1>3. Reported' = Reported /\ Refused' = Refused
  BY <1>1 DEF Reported, Refused
<1>4. ASSUME NEW s \in Slots, Compose(s) PROVE Promise!Next
  <2>1. Entrusted' = Entrusted
    BY <1>1, <1>4 DEF Compose, Entrusted
  <2>2. Promise!Compose
    BY <1>1, <1>3, <1>4, <2>1 DEF Compose, Write, Promise!Compose, Promise!Show, Entrusted, Reported, Refused
  <2> QED
    BY <2>2 DEF Promise!Next
<1>5. ASSUME NEW s \in Slots, Retry(s) PROVE Promise!Next
  <2>1. Entrusted' = Entrusted
    BY <1>1, <1>5 DEF Retry, Entrusted
  <2>2. status' = "sending" /\ holderPeerId' = NoHolder /\ status = "failed"
    BY <1>5 DEF Retry, Advance, AdvanceFrom, Write
  <2>3. Promise!Retry
    BY <1>1, <1>3, <2>1, <2>2 DEF Promise!Retry, Promise!Show, Entrusted, Reported, Refused
  <2> QED
    BY <2>3 DEF Promise!Next
<1>6. CASE Moves /\ status = "none"
  <2>1. UNCHANGED <<status, holderPeerId>>
    BY <1>6 DEF Moves
  <2>2. Entrusted' = {} /\ Entrusted = {}
    BY <1>6, <2>1 DEF Uncomposed, Entrusted
  <2> QED
    BY <1>1, <1>3, <2>1, <2>2 DEF Promise!promiseVars, Entrusted, Reported, Refused
<1>7. CASE Moves /\ status # "none"
  <2>1. \E more \in SUBSET Holders : Promise!Entrust(more)
    BY <1>2, <1>7 DEF Promise!Entrust, Entrusted
  <2>2. CASE UNCHANGED <<status, holderPeerId>>
    BY <1>1, <1>3, <2>1, <2>2 DEF Promise!Next, Promise!PhoneStep, Reported, Refused
  <2>3. CASE status \in {"sending", "failed", "held"} /\ status' = "sent" /\ holderPeerId' = NoHolder
    <3>1. Promise!Confirm
      BY <2>3, SentIsTold DEF Promise!Confirm, Promise!Show
    <3> QED
      BY <1>1, <1>3, <2>1, <3>1 DEF Promise!Next, Promise!PhoneStep, Reported, Refused
  <2>4. CASE status \in {"sending", "held"} /\ status' = "failed" /\ holderPeerId' = NoHolder
    <3>1. status = "held" => Refused # {}
      BY <2>4, HeldFailsRefused DEF Refused
    <3>2. Promise!Fail
      BY <2>4, <3>1 DEF Promise!Fail, Promise!Show, Refused
    <3> QED
      BY <1>1, <1>3, <2>1, <3>2 DEF Promise!Next, Promise!PhoneStep, Reported, Refused
  <2>5. CASE status \in {"sending", "held"} /\ status' = "held" /\ holderPeerId' \in Holders
    <3>1. holderPeerId' \in Entrusted'
      BY <2>5 DEF DeliveryInv, Named, HeldIsBacked, Entrusted
    <3>2. PICK h \in Holders : h = holderPeerId'
      BY <2>5
    <3>3. Promise!Hold(h)
      BY <2>5, <3>1, <3>2 DEF Promise!Hold, Promise!Show, Entrusted
    <3> QED
      BY <1>1, <1>3, <2>1, <3>3 DEF Promise!Next, Promise!PhoneStep, Reported, Refused
  <2> QED
    BY <1>7, <2>2, <2>3, <2>4, <2>5 DEF Moves
<1> QED
  BY <1>4, <1>5, <1>6, <1>7, RowMoves

\* A holder that takes the message is entrusted with it.
LEMMA TakingImplements ==
    ASSUME DeliveryInv, Uncomposed, NEW h \in Holders, HolderStores(h) \/ HolderTakesLate(h)
    PROVE  Promise!Next
<1>1. rows \in [Holders -> {"none", "queued", "sent", "failed"}]
  BY DEF DeliveryInv, TypeOK, OutboxTypeOK
<1>2. status # "none"
  BY DEF Uncomposed, DeliveryInv, Requests, HolderStores, HolderTakesLate
<1>3. /\ UNCHANGED <<status, holderPeerId, stored>>
      /\ lateRequests' = lateRequests \ {h}
      /\ rows' = IF rows[h] = "none" THEN [rows EXCEPT ![h] = "queued"] ELSE rows
  BY DEF HolderStores, HolderTakesLate, Enqueue, messageVars
<1>4. Reported' = Reported /\ Refused' = Refused /\ Entrusted' = Entrusted \cup {h}
  BY <1>1, <1>3 DEF Reported, Refused, Entrusted
<1>5. Promise!Entrust({h})
  BY <1>2, <1>4 DEF Promise!Entrust, Entrusted
<1>6. Promise!PhoneStep
  BY <1>3, <1>4, <1>5 DEF Promise!PhoneStep, Reported, Refused
<1> QED
  BY <1>6 DEF Promise!Next

\* A holder's own steps, and the recipient's.
LEMMA DeliveringImplements ==
    ASSUME DeliveryInv, Uncomposed,
           \/ \E s \in Slots : RecipientStores(s)
           \/ \E h \in Holders : HolderStep(h) /\ UNCHANGED phoneVars
    PROVE  Promise!Next
<1>1. rows \in [Holders -> {"none", "queued", "sent", "failed"}]
  BY DEF DeliveryInv, TypeOK, OutboxTypeOK
<1>2. ASSUME NEW s \in Slots, RecipientStores(s) PROVE Promise!Next
  <2>1. status # "none"
    BY <1>2 DEF Uncomposed, RecipientStores, DirectStored
  <2>2. UNCHANGED <<status, holderPeerId, rows, lateRequests>> /\ stored'
    BY <1>2 DEF RecipientStores, DirectStored, messageVars
  <2>3. stored' = TRUE
    BY <1>2 DEF RecipientStores
  <2>4. Promise!ArriveDirectly
    BY <2>1, <2>2, <2>3 DEF Promise!ArriveDirectly
  <2> QED
    BY <2>4 DEF Promise!Next
<1>3. ASSUME NEW h \in Holders, HolderStep(h), UNCHANGED phoneVars PROVE Promise!Next
  <2>1. UNCHANGED <<status, holderPeerId, lateRequests>> /\ rows[h] = "queued"
    BY <1>3 DEF phoneVars, messageVars, jobVars, HolderStep, Deliver, GiveUp
  <2>2. h \in Entrusted \ (Reported \cup Refused)
    BY <2>1 DEF Entrusted, Reported, Refused
  <2>3. h \in Promise!Undecided
    BY <2>2 DEF Promise!Undecided, Entrusted, Reported, Refused
  <2>4. CASE GiveUp(h)
    <3>1. rows' = [rows EXCEPT ![h] = "failed"] /\ stored' = stored
      BY <2>4 DEF GiveUp
    <3>2. Entrusted' = Entrusted /\ Reported' = Reported /\ Refused' = Refused \cup {h}
      BY <1>1, <2>1, <3>1 DEF Entrusted, Reported, Refused
    <3>3. Promise!Refuse(h)
      BY <2>1, <2>3, <3>1, <3>2 DEF Promise!Refuse, Entrusted, Reported, Refused
    <3> QED
      BY <3>3 DEF Promise!Next
  <2>5. CASE Deliver(h, TRUE) \/ Deliver(h, FALSE)
    <3>1. stored' = TRUE /\ (rows' = rows \/ rows' = [rows EXCEPT ![h] = "sent"])
      BY <2>5 DEF Deliver
    <3>2. Entrusted' = Entrusted /\ Reported' \in {Reported, Reported \cup {h}} /\ Refused' = Refused
      BY <1>1, <2>1, <3>1 DEF Entrusted, Reported, Refused
    <3>3. Promise!Deliver(h)
      BY <2>1, <2>3, <3>1, <3>2 DEF Promise!Deliver, Entrusted, Reported, Refused
    <3> QED
      BY <3>3 DEF Promise!Next
  <2> QED
    BY <1>3, <2>4, <2>5 DEF HolderStep
<1> QED
  BY <1>2, <1>3

\* The jobs of the phone and the holders, with their timeouts, retries, restarts and late requests,
\* implement what a sender is promised (p2p-store-core.ts, p2p-sync.ts, outbox.ts; "Apply a
\* delivery-status transition without clobbering a later terminal state", db.ts, line 397).
THEOREM DeliveryImplementsPromise == Spec => ImplementsPromise
<1>1. Init => Promise!Init /\ Uncomposed
  BY DEF Init, OutboxInit, PhoneInit, Promise!Init, Uncomposed, NoHandoff, IdleSend, IdleReconcile
<1>2. DeliveryInv /\ Uncomposed /\ [Next]_vars => Uncomposed'
  BY UncomposedKept
<1>3. DeliveryInv /\ DeliveryInv' /\ Uncomposed /\ Uncomposed' /\ [Next]_vars
        => [Promise!Next]_(Promise!promiseVars)
  <2> SUFFICES ASSUME DeliveryInv, DeliveryInv', Uncomposed, Uncomposed', [Next]_vars
               PROVE  [Promise!Next]_(Promise!promiseVars)
    OBVIOUS
  <2>1. CASE Next /\ PhoneStep
    BY <2>1, PhoneImplements
  <2>2. CASE \E h \in Holders : HolderStores(h) \/ HolderTakesLate(h)
    BY <2>2, TakingImplements
  <2>3. CASE \/ \E s \in Slots : RecipientStores(s)
             \/ \E h \in Holders : HolderStep(h) /\ UNCHANGED phoneVars
    BY <2>3, DeliveringImplements
  <2>4. CASE UNCHANGED vars \/ \E h \in Holders : HolderUnavailable(h)
    <3>1. UNCHANGED <<status, holderPeerId, rows, stored, lateRequests>>
      BY <2>4 DEF vars, outboxVars, phoneVars, messageVars, jobVars, HolderUnavailable
    <3> QED
      BY <3>1 DEF Promise!promiseVars
  <2> QED
    BY <2>1, <2>2, <2>3, <2>4 DEF Next
<1> QED
  BY <1>1, <1>2, <1>3, DeliveryInvariant, PTL DEF Spec, ImplementsPromise, Promise!Spec
=============================================================================
