----------------------------- MODULE DirectChat -----------------------------
(***************************************************************************)
(* A chat frame on its way from a sender to the devices of its recipient.  *)
(* A CLI dials the whole roster at once and keeps the first authorized     *)
(* stream (deliverChatFrame, cli/src/chat.ts); a phone tries one device    *)
(* after the other (performSend, mobile/src/lib/p2p-send.ts).  A device    *)
(* serves a stream with createHolder's handler or with receiveChatStream   *)
(* of a phone.  A sender may try the same frame several times; a stream of *)
(* an earlier attempt may still be open, or open late.                     *)
(*                                                                         *)
(* How a stream is authorized is in PeerSessions and HolderSessions: here  *)
(* a verification ends well or badly.                                      *)
(***************************************************************************)
EXTENDS Naturals, FiniteSets

CONSTANTS Devices,       \* the devices on the recipient's roster
          Holders,       \* those that are CLIs; the others are phones
          NoDevice,
          MaxInbound,    \* MAX_INBOUND_STREAMS
          MaxAttempts, MaxStops   \* bounds: deliveries of the frame, stops of the recipient's devices

ASSUME ChatAssumption ==
    /\ Holders \subseteq Devices /\ NoDevice \notin Devices
    /\ MaxInbound \in Nat \ {0} /\ MaxAttempts \in Nat /\ MaxStops \in Nat

VARIABLES racing,        \* whether the sender is a CLI
          attempt,       \* the deliveries begun
          job,           \* what the sender is at
          claimed,       \* the device whose stream the delivery goes on with
          untried,       \* a phone's devices still to be tried in this attempt
          sender,        \* [device, attempt]: the sender's end of the stream
          receiver,      \* [device, attempt]: the recipient's end
          saved,         \* devices that stored the frame
          wrote, shown,  \* history: streams that carried the frame, how often a device showed it
          stops

senderVars   == <<attempt, job, claimed, untried, sender, wrote>>
receiverVars == <<receiver, saved, shown>>
vars == <<racing, senderVars, receiverVars, stops>>

Attempts == 1..MaxAttempts
Streams  == Devices \X Attempts

\* late: given up while openStream was still on its way.  reset: closed by the sender, or never opened.
SenderStates   == {"none", "opening", "late", "verify", "chosen", "sent", "done", "reset"}
\* saved: this stream stored the frame.  known: it was stored before.
ReceiverStates == {"none", "reading", "verify", "checked", "saved", "known", "acked", "reset"}

TypeOK ==
    /\ racing \in BOOLEAN /\ attempt \in 0..MaxAttempts
    /\ job \in {"idle", "dialling", "sending", "delivered"}
    /\ claimed \in Devices \cup {NoDevice} /\ untried \subseteq Devices
    /\ sender \in [Streams -> SenderStates] /\ receiver \in [Streams -> ReceiverStates]
    /\ saved \subseteq Devices /\ wrote \subseteq Streams
    /\ shown \in [Devices -> Nat] /\ stops \in 0..MaxStops

Init ==
    /\ racing \in BOOLEAN
    /\ attempt = 0 /\ job = "idle" /\ claimed = NoDevice /\ untried = {}
    /\ sender = [s \in Streams |-> "none"] /\ receiver = [s \in Streams |-> "none"]
    /\ saved = {} /\ wrote = {} /\ shown = [d \in Devices |-> 0] /\ stops = 0

-----------------------------------------------------------------------------
(* The sender's streams.                                                   *)

Of(d) == <<d, attempt>>
SenderIn(d, states) == job = "dialling" /\ sender[Of(d)] \in states
To(s, state) == sender' = [sender EXCEPT ![s] = state]

\* A stream that is given up: one that is being opened is reset when it lands.
GivenUp(state) == IF state = "opening" THEN "late" ELSE IF state \in {"verify", "chosen", "sent"} THEN "reset" ELSE state
\* The end of an attempt: whatever it has open is given up.
Fail ==
    /\ sender' = [s \in Streams |-> IF s[2] = attempt THEN GivenUp(sender[s]) ELSE sender[s]]
    /\ job' = "idle" /\ claimed' = NoDevice /\ untried' = {}

Mine == UNCHANGED <<racing, receiverVars, stops>>

\* recipientPeerIds: the authorized devices and those of the roster, or only some, when the lookup fails.
Deliver ==
    /\ job = "idle" /\ attempt < MaxAttempts
    /\ attempt' = attempt + 1 /\ job' = "dialling" /\ claimed' = NoDevice
    /\ \E dialled \in SUBSET Devices \ {{}} :
          IF racing
          THEN untried' = {} /\ sender' = [s \in Streams |-> IF s[1] \in dialled /\ s[2] = attempt' THEN "opening" ELSE sender[s]]
          ELSE untried' = dialled /\ UNCHANGED sender
    /\ UNCHANGED wrote /\ Mine

\* sendToPeer, once the device before it is done with.
TryNext ==
    /\ ~racing /\ job = "dialling"
    /\ \A d \in Devices : sender[Of(d)] \in {"none", "late", "reset"}
    /\ \E d \in untried : To(Of(d), "opening") /\ untried' = untried \ {d}
    /\ UNCHANGED <<attempt, job, claimed, wrote>> /\ Mine

\* A stream is open when the other end has accepted its protocol.
Opened(d) ==
    /\ SenderIn(d, {"opening"}) /\ receiver[Of(d)] # "none"
    /\ To(Of(d), "verify")
    /\ UNCHANGED <<attempt, job, claimed, untried, wrote>> /\ Mine

\* The dial or the verification fails: a race goes on without it, a phone tries the next device.
DialFails(d) ==
    /\ SenderIn(d, {"opening", "verify"})
    /\ To(Of(d), "reset")
    /\ UNCHANGED <<attempt, job, claimed, untried, wrote>> /\ Mine
\* No dial is left.
NoneLeft ==
    /\ job = "dialling" /\ untried = {} /\ claimed = NoDevice
    /\ \A d \in Devices : sender[Of(d)] \in {"none", "late", "reset"}
    /\ Fail /\ UNCHANGED <<attempt, wrote>> /\ Mine

\* The aborted openStream lands, or fails.
LateLands(s) ==
    /\ sender[s] = "late" /\ To(s, "reset")
    /\ UNCHANGED <<attempt, job, claimed, untried, wrote>> /\ Mine

-----------------------------------------------------------------------------
(* deliverChatFrame: the first authorized stream wins.                     *)

MutClaim(d) == claimed' = (IF claimed = NoDevice THEN d ELSE claimed) /\ To(Of(d), "chosen")
\* A second success resets itself.
Claim(d) ==
    IF claimed = NoDevice THEN claimed' = d /\ To(Of(d), "chosen")
    ELSE UNCHANGED claimed /\ To(Of(d), "reset")
Verified(d) ==
    /\ racing /\ SenderIn(d, {"verify"}) /\ Claim(d)
    /\ UNCHANGED <<attempt, job, untried, wrote>> /\ Mine

\* raceAll interrupts the other dials.
Interrupted(d) ==
    /\ racing /\ claimed \notin {NoDevice, d}
    /\ SenderIn(d, {"opening", "verify"})
    /\ To(Of(d), GivenUp(sender[Of(d)]))
    /\ UNCHANGED <<attempt, job, claimed, untried, wrote>> /\ Mine

\* The race is over: the stream is looked at once more, and the frame is written.
Commit ==
    /\ racing /\ job = "dialling" /\ claimed # NoDevice
    /\ \A d \in Devices : sender[Of(d)] \notin {"opening", "verify"}
    /\ \/ job' = "sending" /\ To(Of(claimed), "sent") /\ wrote' = wrote \cup {Of(claimed)} /\ UNCHANGED <<claimed, untried>>
       \/ Fail /\ UNCHANGED wrote
    /\ UNCHANGED attempt /\ Mine

-----------------------------------------------------------------------------
(* performSend: a device that was verified is the one.                     *)

\* The stream is still authorized, or there is no other try.
VerifiedInTurn(d) ==
    /\ ~racing /\ SenderIn(d, {"verify"})
    /\ \/ job' = "sending" /\ claimed' = d /\ To(Of(d), "sent") /\ wrote' = wrote \cup {Of(d)} /\ UNCHANGED untried
       \/ Fail /\ UNCHANGED wrote
    /\ UNCHANGED attempt /\ Mine

-----------------------------------------------------------------------------
(* The answer.                                                             *)

Acked ==
    /\ job = "sending" /\ receiver[Of(claimed)] = "acked"
    /\ To(Of(claimed), "done")
    /\ job' = "delivered" /\ claimed' = NoDevice /\ untried' = {}
    /\ UNCHANGED <<attempt, wrote>> /\ Mine

\* After a write a phone does not go on to the next device either.
MutWriteFailed ==
    IF racing THEN Fail
    ELSE /\ To(Of(claimed), "reset") /\ job' = "dialling" /\ claimed' = NoDevice /\ UNCHANGED untried
WriteFailed == Fail
\* The stream breaks or its answer does not fit.
AckFails ==
    /\ job = "sending" /\ WriteFailed
    /\ UNCHANGED <<attempt, wrote>> /\ Mine
\* The dial budget, the wait for the answer or the budget of the attempt is over, or the job is stopped.
GiveUp ==
    /\ job \in {"dialling", "sending"} /\ Fail
    /\ UNCHANGED <<attempt, wrote>> /\ Mine

-----------------------------------------------------------------------------
(* The recipient's devices.                                                *)

Theirs == UNCHANGED <<racing, senderVars>>
Serves(s, state) == receiver' = [receiver EXCEPT ![s] = state]
InFlight == {"reading", "verify", "checked", "saved", "known"}
Inbound(d) == Cardinality({n \in Attempts : receiver[<<d, n>>] \in InFlight})

\* on("stream"): a CLI takes so many streams at a time and resets the others.
Accept(s) ==
    /\ sender[s] \in {"opening", "late"} /\ receiver[s] = "none"
    /\ Serves(s, IF s[1] \in Holders /\ Inbound(s[1]) >= MaxInbound THEN "reset" ELSE "reading")
    /\ UNCHANGED <<saved, shown, stops>> /\ Theirs
\* The whole frame is read, and its sender is verified.
ReadFrame(s) ==
    /\ receiver[s] = "reading" /\ s \in wrote
    /\ Serves(s, "verify")
    /\ UNCHANGED <<saved, shown, stops>> /\ Theirs
SenderVerified(s) ==
    /\ receiver[s] = "verify" /\ Serves(s, "checked")
    /\ UNCHANGED <<saved, shown, stops>> /\ Theirs
\* The read fails or times out, the sender is not authorized, or a resume is noticed.
Refused(s) ==
    /\ receiver[s] \in {"reading", "verify", "checked"} /\ Serves(s, "reset")
    /\ UNCHANGED <<saved, shown, stops>> /\ Theirs
MutStored(d) == FALSE
\* putInbox and insertMessage insert a frame once.
Stored(d) == d \in saved
Shown(d) == shown' = [shown EXCEPT ![d] = @ + 1]
\* A phone shows the rows it has.
Save(s) ==
    /\ receiver[s] = "checked"
    /\ saved' = saved \cup {s[1]} /\ Serves(s, IF Stored(s[1]) THEN "known" ELSE "saved")
    /\ IF s[1] \notin Holders /\ ~Stored(s[1]) THEN Shown(s[1]) ELSE UNCHANGED shown
    /\ UNCHANGED stops /\ Theirs
\* Stored first, then acknowledged; a CLI then prints what this stream stored.
Ack(s) ==
    /\ receiver[s] \in {"saved", "known"} /\ Serves(s, "acked")
    /\ IF s[1] \in Holders /\ receiver[s] = "saved" THEN Shown(s[1]) ELSE UNCHANGED shown
    /\ UNCHANGED <<saved, stops>> /\ Theirs
AckLost(s) ==
    /\ receiver[s] \in {"saved", "known"} /\ Serves(s, "reset")
    /\ UNCHANGED <<saved, shown, stops>> /\ Theirs
\* The device stops, with all its handlers.
DeviceStops(d) ==
    /\ stops < MaxStops /\ stops' = stops + 1
    /\ receiver' = [s \in Streams |-> IF s[1] = d /\ receiver[s] \in InFlight THEN "reset" ELSE receiver[s]]
    /\ UNCHANGED <<saved, shown>> /\ Theirs

-----------------------------------------------------------------------------
SenderStep ==
    \/ TryNext \/ NoneLeft \/ Commit \/ Acked \/ AckFails \/ GiveUp
    \/ (\E d \in Devices : Opened(d) \/ DialFails(d) \/ Verified(d) \/ Interrupted(d) \/ VerifiedInTurn(d))
ReceiverStep == \E s \in Streams : ReadFrame(s) \/ SenderVerified(s) \/ Refused(s) \/ Save(s) \/ Ack(s) \/ AckLost(s)

Next ==
    \/ Deliver \/ SenderStep \/ (\E s \in Streams : LateLands(s))
    \/ ReceiverStep \/ (\E s \in Streams : Accept(s)) \/ (\E d \in Devices : DeviceStops(d))

\* Dials, reads and waits all have a limit: a delivery, a handler and a late openStream end.
Fairness == WF_vars(SenderStep) /\ WF_vars(ReceiverStep) /\ WF_vars(\E s \in Streams : LateLands(s))
Spec == Init /\ [][Next]_vars /\ Fairness

-----------------------------------------------------------------------------
(* One delivery of a frame writes it to one device of the recipient at     *)
(* most, however its dials overlap, fail or answer late (chat.ts:250 and   *)
(* 295, p2p-send.ts committed).                                            *)
OneDevicePerDelivery == \A n \in Attempts : Cardinality({s \in wrote : s[2] = n}) <= 1

(* A device that is sent the frame again, after a lost acknowledgement or  *)
(* through a handler of an earlier delivery, shows it once; and what its   *)
(* sender calls delivered is stored.                                       *)
ShownOnce ==
    /\ \A d \in Devices : shown[d] <= 1
    /\ job = "delivered" => \E d \in saved : <<d, attempt>> \in wrote

Open(s) == sender[s] \in {"opening", "late", "verify", "chosen", "sent"} \/ receiver[s] \in InFlight
(* No stream stays open: not the loser of a race, not one that is opened   *)
(* after its delivery ended, not the handler of a stream that is never     *)
(* written to.                                                             *)
StreamsEnd == \A s \in Streams : Open(s) ~> ~Open(s)
=============================================================================
