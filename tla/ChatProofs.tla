------------------------------ MODULE ChatProofs -----------------------------
(***************************************************************************)
(* For any number of devices, deliveries and streams: a delivery writes    *)
(* its frame to one device, and a device shows it once.  For any number of *)
(* rows, recipients and crashes: the loop of the outbox that has frames    *)
(* delivered never goes to sleep for good on a row that waits, and never   *)
(* spins on one that it could not write.                                   *)
(*                                                                         *)
(* What keeps a delivery to one device is that nothing is written while it *)
(* still dials, and that it does not dial after a write.  What keeps a     *)
(* device to one showing is that among its handlers one at most has stored *)
(* the frame and not answered yet, and none once the frame was shown.      *)
(***************************************************************************)
EXTENDS DirectChat, OutboxRuntime, FiniteSetTheorems, TLAPS

\* What the sender wrote so far.
Writes ==
    /\ \A s \in wrote : s[2] <= attempt
    /\ \A s, t \in wrote : s[2] = t[2] => s = t
    /\ job = "dialling" => \A s \in wrote : s[2] # attempt
    /\ job \in {"dialling", "sending"} => attempt \in Attempts
    /\ job = "sending" => claimed \in Devices /\ <<claimed, attempt>> \in wrote
    /\ job = "delivered" => \E d \in saved : <<d, attempt>> \in wrote

\* What the recipient's devices stored and showed.
Shows(d) ==
    /\ d \notin saved => shown[d] = 0
    /\ \A n \in Attempts : receiver[<<d, n>>] \in {"saved", "known", "acked"} => d \in saved
    /\ d \notin Holders => shown[d] <= 1
    /\ d \in Holders =>
          \/ shown[d] = 0 /\ \A m, n \in Attempts :
                receiver[<<d, m>>] = "saved" /\ receiver[<<d, n>>] = "saved" => m = n
          \/ shown[d] = 1 /\ \A n \in Attempts : receiver[<<d, n>>] # "saved"

Recipient == \A d \in Devices : Shows(d)

ChatInv == TypeOK /\ Writes /\ Recipient

-----------------------------------------------------------------------------

\* ChatInv holds at the start: nothing is sent, stored or shown.
LEMMA ChatInit == Init => ChatInv
  BY ChatAssumption DEF Init, ChatInv, TypeOK, Writes, Recipient, Shows, Streams, Attempts, SenderStates, ReceiverStates

\* A step of the sender: what it writes, and to which stream, in each of its states.
LEMMA SenderWrites ==
    ASSUME ChatInv, Mine, TypeOK',
           \/ attempt' = attempt + 1 /\ job' = "dialling" /\ wrote' = wrote /\ attempt < MaxAttempts
           \/ attempt' = attempt /\ job' \in {job, "idle"} /\ wrote' = wrote /\ (job = "sending" => job' = "idle" \/ claimed' = claimed)
           \/ /\ attempt' = attempt /\ job = "dialling" /\ job' = "sending" /\ attempt \in Attempts
              /\ \E d \in Devices : claimed' = d /\ wrote' = wrote \cup {<<d, attempt>>}
           \/ /\ attempt' = attempt /\ job = "sending" /\ job' = "delivered" /\ wrote' = wrote
              /\ receiver[<<claimed, attempt>>] = "acked"
    PROVE  ChatInv'
<1>1. attempt \in Nat /\ wrote \subseteq Devices \X Attempts
  BY DEF ChatInv, TypeOK, Streams
<1>2. Recipient'
  BY DEF ChatInv, Mine, receiverVars, Recipient, Shows
<1>3. Writes'
  <2>1. CASE attempt' = attempt + 1 /\ job' = "dialling" /\ wrote' = wrote /\ attempt < MaxAttempts
    BY <1>1, <2>1, ChatAssumption DEF ChatInv, Writes, Attempts
  <2>2. CASE attempt' = attempt /\ job' \in {job, "idle"} /\ wrote' = wrote /\ (job = "sending" => job' = "idle" \/ claimed' = claimed)
    BY <2>2 DEF ChatInv, Writes, Mine, receiverVars
  <2>3. CASE /\ attempt' = attempt /\ job = "dialling" /\ job' = "sending" /\ attempt \in Attempts
             /\ \E d \in Devices : claimed' = d /\ wrote' = wrote \cup {<<d, attempt>>}
    BY <1>1, <2>3 DEF ChatInv, Writes
  <2>4. CASE /\ attempt' = attempt /\ job = "sending" /\ job' = "delivered" /\ wrote' = wrote
             /\ receiver[<<claimed, attempt>>] = "acked"
    <3>1. claimed \in saved
      BY <2>4 DEF ChatInv, Writes, Recipient, Shows
    <3> QED
      BY <2>4, <3>1 DEF ChatInv, Writes, Mine, receiverVars
  <2> QED
    BY <2>1, <2>2, <2>3, <2>4
<1> QED
  BY <1>2, <1>3 DEF ChatInv

\* A step of a recipient's device: the sender's side stays.
LEMMA DeviceKeepsWrites ==
    ASSUME ChatInv, Theirs, saved \subseteq saved'
    PROVE  Writes'
  BY DEF ChatInv, Theirs, senderVars, Writes, Attempts

\* Every variable keeps its type when the sender steps.
LEMMA SenderTypes ==
    ASSUME ChatInv, Deliver \/ SenderStep \/ (\E s \in Streams : LateLands(s))
    PROVE  TypeOK'
<1>1. /\ attempt \in 0..MaxAttempts /\ attempt' \in 0..MaxAttempts
      /\ job \in {"dialling", "sending"} => attempt \in Attempts
  BY ChatAssumption DEF ChatInv, TypeOK, Writes, Attempts, Deliver, SenderStep, LateLands, TryNext, NoneLeft, Commit, Acked,
     AckFails, GiveUp, Opened, DialFails, Verified, Interrupted, VerifiedInTurn
<1>2. sender \in [Streams -> SenderStates] /\ wrote \subseteq Streams
  BY DEF ChatInv, TypeOK
<1>3. \A state \in SenderStates : GivenUp(state) \in SenderStates
  BY DEF GivenUp, SenderStates
<1>4. Fail => sender' \in [Streams -> SenderStates] /\ job' = "idle" /\ claimed' = NoDevice /\ untried' = {}
  BY <1>2, <1>3 DEF Fail
<1>5. ASSUME NEW s, NEW state \in SenderStates, To(s, state) PROVE sender' \in [Streams -> SenderStates]
  BY <1>2, <1>5 DEF To
<1>6. Mine => receiver' \in [Streams -> ReceiverStates] /\ saved' \subseteq Devices /\ shown' \in [Devices -> Nat] /\ stops' \in 0..MaxStops /\ racing' \in BOOLEAN
  BY DEF ChatInv, TypeOK, Mine, receiverVars
<1>7. SenderStates = {"none", "opening", "late", "verify", "chosen", "sent", "done", "reset"}
  BY DEF SenderStates
<1>8. job \in {"idle", "dialling", "sending", "delivered"} /\ claimed \in Devices \cup {NoDevice} /\ untried \subseteq Devices
  BY DEF ChatInv, TypeOK
<1>9. CASE Deliver
  BY <1>1, <1>2, <1>6, <1>7, <1>8, <1>9 DEF Deliver, TypeOK
<1>10. CASE TryNext \/ NoneLeft \/ Acked \/ AckFails \/ GiveUp
  <2>1. CASE TryNext
    BY <1>1, <1>2, <1>5, <1>6, <1>7, <1>8, <2>1 DEF TryNext, TypeOK
  <2>2. CASE Acked
    BY <1>1, <1>2, <1>5, <1>6, <1>7, <1>8, <2>2 DEF Acked, TypeOK
  <2>3. CASE NoneLeft \/ AckFails \/ GiveUp
    BY <1>1, <1>2, <1>4, <1>6, <1>8, <2>3 DEF NoneLeft, AckFails, WriteFailed, GiveUp, TypeOK
  <2> QED
    BY <1>10, <2>1, <2>2, <2>3
<1>11. CASE Commit
  <2>1. Of(claimed) \in Streams
    BY <1>1, <1>8, <1>11 DEF Commit, Of, Streams
  <2> QED
    BY <1>1, <1>2, <1>4, <1>5, <1>6, <1>7, <1>8, <1>11, <2>1 DEF Commit, TypeOK
<1>12. ASSUME NEW d \in Devices, Opened(d) \/ DialFails(d) PROVE TypeOK'
  BY <1>1, <1>2, <1>5, <1>6, <1>7, <1>8, <1>12 DEF Opened, DialFails, TypeOK
<1>13. ASSUME NEW d \in Devices, Interrupted(d) PROVE TypeOK'
  <2>1. sender[Of(d)] \in SenderStates
    BY <1>1, <1>2, <1>13 DEF Interrupted, SenderIn, Of, Streams
  <2> QED
    BY <1>1, <1>2, <1>3, <1>5, <1>6, <1>8, <1>13, <2>1 DEF Interrupted, TypeOK
<1>14. ASSUME NEW d \in Devices, Verified(d) PROVE TypeOK'
  BY <1>1, <1>2, <1>5, <1>6, <1>7, <1>8, <1>14 DEF Verified, Claim, TypeOK
<1>15. ASSUME NEW d \in Devices, VerifiedInTurn(d) PROVE TypeOK'
  <2>1. Of(d) \in Streams
    BY <1>1, <1>15 DEF VerifiedInTurn, SenderIn, Of, Streams
  <2> QED
    BY <1>1, <1>2, <1>4, <1>5, <1>6, <1>7, <1>8, <1>15, <2>1 DEF VerifiedInTurn, TypeOK
<1>16. ASSUME NEW s \in Streams, LateLands(s) PROVE TypeOK'
  BY <1>1, <1>2, <1>5, <1>6, <1>7, <1>8, <1>16 DEF LateLands, TypeOK
<1> QED
  BY <1>9, <1>10, <1>11, <1>12, <1>13, <1>14, <1>15, <1>16 DEF SenderStep

\* A step of the sender keeps ChatInv.
LEMMA SenderKeeps ==
    ASSUME ChatInv, Deliver \/ SenderStep \/ (\E s \in Streams : LateLands(s))
    PROVE  ChatInv'
<1>1. TypeOK'
  BY SenderTypes
<1>2. attempt \in 0..MaxAttempts /\ MaxAttempts \in Nat /\ claimed \in Devices \cup {NoDevice}
  BY ChatAssumption DEF ChatInv, TypeOK
<1>3. CASE Deliver
  BY <1>1, <1>3, SenderWrites DEF Deliver
<1>4. CASE TryNext \/ NoneLeft \/ AckFails \/ GiveUp \/ \E s \in Streams : LateLands(s)
  BY <1>1, <1>4, SenderWrites DEF TryNext, NoneLeft, AckFails, WriteFailed, GiveUp, LateLands, Fail
<1>5. CASE Acked
  BY <1>1, <1>5, SenderWrites DEF Acked, Of
<1>6. CASE Commit
  <2>1. job = "dialling" /\ attempt \in Attempts /\ claimed \in Devices
    BY <1>2, <1>6 DEF Commit, ChatInv, Writes
  <2> QED
    BY <1>1, <1>6, <2>1, SenderWrites DEF Commit, Fail, Of
<1>7. ASSUME NEW d \in Devices, Opened(d) \/ DialFails(d) \/ Interrupted(d) PROVE ChatInv'
  BY <1>1, <1>7, SenderWrites DEF Opened, DialFails, Interrupted, SenderIn
<1>8. ASSUME NEW d \in Devices, Verified(d) PROVE ChatInv'
  BY <1>1, <1>8, SenderWrites DEF Verified, Claim, SenderIn
<1>9. ASSUME NEW d \in Devices, VerifiedInTurn(d) PROVE ChatInv'
  <2>1. job = "dialling" /\ attempt \in Attempts
    BY <1>9 DEF VerifiedInTurn, SenderIn, ChatInv, Writes
  <2> QED
    BY <1>1, <1>9, <2>1, SenderWrites DEF VerifiedInTurn, Fail, Of
<1> QED
  BY <1>3, <1>4, <1>5, <1>6, <1>7, <1>8, <1>9 DEF SenderStep

-----------------------------------------------------------------------------

\* A device that takes, reads, checks or drops a stream, and one that stops, stores and shows nothing.
LEMMA DeviceShowsNothing ==
    ASSUME ChatInv, Theirs, UNCHANGED <<saved, shown>>, stops' \in 0..MaxStops,
           receiver' \in [Streams -> ReceiverStates],
           \A s \in Streams : receiver'[s] = receiver[s] \/ receiver'[s] \notin {"saved", "known", "acked"}
    PROVE  ChatInv'
<1>1. TypeOK'
  BY DEF ChatInv, TypeOK, Theirs, senderVars
<1>2. Writes'
  BY DeviceKeepsWrites
<1>3. ASSUME NEW d \in Devices PROVE Shows(d)'
  <2>1. \A n \in Attempts : <<d, n>> \in Streams
    BY DEF Streams
  <2> QED
    BY <2>1 DEF ChatInv, Recipient, Shows
<1> QED
  BY <1>1, <1>2, <1>3 DEF ChatInv, Recipient

\* Storing and answering touch one device.
LEMMA OthersShowTheSame ==
    ASSUME ChatInv, NEW d \in Devices, NEW e \in Devices, e # d, shown'[e] = shown[e], e \in saved' <=> e \in saved,
           \A n \in Attempts : receiver'[<<e, n>>] = receiver[<<e, n>>]
    PROVE  Shows(e)'
  BY DEF ChatInv, Recipient, Shows

\* A device that stores the frame for the first time has not shown it, nor has any handler to show it.
LEMMA SaveKeeps == ASSUME ChatInv, NEW s \in Streams, Save(s) PROVE ChatInv'
<1> DEFINE d == s[1]
<1>1. PICK n \in Attempts : s = <<d, n>> /\ d \in Devices
  BY DEF Streams
<1>2. receiver \in [Streams -> ReceiverStates] /\ shown \in [Devices -> Nat] /\ saved \subseteq Devices
  BY DEF ChatInv, TypeOK
<1>3. TypeOK'
  BY <1>1, <1>2 DEF Save, Serves, Shown, Stored, ChatInv, TypeOK, Theirs, senderVars, ReceiverStates
<1>4. Writes'
  BY DeviceKeepsWrites DEF Save
<1>5. Shows(d)
  BY <1>1 DEF ChatInv, Recipient
<1>6. \A e \in Devices : \A m \in Attempts :
        receiver'[<<e, m>>] = IF <<e, m>> = s THEN (IF d \in saved THEN "known" ELSE "saved") ELSE receiver[<<e, m>>]
  BY <1>2 DEF Save, Serves, Stored, Streams
<1>7. d \in saved'
  BY DEF Save
<1>8. Shows(d)'
  <2>1. CASE d \in saved
    <3>1. shown' = shown /\ receiver' = [receiver EXCEPT ![s] = "known"]
      BY <2>1 DEF Save, Serves, Stored
    <3> QED
      BY <1>1, <1>2, <1>5, <1>6, <1>7, <2>1, <3>1 DEF Shows
  <2>2. CASE d \notin saved
    <3>1. shown[d] = 0 /\ \A m \in Attempts : receiver[<<d, m>>] \notin {"saved", "known", "acked"}
      BY <1>5, <2>2 DEF Shows
    <3>2. \A m \in Attempts : receiver'[<<d, m>>] = "saved" => m = n
      BY <1>1, <1>6, <3>1
    <3>3. CASE d \in Holders
      <4>1. shown' = shown
        BY <2>2, <3>3 DEF Save, Stored
      <4> QED
        BY <1>7, <3>1, <3>2, <3>3, <4>1 DEF Shows
    <3>4. CASE d \notin Holders
      <4>1. shown'[d] = 1
        BY <1>1, <1>2, <2>2, <3>1, <3>4 DEF Save, Stored, Shown
      <4> QED
        BY <1>7, <3>4, <4>1 DEF Shows
    <3> QED
      BY <3>3, <3>4
  <2> QED
    BY <2>1, <2>2
<1>9. ASSUME NEW e \in Devices, e # d PROVE Shows(e)'
  <2>1. shown'[e] = shown[e]
    BY <1>2, <1>9 DEF Save, Shown
  <2>2. e \in saved' <=> e \in saved
    BY <1>9 DEF Save
  <2>3. \A m \in Attempts : receiver'[<<e, m>>] = receiver[<<e, m>>]
    BY <1>1, <1>6, <1>9
  <2> QED
    BY <1>1, <1>9, <2>1, <2>2, <2>3, OthersShowTheSame
<1> QED
  BY <1>3, <1>4, <1>8, <1>9 DEF ChatInv, Recipient

\* A CLI prints what the one handler stored that did not answer yet.
LEMMA AckKeeps == ASSUME ChatInv, NEW s \in Streams, Ack(s) PROVE ChatInv'
<1> DEFINE d == s[1]
<1>1. PICK n \in Attempts : s = <<d, n>> /\ d \in Devices
  BY DEF Streams
<1>2. receiver \in [Streams -> ReceiverStates] /\ shown \in [Devices -> Nat] /\ saved' = saved
  BY DEF ChatInv, TypeOK, Ack
<1>3. TypeOK'
  BY <1>1, <1>2 DEF Ack, Serves, Shown, ChatInv, TypeOK, Theirs, senderVars, ReceiverStates
<1>4. Writes'
  BY DeviceKeepsWrites DEF Ack
<1>5. Shows(d) /\ receiver[<<d, n>>] \in {"saved", "known"}
  BY <1>1 DEF ChatInv, Recipient, Ack
<1>6. \A e \in Devices : \A m \in Attempts :
        receiver'[<<e, m>>] = IF <<e, m>> = s THEN "acked" ELSE receiver[<<e, m>>]
  BY <1>2 DEF Ack, Serves, Streams
<1>7. d \in saved
  BY <1>5 DEF Shows
<1>8. Shows(d)'
  <2>1. CASE d \in Holders /\ receiver[s] = "saved"
    <3>1. shown[d] = 0 /\ \A m \in Attempts : receiver[<<d, m>>] = "saved" => m = n
      BY <1>1, <1>5, <2>1 DEF Shows
    <3>2. shown'[d] = 1
      BY <1>1, <1>2, <2>1, <3>1 DEF Ack, Shown
    <3>3. \A m \in Attempts : receiver'[<<d, m>>] # "saved"
      BY <1>1, <1>6, <3>1
    <3> QED
      BY <1>2, <1>7, <2>1, <3>2, <3>3 DEF Shows
  <2>2. CASE ~(d \in Holders /\ receiver[s] = "saved")
    <3>1. shown' = shown
      BY <2>2 DEF Ack
    <3>2. \A m \in Attempts : receiver'[<<d, m>>] = "saved" => receiver[<<d, m>>] = "saved"
      BY <1>1, <1>6
    <3> QED
      BY <1>2, <1>5, <1>7, <3>1, <3>2 DEF Shows
  <2> QED
    BY <2>1, <2>2
<1>9. ASSUME NEW e \in Devices, e # d PROVE Shows(e)'
  <2>1. shown'[e] = shown[e]
    BY <1>2, <1>9 DEF Ack, Shown
  <2>2. \A m \in Attempts : receiver'[<<e, m>>] = receiver[<<e, m>>]
    BY <1>1, <1>6, <1>9
  <2> QED
    BY <1>1, <1>2, <1>9, <2>1, <2>2, OthersShowTheSame
<1> QED
  BY <1>3, <1>4, <1>8, <1>9 DEF ChatInv, Recipient

\* A step of a recipient's device keeps ChatInv.
LEMMA DeviceKeeps ==
    ASSUME ChatInv, ReceiverStep \/ (\E s \in Streams : Accept(s)) \/ (\E d \in Devices : DeviceStops(d))
    PROVE  ChatInv'
<1>1. receiver \in [Streams -> ReceiverStates] /\ stops \in 0..MaxStops
  BY DEF ChatInv, TypeOK
<1>2. ASSUME NEW s \in Streams, ReadFrame(s) \/ SenderVerified(s) \/ Refused(s) \/ AckLost(s) \/ Accept(s) PROVE ChatInv'
  <2>1. \E state \in {"reading", "verify", "checked", "reset"} : receiver' = [receiver EXCEPT ![s] = state]
    BY <1>2 DEF ReadFrame, SenderVerified, Refused, AckLost, Accept, Serves
  <2>2. Theirs /\ UNCHANGED <<saved, shown, stops>>
    BY <1>2 DEF ReadFrame, SenderVerified, Refused, AckLost, Accept
  <2> QED
    BY <1>1, <2>1, <2>2, DeviceShowsNothing DEF ReceiverStates
<1>3. ASSUME NEW d \in Devices, DeviceStops(d) PROVE ChatInv'
  <2>1. \A s \in Streams : receiver'[s] = receiver[s] \/ receiver'[s] = "reset"
    BY <1>3 DEF DeviceStops
  <2>2. receiver' \in [Streams -> ReceiverStates]
    BY <1>1, <1>3 DEF DeviceStops, ReceiverStates
  <2>3. stops' \in 0..MaxStops /\ Theirs /\ UNCHANGED <<saved, shown>>
    BY <1>1, <1>3, ChatAssumption DEF DeviceStops
  <2> QED
    BY <2>1, <2>2, <2>3, DeviceShowsNothing
<1> QED
  BY <1>2, <1>3, SaveKeeps, AckKeeps DEF ReceiverStep

\* ChatInv is inductive.
LEMMA ChatNext == ASSUME ChatInv, [Next]_vars PROVE ChatInv'
<1>1. CASE UNCHANGED vars
  BY <1>1 DEF vars, senderVars, receiverVars, ChatInv, TypeOK, Writes, Recipient, Shows
<1>2. CASE Next
  BY <1>2, SenderKeeps, DeviceKeeps DEF Next
<1> QED
  BY <1>1, <1>2

\* ChatInv always holds.
THEOREM ChatInvariant == Spec => []ChatInv
  BY ChatInit, ChatNext, PTL DEF Spec

-----------------------------------------------------------------------------

\* However dials overlap, fail or answer late, a delivery writes its frame to one device at most
\* (deliverChatFrame, performSend).
THEOREM DeliveryReachesOneDevice == Spec => []OneDevicePerDelivery
<1>1. ChatInv => OneDevicePerDelivery
  <2>1. ASSUME NEW W, \A s, t \in W : s = t PROVE Cardinality(W) <= 1
    <3>1. CASE W = {}
      <4>1. Cardinality(W) = 0
        BY <3>1, FS_EmptySet, Zenon
      <4> QED
        BY <4>1
    <3>2. ASSUME NEW s \in W PROVE Cardinality(W) <= 1
      <4>1. W = {s}
        BY <2>1, <3>2
      <4>2. Cardinality(W) = 1
        BY <4>1, FS_Singleton, Zenon
      <4> QED
        BY <4>2
    <3> QED
      BY <3>1, <3>2
  <2>2. ASSUME ChatInv, NEW n \in Attempts PROVE \A s, t \in {s \in wrote : s[2] = n} : s = t
    BY <2>2 DEF ChatInv, Writes
  <2> QED
    BY <2>1, <2>2 DEF OneDevicePerDelivery
<1> QED
  BY <1>1, ChatInvariant, PTL

\* A device shows a frame once, whatever handlers it has for it, and what the sender calls
\* delivered is stored (putInbox, insertMessage, ackInboundChatFrame).
THEOREM FrameShownOnce == Spec => []ShownOnce
<1>1. ChatInv => ShownOnce
  BY DEF ChatInv, TypeOK, Writes, Recipient, Shows, ShownOnce
<1> QED
  BY <1>1, ChatInvariant, PTL

-----------------------------------------------------------------------------
(* The outbox of the running holder.                                       *)

\* Between two flushes nothing is being delivered.
Rested == pc # "flushing" => due = {} /\ sending = {}

\* What is left of the loop's sleep, with the time since a row was begun last, makes up the initial backoff,
\* and so does that time alone from the end of the sleep to the flush.
Spaced ==
    /\ pc = "wait" /\ sleep # NoSleep => \A r \in Rows : ago[r] + sleep >= InitialBackoff
    /\ pc \in {"flush", "lookup"} => \A r \in Rows : ago[r] = InitialBackoff

OutboxInv == RuntimeTypeOK /\ Rested /\ NeverParked /\ Spaced /\ AttemptsAreSpaced

RowRecords == [status : {"none", "queued", "sent", "failed"}, delay : 0..MaxBackoff, wait : 0..MaxBackoff]

-----------------------------------------------------------------------------

\* A set of naturals that is not empty has a least element.
LEMMA LeastExists == ASSUME NEW S \in SUBSET Nat, S # {} PROVE \E x \in S : \A y \in S : x <= y
<1> DEFINE Below == {0..x : x \in S}
<1>1. IsWellFoundedOn(StrictSubsetOrdering(Nat), FiniteSubsetsOf(Nat))
  BY FS_StrictSubsetOrderingWellFounded
<1>2. Below \subseteq FiniteSubsetsOf(Nat)
  <2> SUFFICES ASSUME NEW x \in S PROVE 0..x \in FiniteSubsetsOf(Nat)
    OBVIOUS
  <2>1. 0 \in Int /\ x \in Int /\ 0..x \subseteq Nat
    OBVIOUS
  <2>2. IsFiniteSet(0..x)
    BY <2>1, FS_Interval
  <2> QED
    BY <2>1, <2>2 DEF FiniteSubsetsOf
<1>3. PICK X \in Below : \A Y \in Below : ~ (<<Y, X>> \in StrictSubsetOrdering(Nat))
  <2>1. Below # {}
    OBVIOUS
  <2> HIDE DEF Below
  <2> QED
    BY <1>1, <1>2, <2>1, WFMin
<1>4. PICK m \in S : X = 0..m
  BY <1>3
<1>5. ASSUME NEW y \in S, y < m PROVE FALSE
  <2>1. 0..y \subseteq 0..m /\ 0..y # 0..m
    <3>1. m \in 0..m /\ m \notin 0..y
      BY <1>5
    <3> QED
      BY <1>5, <3>1
  <2>2. <<0..y, 0..m>> \in StrictSubsetOrdering(Nat)
    BY <2>1 DEF StrictSubsetOrdering
  <2> QED
    BY <1>3, <1>4, <2>2
<1> QED
  BY <1>5

\* Min, of the community modules, is a member of its set.
LEMMA LeastIsLeast == ASSUME NEW S \in SUBSET Nat, S # {} PROVE Min(S) \in S
  BY LeastExists DEF Min

\* Max, of two numbers.
LEMMA GreaterOfTwo == ASSUME NEW a \in Nat, NEW b \in Nat PROVE Max({a, b}) = IF a < b THEN b ELSE a
<1>1. \E x \in {a, b} : \A y \in {a, b} : x >= y
  OBVIOUS
<1>2. Max({a, b}) \in {a, b} /\ \A y \in {a, b} : Max({a, b}) >= y
  BY <1>1 DEF Max
<1> QED
  BY <1>2

\* The loop sleeps without an end only if it read an empty outbox, and otherwise for the initial backoff
\* at least.
LEMMA SleepIsBounded ==
    ASSUME RuntimeTypeOK, NEW rows \in SUBSET Rows, NEW readable \in BOOLEAN
    PROVE  /\ SleepFor(rows, readable) \in {NoSleep} \cup 0..MaxBackoff
           /\ SleepFor(rows, readable) = NoSleep => readable /\ rows = {}
           /\ SleepFor(rows, readable) = NoSleep \/ SleepFor(rows, readable) >= InitialBackoff
<1> DEFINE Waits == {row[r].wait : r \in rows}
<1>1. InitialBackoff \in Nat \ {0} /\ MaxBackoff \in Nat /\ InitialBackoff <= MaxBackoff
  BY OutboxAssumption
<1>2. CASE rows = {} \/ ~readable
  BY <1>1, <1>2 DEF SleepFor, NoSleep
<1>3. CASE rows # {} /\ readable
  <2>1. row \in [Rows -> RowRecords]
    BY DEF RuntimeTypeOK, RowRecords
  <2>2. Waits \subseteq 0..MaxBackoff /\ Waits # {}
    BY <1>3, <2>1 DEF RowRecords
  <2>3. Min(Waits) \in 0..MaxBackoff
    <3> HIDE DEF Waits
    <3>1. Waits \in SUBSET Nat
      BY <1>1, <2>2
    <3> QED
      BY <2>2, <3>1, LeastIsLeast
  <2>4. Max({InitialBackoff, Min(Waits)}) \in InitialBackoff..MaxBackoff
    <3> HIDE DEF Waits
    <3> QED
      BY <1>1, <2>3, GreaterOfTwo
  <2> QED
    BY <1>1, <1>3, <2>4 DEF SleepFor, NoSleep
<1> QED
  BY <1>2, <1>3

\* The backoff never passes its maximum.
LEMMA DelayIsBounded == ASSUME NEW delay \in 0..MaxBackoff PROVE NextDelay(delay) \in 0..MaxBackoff
  BY OutboxAssumption DEF NextDelay

\* What an attempt writes into its row, and that it leaves the others alone.
LEMMA WriteKeeps ==
    ASSUME RuntimeTypeOK, NEW r \in Rows, row[r].status = "queued",
           NEW status \in {"queued", "sent", "failed"},
           \/ row' = row
           \/ status = "queued" /\ MarkWaiting(r)
           \/ status # "queued" /\ Put(r, status)
    PROVE  /\ row' \in [Rows -> RowRecords]
           /\ \A q \in Rows : q # r => row'[q] = row[q]
           /\ row'[r].status \in {"queued", status}
<1>1. row \in [Rows -> RowRecords]
  BY DEF RuntimeTypeOK, RowRecords
<1>2. row[r] \in RowRecords
  BY <1>1
<1>3. CASE row' = row
  BY <1>1, <1>3
<1>4. CASE status = "queued" /\ MarkWaiting(r)
  <2>1. NextDelay(row[r].delay) \in 0..MaxBackoff
    BY <1>2, DelayIsBounded DEF RowRecords
  <2>2. ASSUME NEW d \in 0..MaxBackoff PROVE [row[r] EXCEPT !.delay = d, !.wait = d] \in RowRecords
    BY <1>2 DEF RowRecords
  <2>3. row' = [row EXCEPT ![r] = [row[r] EXCEPT !.delay = NextDelay(row[r].delay), !.wait = NextDelay(row[r].delay)]]
    BY <1>1, <1>4 DEF MarkWaiting
  <2>4. row'[r].status = row[r].status
    BY <1>1, <1>2, <2>3 DEF RowRecords
  <2> QED
    BY <1>1, <2>1, <2>2, <2>3, <2>4
<1>5. CASE status # "queued" /\ Put(r, status)
  <2>1. 0 \in 0..MaxBackoff
    BY OutboxAssumption
  <2>2. ASSUME NEW d \in 0..MaxBackoff
        PROVE  [row[r] EXCEPT !.status = status, !.delay = d, !.wait = d] \in RowRecords
    BY <1>2 DEF RowRecords
  <2>3. row' = [row EXCEPT ![r] = [row[r] EXCEPT !.status = status, !.delay = 0, !.wait = 0]]
    BY <1>1, <1>5 DEF Put
  <2>4. row'[r].status = status
    BY <1>1, <1>2, <2>3 DEF RowRecords
  <2>5. [row[r] EXCEPT !.status = status, !.delay = 0, !.wait = 0] \in RowRecords
    BY <2>1, <2>2
  <2> QED
    BY <1>1, <2>3, <2>4, <2>5
<1> QED
  BY <1>3, <1>4, <1>5

-----------------------------------------------------------------------------

\* An empty outbox at the start of the CLI.
LEMMA OutboxInit == RuntimeInit => OutboxInv
<1> SUFFICES ASSUME RuntimeInit PROVE OutboxInv
  OBVIOUS
<1>1. NoRow \in RowRecords
  BY OutboxAssumption DEF NoRow, RowRecords
<1>2. row \in [Rows -> RowRecords] /\ \A r \in Rows : row[r].status = "none"
  BY <1>1 DEF RuntimeInit, NoRow
<1>3. crashes \in 0..MaxCrashes
  BY OutboxAssumption DEF RuntimeInit
<1>4. ago \in [Rows -> 0..InitialBackoff] /\ \A r \in Rows : ago[r] = InitialBackoff
  BY OutboxAssumption DEF RuntimeInit
<1>5. RuntimeTypeOK
  BY <1>2, <1>3, <1>4 DEF RuntimeInit, RuntimeTypeOK, RowRecords
<1> QED
  BY <1>2, <1>4, <1>5 DEF RuntimeInit, OutboxInv, Rested, NeverParked, Spaced, AttemptsAreSpaced

\* Attempts.
LEMMA AttemptKeeps == ASSUME OutboxInv, NEW r \in Rows, Attempt(r) PROVE OutboxInv'
<1>1. /\ RuntimeTypeOK /\ Rested /\ NeverParked /\ Spaced /\ AttemptsAreSpaced
      /\ row \in [Rows -> RowRecords] /\ due \subseteq Rows /\ sending \subseteq Rows
      /\ \A q \in due \cup sending : row[q].status = "queued"
  BY DEF OutboxInv, RuntimeTypeOK, RowRecords
<1>2. pc' = pc /\ sleep' = sleep /\ wakes' = wakes /\ skip' = skip /\ pendingRows' = pendingRows
      /\ reachable' = reachable /\ crashes' = crashes
  BY DEF Attempt, Begin, BeginFails, Receive, Delivered, Undelivered, loopVars
<1>3. r \in due \cup sending
  BY DEF Attempt, Begin, BeginFails, Receive, Delivered, Undelivered, First
<1>4. PICK status \in {"queued", "sent", "failed"} :
        /\ \/ row' = row
           \/ status = "queued" /\ MarkWaiting(r)
           \/ status # "queued" /\ Put(r, status)
        /\ r \in due' \cup sending' => row' = row
  BY <1>1 DEF Attempt, Begin, BeginFails, Receive, Delivered, Undelivered, PutOrKeep, First, RuntimeTypeOK
<1>5. /\ row' \in [Rows -> RowRecords]
      /\ \A q \in Rows : q # r => row'[q] = row[q]
      /\ row'[r].status \in {"queued", status}
  BY <1>1, <1>3, <1>4, WriteKeeps
<1>6. /\ due' \subseteq due /\ sending' \subseteq sending \cup due /\ due' \cap sending' = {}
      /\ received \subseteq received' /\ received' \subseteq Rows
  BY <1>1 DEF Attempt, Begin, BeginFails, Receive, Delivered, Undelivered, First, RuntimeTypeOK
<1>7. \A q \in due' \cup sending' : row'[q].status = "queued"
  BY <1>1, <1>4, <1>5, <1>6
<1>8. Rested'
  BY <1>1, <1>2, <1>6 DEF Rested
<1>9. Queued' \subseteq Queued
  BY <1>1, <1>3, <1>5 DEF Queued
<1>10. NeverParked'
  BY <1>1, <1>2, <1>9 DEF NeverParked
<1>11. pc = "flushing" /\ Spaced'
  BY <1>1, <1>2, <1>3 DEF Rested, Spaced
<1>12. AttemptsAreSpaced' /\ ago' \in [Rows -> 0..InitialBackoff]
  <2>1. \/ due' = due /\ ago' = ago
        \/ due' = due \ {r} /\ ago' = [ago EXCEPT ![r] = 0]
    BY DEF Attempt, Begin, BeginFails, Receive, Delivered, Undelivered
  <2>2. ago \in [Rows -> 0..InitialBackoff] /\ 0 \in 0..InitialBackoff
    BY <1>1, OutboxAssumption DEF RuntimeTypeOK
  <2> QED
    BY <1>1, <2>1, <2>2 DEF AttemptsAreSpaced
<1>13. RuntimeTypeOK'
  BY <1>1, <1>2, <1>5, <1>6, <1>7, <1>12 DEF RuntimeTypeOK, RowRecords
<1> QED
  BY <1>8, <1>10, <1>11, <1>12, <1>13 DEF OutboxInv

\* The rest of the CLI and the world.
LEMMA WorldKeeps ==
    ASSUME OutboxInv, \/ \E r \in Rows : Enqueue(r)
                      \/ \E q \in Qids : Connect(q) \/ Vanish(q)
                      \/ TimePasses \/ Crash
    PROVE  OutboxInv'
<1>1. /\ RuntimeTypeOK /\ Rested /\ NeverParked /\ Spaced /\ AttemptsAreSpaced
      /\ row \in [Rows -> RowRecords]
  BY DEF OutboxInv, RuntimeTypeOK, RowRecords
<1>2. ASSUME NEW r \in Rows, Enqueue(r) PROVE OutboxInv'
  <2>1. [NoRow EXCEPT !.status = "queued"] \in RowRecords /\ [NoRow EXCEPT !.status = "queued"].status = "queued"
    BY OutboxAssumption DEF NoRow, RowRecords
  <2>2. /\ row' \in [Rows -> RowRecords]
        /\ \A q \in Rows : row'[q] = row[q] \/ (row[q].status = "none" /\ row'[q].status = "queued")
    BY <1>1, <1>2, <2>1 DEF Enqueue
  <2>3. UNCHANGED <<pc, sleep, skip, pendingRows, due, sending, reachable, received, ago, crashes>> /\ wakes' = wakes \cup {Enqueued}
    BY <1>2 DEF Enqueue, loopVars
  <2>4. RuntimeTypeOK'
    BY <1>1, <2>2, <2>3 DEF RuntimeTypeOK, RowRecords
  <2> QED
    BY <1>1, <2>2, <2>3, <2>4 DEF OutboxInv, Rested, NeverParked, Spaced, AttemptsAreSpaced
<1>3. ASSUME NEW q \in Qids, Connect(q) \/ Vanish(q) PROVE OutboxInv'
  <2>1. /\ UNCHANGED <<row, pc, sleep, skip, pendingRows, due, sending, received, ago, crashes>>
        /\ reachable' \subseteq reachable \cup {q} /\ wakes \subseteq wakes' /\ wakes' \subseteq wakes \cup {q}
    BY <1>3 DEF Connect, Vanish, loopVars
  <2>2. RuntimeTypeOK'
    BY <1>1, <2>1 DEF RuntimeTypeOK
  <2> QED
    BY <1>1, <2>1, <2>2 DEF OutboxInv, Rested, NeverParked, Spaced, AttemptsAreSpaced, Queued
<1>4. ASSUME TimePasses PROVE OutboxInv'
  <2>1. ASSUME NEW n \in 0..MaxBackoff PROVE Less(n) \in 0..MaxBackoff
    BY OutboxAssumption DEF Less
  <2>2. ASSUME NEW x \in RowRecords
        PROVE  [x EXCEPT !.wait = Less(@)] \in RowRecords /\ [x EXCEPT !.wait = Less(@)].status = x.status
    <3>1. ASSUME NEW w \in 0..MaxBackoff
          PROVE  [x EXCEPT !.wait = w] \in RowRecords /\ [x EXCEPT !.wait = w].status = x.status
      BY DEF RowRecords
    <3>2. Less(x.wait) \in 0..MaxBackoff
      BY <2>1 DEF RowRecords
    <3> QED
      BY <3>1, <3>2
  <2>3. row' \in [Rows -> RowRecords] /\ \A r \in Rows : row'[r].status = row[r].status
    BY <1>1, <1>4, <2>2 DEF TimePasses
  <2>4. sleep' \in {NoSleep} \cup 0..MaxBackoff /\ (sleep' = NoSleep => sleep = NoSleep)
    BY <1>1, <1>4, <2>1, OutboxAssumption DEF TimePasses, RuntimeTypeOK, NoSleep, Less
  <2>5. UNCHANGED <<wakes, pc, skip, pendingRows, due, sending, reachable, received, crashes>>
    BY <1>4 DEF TimePasses
  <2>6. /\ ago \in [Rows -> 0..InitialBackoff]
        /\ ago' = [r \in Rows |-> IF ago[r] < InitialBackoff THEN ago[r] + 1 ELSE InitialBackoff]
    BY <1>1, <1>4 DEF TimePasses, RuntimeTypeOK
  <2>7. ASSUME NEW r \in Rows
        PROVE  /\ ago'[r] \in 0..InitialBackoff
               /\ ago[r] = InitialBackoff => ago'[r] = InitialBackoff
               /\ ago'[r] = InitialBackoff \/ ago'[r] = ago[r] + 1
    BY <2>6, OutboxAssumption
  <2>8. RuntimeTypeOK'
    BY <1>1, <2>3, <2>4, <2>5, <2>6, <2>7 DEF RuntimeTypeOK, RowRecords
  <2>9. Spaced'
    <3>1. sleep \in {NoSleep} \cup 0..MaxBackoff /\ sleep' = (IF sleep > 0 THEN sleep - 1 ELSE sleep) /\ NoSleep = -1
      BY <1>1, <1>4 DEF TimePasses, RuntimeTypeOK, Less, NoSleep
    <3>2. pc' = pc
      BY <2>5
    <3>3. ASSUME pc = "wait", sleep' # NoSleep, NEW r \in Rows PROVE ago'[r] + sleep' >= InitialBackoff
      <4>1. ago[r] + sleep >= InitialBackoff
        BY <1>1, <3>1, <3>3, OutboxAssumption DEF Spaced
      <4>2. ago[r] \in 0..InitialBackoff
        BY <2>6
      <4> QED
        BY <2>7, <3>1, <3>3, <4>1, <4>2, OutboxAssumption
    <3> QED
      BY <1>1, <2>7, <3>2, <3>3 DEF Spaced
  <2>10. AttemptsAreSpaced'
    BY <1>1, <2>5, <2>7 DEF AttemptsAreSpaced, RuntimeTypeOK
  <2> QED
    BY <1>1, <2>3, <2>4, <2>5, <2>8, <2>9, <2>10 DEF OutboxInv, Rested, NeverParked, Spaced, AttemptsAreSpaced, Queued
<1>5. ASSUME Crash PROVE OutboxInv'
  <2>1. crashes' \in 0..MaxCrashes
    BY <1>1, <1>5, OutboxAssumption DEF Crash, RuntimeTypeOK
  <2>2. ago' \in [Rows -> 0..InitialBackoff] /\ \A r \in Rows : ago'[r] = InitialBackoff
    BY <1>5, OutboxAssumption DEF Crash
  <2>3. RuntimeTypeOK'
    BY <1>1, <1>5, <2>1, <2>2 DEF Crash, RuntimeTypeOK
  <2> QED
    BY <1>1, <1>5, <2>2, <2>3 DEF Crash, OutboxInv, Rested, NeverParked, Spaced, AttemptsAreSpaced
<1> QED
  BY <1>2, <1>3, <1>4, <1>5

\* The loop.
LEMMA LoopKeeps == ASSUME OutboxInv, Loop PROVE OutboxInv'
<1>1. RuntimeTypeOK /\ Rested /\ NeverParked /\ Spaced /\ AttemptsAreSpaced
  BY DEF OutboxInv
<1>2. CASE Flush
  BY <1>1, <1>2 DEF Flush, OutboxInv, RuntimeTypeOK, Rested, NeverParked, Spaced, AttemptsAreSpaced, Queued
<1>3. CASE Flushed
  BY <1>1, <1>3 DEF Flushed, OutboxInv, RuntimeTypeOK, Rested, NeverParked, Spaced, AttemptsAreSpaced
<1>4. CASE GoToSleep
  <2>1. PICK readable \in BOOLEAN : pendingRows' = (IF readable THEN Queued ELSE {}) /\ sleep' = SleepFor(pendingRows', readable)
    BY <1>4 DEF GoToSleep
  <2>2. pendingRows' \in SUBSET Rows
    BY <2>1 DEF Queued
  <2>3. sleep' \in {NoSleep} \cup 0..MaxBackoff /\ (sleep' = NoSleep => readable /\ pendingRows' = {})
    BY <1>1, <2>1, <2>2, SleepIsBounded
  <2>4. UNCHANGED <<row, wakes, skip, due, sending, reachable, received, ago, crashes>> /\ pc' = "wait" /\ pc = "read"
    BY <1>4 DEF GoToSleep
  <2>5. RuntimeTypeOK'
    BY <1>1, <2>2, <2>3, <2>4 DEF RuntimeTypeOK
  <2>6. NeverParked'
    BY <2>1, <2>3, <2>4 DEF NeverParked, Queued
  <2>7. Spaced'
    <3>1. sleep' = NoSleep \/ sleep' >= InitialBackoff
      BY <1>1, <2>1, <2>2, SleepIsBounded
    <3>2. ago \in [Rows -> 0..InitialBackoff]
      BY <1>1 DEF RuntimeTypeOK
    <3> QED
      BY <2>3, <2>4, <3>1, <3>2, OutboxAssumption DEF Spaced
  <2> QED
    BY <1>1, <2>4, <2>5, <2>6, <2>7 DEF OutboxInv, Rested, AttemptsAreSpaced
<1>5. CASE WakeUp
  <2>1. \A r \in Rows : ago'[r] = InitialBackoff
    <3>1. ago \in [Rows -> 0..InitialBackoff] /\ pc = "wait"
      BY <1>1, <1>5 DEF WakeUp, RuntimeTypeOK
    <3>2. CASE wakes = {}
      BY <1>1, <1>5, <3>1, <3>2, OutboxAssumption DEF WakeUp, Spaced, NoSleep
    <3>3. CASE wakes # {}
      BY <1>5, <3>3 DEF WakeUp
    <3> QED
      BY <3>2, <3>3
  <2>2. ago' \in [Rows -> 0..InitialBackoff]
    BY <1>1, <1>5, OutboxAssumption DEF WakeUp, RuntimeTypeOK
  <2>3. due = {} /\ due' = {} /\ pc' \in {"flush", "lookup"}
    BY <1>1, <1>5 DEF WakeUp, Rested
  <2>4. RuntimeTypeOK'
    BY <1>1, <1>5, <2>2 DEF WakeUp, Kept, RuntimeTypeOK
  <2> QED
    BY <1>1, <1>5, <2>1, <2>3, <2>4 DEF WakeUp, OutboxInv, Rested, NeverParked, Spaced, AttemptsAreSpaced
<1>6. CASE Lookup
  BY <1>1, <1>6 DEF Lookup, OutboxInv, RuntimeTypeOK, Rested, NeverParked, Spaced, AttemptsAreSpaced
<1> QED
  BY <1>2, <1>3, <1>4, <1>5, <1>6 DEF Loop

\* What the outbox of a running CLI keeps true at every step.
THEOREM OutboxInvariant == RuntimeSpec => []OutboxInv
<1>1. RuntimeInit => OutboxInv
  BY OutboxInit
<1>2. OutboxInv /\ [RuntimeNext]_runtimeVars => OutboxInv'
  <2> SUFFICES ASSUME OutboxInv, [RuntimeNext]_runtimeVars PROVE OutboxInv'
    OBVIOUS
  <2>1. CASE UNCHANGED runtimeVars
    BY <2>1 DEF runtimeVars, OutboxInv, RuntimeTypeOK, Rested, NeverParked, Spaced, AttemptsAreSpaced, Queued
  <2> QED
    BY <2>1, AttemptKeeps, WorldKeeps, LoopKeeps DEF RuntimeNext
<1> QED
  BY <1>1, <1>2, PTL DEF RuntimeSpec

\* The loop goes to sleep without an end only on an empty outbox, whatever reads and writes failed
\* and whenever the process died (outbox.ts, lines 360-374).
THEOREM LoopIsNeverParked == RuntimeSpec => []NeverParked
<1>1. OutboxInv => NeverParked
  BY DEF OutboxInv
<1> QED
  BY <1>1, OutboxInvariant, PTL

\* With nothing to wake the loop, a row is not begun twice within the initial backoff, whatever reads and
\* writes failed (outbox.ts, lines 369-373).
THEOREM LoopNeverSpins == RuntimeSpec => []AttemptsAreSpaced
<1>1. OutboxInv => AttemptsAreSpaced
  BY DEF OutboxInv
<1> QED
  BY <1>1, OutboxInvariant, PTL
=============================================================================
