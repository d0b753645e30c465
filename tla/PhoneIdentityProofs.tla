------------------------- MODULE PhoneIdentityProofs -------------------------
(***************************************************************************)
(* A phone's identity, its records, what its screens show and the markers  *)
(* of its install agree at every moment, for any number of identities,     *)
(* installs, nonces, devices and mishaps.                                  *)
(*                                                                         *)
(* PhoneInv has a part for each: what is stored belongs together, the      *)
(* operation with the permit goes on with the record it has read, the line *)
(* for the permit belongs to the step that is shown or finds everything    *)
(* confirmed, a reset has the store for itself.  MembersKept ties it to    *)
(* the registry: a key on a roster, or of an intent that was mined, is     *)
(* remembered, so what the phone saw once stays true.                      *)
(***************************************************************************)
EXTENDS PhoneIdentity, SequenceTheorems, TLAPS

Statuses == {"loading", "absent", "unregistered", "enrolling", "backup", "ready", "resetting", "error"}
Errors   == {"none", "read", "write", "decode", "delete", "stale-install", "already-exists",
             "availability", "install-state"}

ServiceTypes ==
    /\ time \in 0..MaxTime
    /\ accounts \in [Owners -> [live : BOOLEAN, keys : SUBSET Keys, removed : SUBSET Keys, others : Nat, nonce : Nat]]
    /\ posted \subseteq Intents
    /\ DOMAIN rows \subseteq Intents /\ \A i \in DOMAIN rows : rows[i] \in RowStates
    /\ members \in [Owners -> SUBSET Keys]

\* Who is on a roster, or whose intent was mined, is remembered.
MembersKept ==
    /\ \A o \in Owners : accounts[o].keys \subseteq members[o]
    /\ \A i \in DOMAIN rows : rows[i] \in {"mined", "confirmed"} => i.key \in members[i.owner]

PhoneTypes ==
    /\ identity \in Identities \cup {Nothing}
    /\ registration \in Records(RegistrationStatuses) \cup {Nothing}
    /\ enrollment \in Records(EnrollmentStatuses) \cup {Nothing}
    /\ keychainMark \in BOOLEAN /\ sandboxMark \in BOOLEAN
    /\ shown \in [status : Statuses, registration : RegistrationStatuses \cup {"none"},
                  enrollment : EnrollmentStatuses \cup {"none"}, error : Errors]
    /\ shown.error # "none" => shown.status = "error"
    /\ loading \in [step : {"none", "identity", "records"}, backedUp : BOOLEAN]
    /\ resetting \in {"none", "registration", "enrollment", "identity", "mark"}
    /\ drawn \in Nat /\ made \in 0..MaxIdentities /\ install \in 0..MaxInstalls
    /\ saved \subseteq Owners

\* The keychain remembers who has an identity, and the sandbox who made it.
MarksInv == identity # Nothing => /\ keychainMark /\ identity.install <= install
                                  /\ Reinstalled <=> identity.install # install

(* What is stored belongs together: no record without the identity it was  *)
(* made for, one record at most, and whose record is confirmed is a member.*)
OfIdentity(i) == i.owner = identity.owner /\ i.key = identity.key
Confirmed == "confirmed" \in {StatusIn(registration), StatusIn(enrollment)}
StoreInv ==
    /\ identity = Nothing => registration = Nothing /\ enrollment = Nothing
    /\ registration # Nothing => OfIdentity(registration.intent) /\ enrollment = Nothing
    /\ enrollment # Nothing => OfIdentity(enrollment.intent) /\ identity.backedUp
    /\ registration # Nothing /\ identity.backedUp => registration.status = "confirmed"
    /\ Confirmed => identity.key \in members[identity.owner]

(* The operation with the permit goes on with the record it has read.      *)
RegisterFlow ==
    /\ flow.op = "register" /\ flow.step \in {"sent", "uninvited", "owner", "handle", "ask"}
    /\ registration # Nothing /\ registration.intent = flow.intent /\ registration.status = "pending"
CheckRegistrationFlow ==
    /\ flow.op = "checkRegistration" /\ flow.step \in {"owner", "handle", "ask"}
    /\ registration # Nothing /\ registration.intent = flow.intent
    /\ registration.status \in {"pending", "submitted"}
EnrollFlow ==
    /\ flow.op = "enroll" /\ flow.step \in {"account", "member", "full", "room"}
    /\ StatusIn(enrollment) \notin {"submitted", "confirmed"}
    /\ flow.step = "member" => identity.key \in members[identity.owner]
SubmittedFlow ==
    /\ \/ flow.op = "enroll" /\ flow.step = "sent"
       \/ flow.op = "checkEnrollment" /\ flow.step \in {"roster", "ask", "landed", "missing", "sent"}
    /\ enrollment # Nothing /\ enrollment.intent = flow.intent /\ enrollment.status = "submitted"
FlowInv ==
    \/ flow = NoFlow
    \/ /\ identity # Nothing /\ flow.intent \in Intents /\ OfIdentity(flow.intent)
       /\ RegisterFlow \/ CheckRegistrationFlow \/ EnrollFlow \/ SubmittedFlow

(* The line for the permit: the user's operation and a check, in any order.*)
(* Either what is stored is confirmed and all of them find it so, or the   *)
(* phone shows the step they belong to.  A check finds an open record only *)
(* if one is shown.                                                        *)
Hand(w, op) == {w[n] : n \in DOMAIN w} \cup {op}
LineOf(user, check, w, op) ==
    \/ op = "none" /\ w \in {<<>>, <<user>>, <<check>>, <<user, check>>, <<check, user>>}
    \/ op = user  /\ w \in {<<>>, <<check>>}
    \/ op = check /\ w \in {<<>>, <<user>>}
LineFits(user, check, screen, open, w, op, status, seen, stored) ==
    /\ LineOf(user, check, w, op)
    /\ w # <<>> \/ op # "none" => \/ op = "none" /\ stored = "confirmed"
                                  \/ status = screen /\ seen # "confirmed"
    /\ check \in Hand(w, op) => \/ seen \in open
                                \/ op = "none" /\ stored = "confirmed"
                                \/ op = "none" /\ stored \notin open /\ w[1] = check
OpenRecords == {"pending", "submitted"}
SentRecords == {"submitted"}
Registering == LineFits("register", "checkRegistration", "unregistered", OpenRecords,
                        waiting, flow.op, shown.status, shown.registration, StatusIn(registration))
Enrolling   == LineFits("enroll", "checkEnrollment", "enrolling", SentRecords,
                        waiting, flow.op, shown.status, shown.enrollment, StatusIn(enrollment))
LineInv == Registering \/ Enrolling

(* What is shown agrees with what is stored.                               *)
ShownInv ==
    /\ shown.status = "absent" => identity = Nothing
    /\ shown.status = "unregistered" =>
         /\ identity # Nothing /\ ~identity.backedUp
         /\ shown.registration = "confirmed" <=> StatusIn(registration) = "confirmed"
         /\ shown.registration # "confirmed" => loading.step = "none"
    /\ shown.status = "enrolling" =>
         /\ identity # Nothing /\ identity.backedUp /\ registration = Nothing
         /\ shown.enrollment = "confirmed" <=> StatusIn(enrollment) = "confirmed"
         /\ shown.enrollment # "confirmed" => loading.step = "none"
    /\ shown.status \in {"backup", "ready"} => identity # Nothing /\ Confirmed
    /\ loading.step = "records" => identity # Nothing /\ (loading.backedUp = identity.backedUp \/ Confirmed)

(* A reset has the store for itself, and the identity goes last.           *)
ResetInv ==
    /\ resetting # "none" => shown.status = "resetting" /\ loading.step = "none" /\ waiting = <<>> /\ flow = NoFlow
    /\ resetting \in {"enrollment", "identity", "mark"} => registration = Nothing
    /\ resetting \in {"identity", "mark"} => enrollment = Nothing
    /\ resetting = "mark" => identity = Nothing

PhoneInv == PhoneTypes /\ MarksInv /\ StoreInv /\ FlowInv /\ LineInv /\ ShownInv /\ ResetInv
IdentityInv == ServiceTypes /\ MembersKept /\ PhoneInv

-----------------------------------------------------------------------------
(* The line for the permit.                                                *)

LEMMA Queues == ASSUME NEW a, NEW b
                PROVE  /\ <<a>> # <<>> /\ <<a, b>> # <<>>
                       /\ Append(<<>>, a) = <<a>> /\ Append(<<a>>, b) = <<a, b>>
                       /\ Head(<<a>>) = a /\ Tail(<<a>>) = <<>>
                       /\ Head(<<a, b>>) = a /\ Tail(<<a, b>>) = <<b>>
<1>1. <<a>> # <<>> /\ <<a, b>> # <<>> /\ Append(<<>>, a) = <<a>>
  OBVIOUS
<1>2. Append(<<a>>, b) = <<a, b>>
  <2>1. <<a>> \in Seq({a, b}) /\ b \in {a, b} /\ <<a, b>> \in Seq({a, b}) /\ Len(<<a>>) = 1 /\ Len(<<a, b>>) = 2
    OBVIOUS
  <2>2. /\ Append(<<a>>, b) \in Seq({a, b}) /\ Len(Append(<<a>>, b)) = 2
        /\ \A i \in 1..1 : Append(<<a>>, b)[i] = <<a>>[i]
        /\ Append(<<a>>, b)[2] = b
    BY <2>1, AppendProperties
  <2>3. \A i \in 1..2 : Append(<<a>>, b)[i] = <<a, b>>[i]
    BY <2>2
  <2> QED
    BY <2>1, <2>2, <2>3, SeqEqual
<1>3. Head(<<a>>) = a /\ Head(<<a, b>>) = a
  OBVIOUS
<1>4. Tail(<<a>>) = <<>>
  OBVIOUS
<1>5. Tail(<<a, b>>) = <<b>>
  OBVIOUS
<1> QED
  BY <1>1, <1>2, <1>3, <1>4, <1>5

LEMMA InQueues ==
  /\ \A op : Hand(<<>>, op) = {op}
  /\ \A a, op : Hand(<<a>>, op) = {a, op} /\ (<<a>>)[1] = a
  /\ \A a, b, op : Hand(<<a, b>>, op) = {a, b, op} /\ (<<a, b>>)[1] = a
<1>1. ASSUME NEW op PROVE Hand(<<>>, op) = {op}
  BY DEF Hand
<1>2. ASSUME NEW a, NEW op PROVE Hand(<<a>>, op) = {a, op} /\ (<<a>>)[1] = a
  <2>1. DOMAIN <<a>> = {1} /\ (<<a>>)[1] = a
    OBVIOUS
  <2> QED
    BY <2>1 DEF Hand
<1>3. ASSUME NEW a, NEW b, NEW op PROVE Hand(<<a, b>>, op) = {a, b, op} /\ (<<a, b>>)[1] = a
  <2>1. DOMAIN <<a, b>> = {1, 2} /\ (<<a, b>>)[1] = a /\ (<<a, b>>)[2] = b
    OBVIOUS
  <2> QED
    BY <2>1 DEF Hand
<1> QED
  BY <1>1, <1>2, <1>3

\* The two kinds of an operation that share a permit.
Pair(user, check) == user # check /\ user # "none" /\ check # "none"

\* In a line of five shapes, who is there and who comes next.
LEMMA LineShapes ==
  ASSUME NEW u, NEW c, Pair(u, c), NEW w, NEW op, LineOf(u, c, w, op)
  PROVE  /\ Hand(w, op) \subseteq {u, c, "none"}
         /\ u \notin Hand(w, op) => w \in {<<>>, <<c>>} /\ op # u
         /\ c \notin Hand(w, op) => w \in {<<>>, <<u>>} /\ op # c
         /\ op # "none" => w \in {<<>>, <<u>>, <<c>>} /\ op \in {u, c}
         /\ op = "none" /\ w # <<>> =>
              \/ Head(w) = u /\ w[1] = u /\ (Tail(w) = <<>> \/ (Tail(w) = <<c>> /\ c \in Hand(w, op)))
              \/ Head(w) = c /\ w[1] = c /\ c \in Hand(w, op) /\ Tail(w) \in {<<>>, <<u>>}
<1> DEFINE E == <<>>   U == <<u>>   C == <<c>>   UC == <<u, c>>   CU == <<c, u>>
<1>1. \/ op = "none" /\ w \in {E, U, C, UC, CU}
      \/ op = u /\ w \in {E, C}
      \/ op = c /\ w \in {E, U}
  BY DEF LineOf
<1>2. /\ Hand(E, op) = {op} /\ Hand(U, op) = {u, op} /\ Hand(C, op) = {c, op} /\ Hand(UC, op) = {u, c, op}
      /\ Hand(CU, op) = {c, u, op}
  <2>1. Hand(E, op) = {op} /\ Hand(U, op) = {u, op} /\ Hand(C, op) = {c, op}
    BY InQueues
  <2>2. Hand(UC, op) = {u, c, op}
    BY InQueues
  <2>3. Hand(CU, op) = {c, u, op}
    BY InQueues
  <2> QED
    BY <2>1, <2>2, <2>3
<1>3. U[1] = u /\ C[1] = c /\ UC[1] = u /\ CU[1] = c
  BY InQueues
<1>4. /\ Head(U) = u /\ Head(C) = c /\ Head(UC) = u /\ Head(CU) = c
      /\ Tail(U) = E /\ Tail(C) = E /\ Tail(UC) = C /\ Tail(CU) = U
  BY Queues
<1>5. U # E /\ C # E /\ UC # E /\ CU # E
  BY Queues
<1> HIDE DEF E, U, C, UC, CU
<1>6. /\ Hand(w, op) \subseteq {u, c, "none"}
      /\ u \notin Hand(w, op) => w \in {E, C} /\ op # u
      /\ c \notin Hand(w, op) => w \in {E, U} /\ op # c
  BY <1>1, <1>2 DEF Pair
<1>7. op # "none" => w \in {E, U, C} /\ op \in {u, c}
  BY <1>1 DEF Pair
<1>8. op = "none" /\ w # E =>
              \/ Head(w) = u /\ w[1] = u /\ (Tail(w) = E \/ (Tail(w) = C /\ c \in Hand(w, op)))
              \/ Head(w) = c /\ w[1] = c /\ c \in Hand(w, op) /\ Tail(w) \in {E, U}
  <2> SUFFICES ASSUME op = "none", w \in {U, C, UC, CU}
               PROVE  \/ Head(w) = u /\ w[1] = u /\ (Tail(w) = E \/ (Tail(w) = C /\ c \in Hand(w, op)))
                      \/ Head(w) = c /\ w[1] = c /\ c \in Hand(w, op) /\ Tail(w) \in {E, U}
    BY <1>1 DEF Pair
  <2>1. CASE w = U
    BY <2>1, <1>3, <1>4
  <2>2. CASE w = C
    BY <2>2, <1>2, <1>3, <1>4
  <2>3. CASE w = UC
    BY <2>3, <1>2, <1>3, <1>4
  <2>4. CASE w = CU
    BY <2>4, <1>2, <1>3, <1>4
  <2> QED
    BY <2>1, <2>2, <2>3, <2>4
<1> QED
  BY <1>6, <1>7, <1>8 DEF E, U, C

\* Nobody is in the line.
LEMMA LineEmpty ==
  ASSUME NEW u, NEW c, Pair(u, c), NEW screen, NEW open, NEW status, NEW seen, NEW stored
  PROVE  LineFits(u, c, screen, open, <<>>, "none", status, seen, stored)
  BY InQueues DEF LineFits, LineOf, Pair

\* The operation with the permit ends and changes nothing, or its result is stored and shown.
LEMMA LineEnds ==
  ASSUME NEW u, NEW c, Pair(u, c), NEW screen, NEW open, NEW w, NEW op, NEW status, NEW seen, NEW stored,
         LineFits(u, c, screen, open, w, op, status, seen, stored), op # "none"
  PROVE  /\ LineFits(u, c, screen, open, w, "none", status, seen, stored)
         /\ \A result : LineFits(u, c, screen, open, w, "none", status, result, result)
         /\ status = screen /\ seen # "confirmed" /\ (op = c => seen \in open)
<1>1. w \in {<<>>, <<u>>, <<c>>} /\ op \in {u, c}
  BY LineShapes DEF LineFits
<1>2. status = screen /\ seen # "confirmed"
  BY DEF LineFits
<1>3. LineOf(u, c, w, "none")
  BY <1>1 DEF LineOf
<1>4. c \in Hand(w, "none") => w = <<c>>
  BY <1>1, InQueues DEF Pair
<1>5. c \in Hand(w, "none") => c \in Hand(w, op)
  BY DEF Hand, Pair
<1>6. c \in Hand(w, op) => seen \in open
  BY DEF LineFits
<1>7. w = <<c>> => w[1] = c
  BY InQueues
<1>8. op = c => c \in Hand(w, op)
  BY DEF Hand
<1>9. LineFits(u, c, screen, open, w, "none", status, seen, stored)
  BY <1>2, <1>3, <1>5, <1>6 DEF LineFits
<1>10. ASSUME NEW result PROVE LineFits(u, c, screen, open, w, "none", status, result, result)
  BY <1>2, <1>3, <1>4, <1>7 DEF LineFits
<1> QED
  BY <1>2, <1>6, <1>8, <1>9, <1>10

\* What is stored while an operation has the permit is its own affair.
LEMMA LineGoesOn ==
  ASSUME NEW u, NEW c, Pair(u, c), NEW screen, NEW open, NEW w, NEW op, NEW status, NEW seen, NEW stored,
         LineFits(u, c, screen, open, w, op, status, seen, stored), op # "none"
  PROVE  \A now : LineFits(u, c, screen, open, w, op, status, seen, now)
  BY DEF LineFits

\* The next one takes the permit, and ends at once or keeps it.
LEMMA LineMoves ==
  ASSUME NEW u, NEW c, Pair(u, c), NEW screen, NEW open, "confirmed" \notin open,
         NEW w, w # <<>>, NEW status, NEW seen, NEW stored,
         LineFits(u, c, screen, open, w, "none", status, seen, stored)
  PROVE  /\ Head(w) \in {u, c}
         /\ stored = "confirmed" \/ (status = screen /\ seen # "confirmed")
         /\ LineFits(u, c, screen, open, Tail(w), "none", status, seen, stored)
         /\ status = screen => LineFits(u, c, screen, open, Tail(w), "none", status, stored, stored)
         /\ stored # "confirmed" /\ (Head(w) = c => stored \in open) =>
              \A now : LineFits(u, c, screen, open, Tail(w), Head(w), status, seen, now)
<1>1. LineOf(u, c, w, "none")
  BY DEF LineFits
<1>2. stored = "confirmed" \/ (status = screen /\ seen # "confirmed")
  BY DEF LineFits
<1>3. c \in Hand(w, "none") => seen \in open \/ stored = "confirmed" \/ (stored \notin open /\ w[1] = c)
  BY DEF LineFits
<1>4. CASE Head(w) = u /\ w[1] = u /\ (Tail(w) = <<>> \/ (Tail(w) = <<c>> /\ c \in Hand(w, "none")))
  <2>1. LineOf(u, c, Tail(w), "none") /\ LineOf(u, c, Tail(w), u)
    BY <1>4 DEF LineOf
  <2>2. /\ c \in Hand(Tail(w), "none") => c \in Hand(w, "none") /\ Tail(w)[1] = c
        /\ c \in Hand(Tail(w), u) => c \in Hand(w, "none")
    <3>1. Hand(<<>>, "none") = {"none"} /\ Hand(<<>>, u) = {u} /\ (<<c>>)[1] = c
      BY InQueues
    <3>2. CASE Tail(w) = <<>>
      BY <3>1, <3>2 DEF Pair
    <3>3. CASE Tail(w) = <<c>> /\ c \in Hand(w, "none")
      BY <3>1, <3>3
    <3> QED
      BY <1>4, <3>2, <3>3
  <2>3. c \in Hand(w, "none") => seen \in open \/ stored = "confirmed"
    BY <1>3, <1>4 DEF Pair
  <2>4. LineFits(u, c, screen, open, Tail(w), "none", status, seen, stored)
    BY <1>2, <2>1, <2>2, <2>3 DEF LineFits
  <2>5. status = screen => LineFits(u, c, screen, open, Tail(w), "none", status, stored, stored)
    BY <2>1, <2>2 DEF LineFits
  <2>6. ASSUME stored # "confirmed", NEW now
        PROVE  LineFits(u, c, screen, open, Tail(w), u, status, seen, now)
    BY <1>2, <2>1, <2>2, <2>3, <2>6 DEF LineFits
  <2> QED
    BY <1>2, <1>4, <2>4, <2>5, <2>6
<1>5. CASE Head(w) = c /\ w[1] = c /\ c \in Hand(w, "none") /\ Tail(w) \in {<<>>, <<u>>}
  <2>1. LineOf(u, c, Tail(w), "none") /\ LineOf(u, c, Tail(w), c)
    BY <1>5 DEF LineOf
  <2>2. c \notin Hand(Tail(w), "none")
    <3>1. Hand(<<>>, "none") = {"none"} /\ Hand(<<u>>, "none") = {u, "none"}
      BY InQueues
    <3> QED
      BY <1>5, <3>1 DEF Pair
  <2>4. LineFits(u, c, screen, open, Tail(w), "none", status, seen, stored)
    BY <1>2, <2>1, <2>2 DEF LineFits
  <2>5. status = screen => LineFits(u, c, screen, open, Tail(w), "none", status, stored, stored)
    BY <2>1, <2>2 DEF LineFits
  <2>6. ASSUME stored # "confirmed", stored \in open, NEW now
        PROVE  LineFits(u, c, screen, open, Tail(w), c, status, seen, now)
    BY <1>2, <1>3, <1>5, <2>1, <2>6 DEF LineFits
  <2> QED
    BY <1>2, <1>5, <2>4, <2>5, <2>6
<1> QED
  BY <1>1, <1>4, <1>5, LineShapes

\* It ends at once and shows nothing new, or what is stored.
LEMMA LineLeaves ==
  ASSUME NEW u, NEW c, Pair(u, c), NEW screen, NEW open, "confirmed" \notin open,
         NEW w, w # <<>>, NEW status, NEW seen, NEW stored,
         LineFits(u, c, screen, open, w, "none", status, seen, stored)
  PROVE  LineFits(u, c, screen, open, Tail(w), "none", status, seen, stored)
  BY LineMoves

LEMMA LineReturns ==
  ASSUME NEW u, NEW c, Pair(u, c), NEW screen, NEW open, "confirmed" \notin open,
         NEW w, w # <<>>, NEW seen, NEW stored,
         LineFits(u, c, screen, open, w, "none", screen, seen, stored)
  PROVE  LineFits(u, c, screen, open, Tail(w), "none", screen, stored, stored)
  BY LineMoves

\* It keeps the permit, whatever it stores.
LEMMA LineTaken ==
  ASSUME NEW u, NEW c, Pair(u, c), NEW screen, NEW open, "confirmed" \notin open,
         NEW w, w # <<>>, NEW status, NEW seen, NEW stored, stored # "confirmed",
         LineFits(u, c, screen, open, w, "none", status, seen, stored),
         NEW op, op = Head(w), op = c => stored \in open, NEW now
  PROVE  LineFits(u, c, screen, open, Tail(w), op, status, seen, now)
<1>1. stored # "confirmed" /\ (Head(w) = c => stored \in open)
  OBVIOUS
<1>2. LineFits(u, c, screen, open, Tail(w), Head(w), status, seen, now)
  BY <1>1, LineMoves
<1> QED
  BY <1>2

\* What is confirmed stays so, whatever is shown of it.
LEMMA LineConfirmed ==
  ASSUME NEW u, NEW c, Pair(u, c), NEW screen, NEW open, NEW w, NEW status, NEW seen,
         LineFits(u, c, screen, open, w, "none", status, seen, "confirmed")
  PROVE  \A status2, seen2 : LineFits(u, c, screen, open, w, "none", status2, seen2, "confirmed")
  BY DEF LineFits

\* The user's operation and the check join the line.
LEMMA LineJoined ==
  ASSUME NEW u, NEW c, Pair(u, c), NEW screen, NEW open, NEW w, NEW op, NEW seen, NEW stored,
         LineFits(u, c, screen, open, w, op, screen, seen, stored), seen # "confirmed"
  PROVE  /\ u \notin Hand(w, op) => LineFits(u, c, screen, open, Append(w, u), op, screen, seen, stored)
         /\ c \notin Hand(w, op) /\ seen \in open => LineFits(u, c, screen, open, Append(w, c), op, screen, seen, stored)
<1>1. LineOf(u, c, w, op)
  BY DEF LineFits
<1>2. ASSUME u \notin Hand(w, op) PROVE LineFits(u, c, screen, open, Append(w, u), op, screen, seen, stored)
  <2>1. w \in {<<>>, <<c>>} /\ op # u
    BY <1>1, <1>2, LineShapes
  <2>2. CASE w = <<>>
    <3>1. Append(w, u) = <<u>> /\ <<u>>[1] = u /\ Hand(w, op) = {op} /\ Hand(<<u>>, op) = {u, op}
      BY <2>2, Queues, InQueues
    <3>2. LineOf(u, c, <<u>>, op)
      BY <1>1, <2>1, <2>2 DEF LineOf
    <3> QED
      BY <2>2, <3>1, <3>2 DEF LineFits, Pair
  <2>3. CASE w = <<c>>
    <3>1. Append(w, u) = <<c, u>> /\ <<c, u>>[1] = c /\ w[1] = c
      BY <2>3, Queues, InQueues
    <3>2. Hand(w, op) = {c, op}
      BY <2>3, InQueues
    <3>3. LineOf(u, c, <<c, u>>, op)
      BY <1>1, <2>1, <2>3, Queues DEF LineOf, Pair
    <3> QED
      BY <2>3, <3>1, <3>2, <3>3 DEF LineFits, Pair
  <2> QED
    BY <2>1, <2>2, <2>3
<1>3. ASSUME c \notin Hand(w, op), seen \in open
      PROVE  LineFits(u, c, screen, open, Append(w, c), op, screen, seen, stored)
  <2>1. w \in {<<>>, <<u>>} /\ op # c
    BY <1>1, <1>3, LineShapes
  <2>2. LineOf(u, c, Append(w, c), op)
    <3>1. Append(<<>>, c) = <<c>> /\ Append(<<u>>, c) = <<u, c>> /\ <<u>> # <<>> /\ <<u>> # <<c>>
      BY Queues, InQueues DEF Pair
    <3> QED
      BY <1>1, <2>1, <3>1, Queues DEF LineOf, Pair
  <2> QED
    BY <1>3, <2>2 DEF LineFits
<1> QED
  BY <1>2, <1>3

-----------------------------------------------------------------------------
(* Who is in the line, and who is not.                                     *)

LEMMA Pairs == Pair("register", "checkRegistration") /\ Pair("enroll", "checkEnrollment")
  BY DEF Pair

LEMMA NoOperation == ASSUME FlowInv PROVE flow.op = "none" <=> flow = NoFlow
  BY DEF FlowInv, NoFlow, RegisterFlow, CheckRegistrationFlow, EnrollFlow, SubmittedFlow

LEMMA AnEmptyLine == ASSUME waiting = <<>>, flow.op = "none" PROVE Registering /\ Enrolling
  BY Pairs, LineEmpty DEF Registering, Enrolling

LEMMA RegisteringLine ==
  ASSUME Registering, waiting # <<>> \/ flow.op # "none"
  PROVE  /\ \/ flow.op = "none" /\ StatusIn(registration) = "confirmed"
            \/ shown.status = "unregistered" /\ shown.registration # "confirmed"
         /\ flow.op \in {"none", "register", "checkRegistration"}
         /\ flow.op = "none" => Head(waiting) \in {"register", "checkRegistration"}
<1>1. /\ \/ flow.op = "none" /\ StatusIn(registration) = "confirmed"
         \/ shown.status = "unregistered" /\ shown.registration # "confirmed"
      /\ LineOf("register", "checkRegistration", waiting, flow.op)
  BY DEF Registering, LineFits
<1>2. flow.op \in {"none", "register", "checkRegistration"}
  BY <1>1, Pairs, LineShapes
<1>3. flow.op = "none" => Head(waiting) \in {"register", "checkRegistration"}
  <2> SUFFICES ASSUME flow.op = "none" PROVE Head(waiting) \in {"register", "checkRegistration"}
    OBVIOUS
  <2> QED
    BY <1>1, Pairs, LineShapes
<1> QED
  BY <1>1, <1>2, <1>3

LEMMA EnrollingLine ==
  ASSUME Enrolling, waiting # <<>> \/ flow.op # "none"
  PROVE  /\ \/ flow.op = "none" /\ StatusIn(enrollment) = "confirmed"
            \/ shown.status = "enrolling" /\ shown.enrollment # "confirmed"
         /\ flow.op \in {"none", "enroll", "checkEnrollment"}
         /\ flow.op = "none" => Head(waiting) \in {"enroll", "checkEnrollment"}
<1>1. /\ \/ flow.op = "none" /\ StatusIn(enrollment) = "confirmed"
         \/ shown.status = "enrolling" /\ shown.enrollment # "confirmed"
      /\ LineOf("enroll", "checkEnrollment", waiting, flow.op)
  BY DEF Enrolling, LineFits
<1>2. flow.op \in {"none", "enroll", "checkEnrollment"}
  BY <1>1, Pairs, LineShapes
<1>3. flow.op = "none" => Head(waiting) \in {"enroll", "checkEnrollment"}
  <2> SUFFICES ASSUME flow.op = "none" PROVE Head(waiting) \in {"enroll", "checkEnrollment"}
    OBVIOUS
  <2> QED
    BY <1>1, Pairs, LineShapes
<1> QED
  BY <1>1, <1>2, <1>3

\* What is shown or stored tells whose line it is.
LEMMA Sides ==
  ASSUME PhoneInv
  PROVE  /\ shown.status = "unregistered" => Registering /\ enrollment = Nothing
         /\ shown.status = "enrolling" => Enrolling /\ registration = Nothing
         /\ identity = Nothing => waiting = <<>> /\ flow = NoFlow
         /\ flow.op \in {"register", "checkRegistration"} => Registering
         /\ flow.op \in {"enroll", "checkEnrollment"} => Enrolling
         /\ flow.op = "none" /\ waiting # <<>> /\ Head(waiting) \in {"register", "checkRegistration"} => Registering
         /\ flow.op = "none" /\ waiting # <<>> /\ Head(waiting) \in {"enroll", "checkEnrollment"} => Enrolling
<1>1. /\ shown.status = "unregistered" => enrollment = Nothing
      /\ shown.status = "enrolling" => registration = Nothing
      /\ identity = Nothing => /\ StatusIn(registration) = "none" /\ StatusIn(enrollment) = "none"
                               /\ shown.status \notin {"unregistered", "enrolling"}
  BY DEF PhoneInv, ShownInv, StoreInv, StatusIn
<1>2. flow.op = "none" <=> flow = NoFlow
  BY NoOperation DEF PhoneInv
<1>3. CASE waiting = <<>> /\ flow.op = "none"
  BY <1>1, <1>2, <1>3, AnEmptyLine
<1>4. CASE (waiting # <<>> \/ flow.op # "none") /\ Registering
  <2>1. shown.status # "enrolling"
    BY <1>1, <1>4, RegisteringLine DEF StatusIn
  <2>2. identity # Nothing
    BY <1>1, <1>4, RegisteringLine
  <2>3. flow.op \in {"none", "register", "checkRegistration"}
    BY <1>4, RegisteringLine
  <2>4. flow.op = "none" => Head(waiting) \in {"register", "checkRegistration"}
    BY <1>4, RegisteringLine
  <2> QED
    BY <1>1, <1>4, <2>1, <2>2, <2>3, <2>4
<1>5. CASE (waiting # <<>> \/ flow.op # "none") /\ Enrolling
  <2>1. shown.status # "unregistered"
    BY <1>1, <1>5, EnrollingLine DEF StatusIn
  <2>2. identity # Nothing
    BY <1>1, <1>5, EnrollingLine
  <2>3. flow.op \in {"none", "enroll", "checkEnrollment"}
    BY <1>5, EnrollingLine
  <2>4. flow.op = "none" => Head(waiting) \in {"enroll", "checkEnrollment"}
    BY <1>5, EnrollingLine
  <2> QED
    BY <1>1, <1>5, <2>1, <2>2, <2>3, <2>4
<1> QED
  BY <1>3, <1>4, <1>5 DEF PhoneInv, LineInv

\* Who has the permit, or is next, is who the screen and the records say.
LEMMA HasTurn ==
  ASSUME PhoneInv, flow # NoFlow \/ waiting # <<>>
  PROVE  /\ resetting = "none" /\ identity # Nothing
         /\ Registering \/ Enrolling
         /\ flow # NoFlow => flow.op # "none"
  BY Sides, NoOperation DEF PhoneInv, ResetInv, LineInv

-----------------------------------------------------------------------------
(* How an operation ends, and what it leaves behind.                       *)

RegisterOps == {"register", "checkRegistration"}
EnrollOps   == {"enroll", "checkEnrollment"}

\* One of these operations has the permit or takes it.
TurnOf(ops) == \/ flow # NoFlow /\ flow.op \in ops /\ waiting' = waiting
               \/ flow = NoFlow /\ waiting # <<>> /\ Head(waiting) \in ops /\ waiting' = Tail(waiting)

\* What no operation touches.
Steady == /\ UNCHANGED <<identity, markVars, resetting, install, made, saved, members>>
          /\ drawn' \in Nat

LEMMA ErrorKeeps ==
  ASSUME PhoneInv, TurnOf(RegisterOps \cup EnrollOps), flow' = NoFlow, Steady,
         UNCHANGED <<registration, enrollment, shown, loading>>
  PROVE  PhoneInv'
<1>1. PhoneTypes' /\ MarksInv' /\ StoreInv'
  BY DEF PhoneInv, PhoneTypes, MarksInv, StoreInv, Steady, markVars, Reinstalled, OfIdentity, Confirmed, StatusIn
<1>2. flow.op = "none" <=> flow = NoFlow
  BY NoOperation DEF PhoneInv
<1>3. flow'.op = "none"
  BY DEF NoFlow
<1>4. LineInv'
  <2>1. CASE flow # NoFlow
    <3>1. waiting' = waiting /\ flow.op # "none"
      BY <1>2, <2>1 DEF TurnOf
    <3>2. Registering => Registering'
      BY <1>3, <3>1, Pairs, LineEnds DEF Registering, StatusIn
    <3>3. Enrolling => Enrolling'
      BY <1>3, <3>1, Pairs, LineEnds DEF Enrolling, StatusIn
    <3> QED
      BY <3>2, <3>3 DEF PhoneInv, LineInv
  <2>2. CASE flow = NoFlow
    <3>1. waiting # <<>> /\ waiting' = Tail(waiting) /\ flow.op = "none"
      BY <1>2, <2>2 DEF TurnOf
    <3>2. Registering => Registering'
      <4>1. "confirmed" \notin OpenRecords
        BY DEF OpenRecords
      <4>2. Registering => LineFits("register", "checkRegistration", "unregistered", OpenRecords,
                         waiting, "none", shown.status, shown.registration, StatusIn(registration))
        BY <3>1 DEF Registering
      <4>3. Registering => LineFits("register", "checkRegistration", "unregistered", OpenRecords,
                         Tail(waiting), "none", shown.status, shown.registration, StatusIn(registration))
        BY <3>1, <4>1, <4>2, Pairs, LineLeaves
      <4> QED
        BY <1>3, <3>1, <4>3 DEF Registering, StatusIn
    <3>3. Enrolling => Enrolling'
      <4>1. "confirmed" \notin SentRecords
        BY DEF SentRecords
      <4>2. Enrolling => LineFits("enroll", "checkEnrollment", "enrolling", SentRecords,
                         waiting, "none", shown.status, shown.enrollment, StatusIn(enrollment))
        BY <3>1 DEF Enrolling
      <4>3. Enrolling => LineFits("enroll", "checkEnrollment", "enrolling", SentRecords,
                         Tail(waiting), "none", shown.status, shown.enrollment, StatusIn(enrollment))
        BY <3>1, <4>1, <4>2, Pairs, LineLeaves
      <4> QED
        BY <1>3, <3>1, <4>3 DEF Enrolling, StatusIn
    <3> QED
      BY <3>2, <3>3 DEF PhoneInv, LineInv
  <2> QED
    BY <2>1, <2>2
<1>5. ShownInv'
  BY DEF PhoneInv, ShownInv, Steady, Confirmed, StatusIn
<1>6. ResetInv'
  BY HasTurn DEF PhoneInv, ResetInv, Steady, TurnOf
<1> QED
  BY <1>1, <1>4, <1>5, <1>6 DEF PhoneInv, FlowInv

\* A result that is what is stored.
LEMMA ReturnKeepsRegistration ==
  ASSUME PhoneInv, TurnOf(RegisterOps), flow' = NoFlow, Steady, registration # Nothing,
         Accept("registration", registration.status), UNCHANGED <<registration, enrollment>>
  PROVE  PhoneInv'
<1>1. Registering /\ resetting = "none" /\ identity # Nothing /\ (flow # NoFlow => flow.op # "none")
  BY Sides, HasTurn, NoOperation DEF TurnOf, RegisterOps, PhoneInv
<1>2. flow.op = "none" <=> flow = NoFlow
  BY NoOperation DEF PhoneInv
<1>3. flow'.op = "none"
  BY DEF NoFlow
<1>4. shown.status # "enrolling"
  BY DEF PhoneInv, ShownInv
<1>5. shown' = IF shown.status = "unregistered" THEN [shown EXCEPT !.registration = registration.status] ELSE shown
  BY <1>4 DEF Accept
<1>6. registration.status \in RegistrationStatuses
  BY DEF PhoneInv, PhoneTypes, Records
<1>7. /\ shown'.status = shown.status /\ shown'.error = shown.error /\ shown'.enrollment = shown.enrollment
      /\ shown.status = "unregistered" => shown'.registration = registration.status
      /\ shown.status # "unregistered" => shown' = shown
      /\ shown' \in [status : Statuses, registration : RegistrationStatuses \cup {"none"},
                     enrollment : EnrollmentStatuses \cup {"none"}, error : Errors]
  BY <1>5, <1>6 DEF PhoneInv, PhoneTypes
<1>8. /\ loading' = loading \/ (loading'.step = "identity" /\ registration.status = "confirmed")
      /\ loading' \in [step : {"none", "identity", "records"}, backedUp : BOOLEAN]
  BY DEF Accept, PhoneInv, PhoneTypes, NotLoading
<1>9. PhoneTypes' /\ MarksInv' /\ StoreInv'
  <2>1. PhoneTypes'
    BY <1>7, <1>8 DEF PhoneInv, PhoneTypes, Steady, markVars
  <2> QED
    BY <2>1 DEF PhoneInv, MarksInv, StoreInv, Steady, markVars, Reinstalled, OfIdentity, Confirmed, StatusIn
<1>10. Registering'
  <2>1. StatusIn(registration) = registration.status /\ "confirmed" \notin OpenRecords
    BY DEF StatusIn, OpenRecords
  <2>2. StatusIn(registration)' = StatusIn(registration)
    BY DEF StatusIn
  <2>3. CASE flow # NoFlow
    <3>1. waiting' = waiting /\ flow.op # "none"
      BY <1>2, <2>3 DEF TurnOf
    <3>2. shown.status = "unregistered"
      BY <1>1, <3>1, RegisteringLine
    <3>3. LineFits("register", "checkRegistration", "unregistered", OpenRecords,
                   waiting, "none", shown.status, registration.status, registration.status)
      BY <1>1, <3>1, Pairs, LineEnds DEF Registering
    <3> QED
      BY <1>3, <1>7, <2>1, <2>2, <3>1, <3>2, <3>3 DEF Registering
  <2>4. CASE flow = NoFlow
    <3>1. waiting # <<>> /\ waiting' = Tail(waiting) /\ flow.op = "none"
      BY <1>2, <2>4 DEF TurnOf
    <3>2. LineFits("register", "checkRegistration", "unregistered", OpenRecords,
                   waiting, "none", shown.status, shown.registration, StatusIn(registration))
      BY <1>1, <3>1 DEF Registering
    <3>3. CASE shown.status = "unregistered"
      <4>1. LineFits("register", "checkRegistration", "unregistered", OpenRecords,
                     waiting, "none", "unregistered", shown.registration, StatusIn(registration))
        BY <3>2, <3>3
      <4>2. LineFits("register", "checkRegistration", "unregistered", OpenRecords,
                     Tail(waiting), "none", "unregistered", StatusIn(registration), StatusIn(registration))
        BY <2>1, <3>1, <4>1, Pairs, LineReturns
      <4> QED
        BY <1>3, <1>7, <2>1, <2>2, <3>1, <3>3, <4>2 DEF Registering
    <3>4. CASE shown.status # "unregistered"
      <4>1. LineFits("register", "checkRegistration", "unregistered", OpenRecords,
                     Tail(waiting), "none", shown.status, shown.registration, StatusIn(registration))
        BY <2>1, <3>1, <3>2, Pairs, LineLeaves
      <4> QED
        BY <1>3, <1>7, <2>2, <3>1, <3>4, <4>1 DEF Registering
    <3> QED
      BY <3>3, <3>4
  <2> QED
    BY <2>3, <2>4
<1>11. ShownInv'
  <2>1. /\ identity' = identity /\ registration' = registration /\ enrollment' = enrollment
        /\ Confirmed' = Confirmed
    BY DEF Steady, Confirmed, StatusIn
  <2>2. shown'.status = "unregistered" =>
          /\ identity' # Nothing /\ ~identity'.backedUp
          /\ shown'.registration = "confirmed" <=> registration.status = "confirmed"
          /\ shown'.registration # "confirmed" => loading'.step = "none"
    BY <1>7, <1>8, <2>1 DEF PhoneInv, ShownInv, StatusIn
  <2>3. StatusIn(registration)' = registration.status
    BY DEF StatusIn
  <2>4. loading'.step = "records" => identity' # Nothing /\ (loading'.backedUp = identity'.backedUp \/ Confirmed')
    BY <1>1, <1>8, <2>1 DEF PhoneInv, ShownInv
  <2> QED
    BY <1>4, <1>7, <2>1, <2>2, <2>3, <2>4 DEF PhoneInv, ShownInv
<1>12. ResetInv'
  BY <1>1 DEF PhoneInv, ResetInv, Steady
<1> QED
  BY <1>9, <1>10, <1>11, <1>12 DEF PhoneInv, FlowInv, LineInv

LEMMA ReturnKeepsEnrollment ==
  ASSUME PhoneInv, TurnOf(EnrollOps), flow' = NoFlow, Steady, enrollment # Nothing,
         Accept("enrollment", enrollment.status), UNCHANGED <<enrollment, registration>>
  PROVE  PhoneInv'
<1>1. Enrolling /\ resetting = "none" /\ identity # Nothing /\ (flow # NoFlow => flow.op # "none")
  BY Sides, HasTurn, NoOperation DEF TurnOf, EnrollOps, PhoneInv
<1>2. flow.op = "none" <=> flow = NoFlow
  BY NoOperation DEF PhoneInv
<1>3. flow'.op = "none"
  BY DEF NoFlow
<1>4. shown.status # "unregistered"
  BY Sides
<1>5. shown' = IF shown.status = "enrolling" THEN [shown EXCEPT !.enrollment = enrollment.status] ELSE shown
  BY <1>4 DEF Accept
<1>6. enrollment.status \in EnrollmentStatuses
  BY DEF PhoneInv, PhoneTypes, Records
<1>7. /\ shown'.status = shown.status /\ shown'.error = shown.error /\ shown'.registration = shown.registration
      /\ shown.status = "enrolling" => shown'.enrollment = enrollment.status
      /\ shown.status # "enrolling" => shown' = shown
      /\ shown' \in [status : Statuses, registration : RegistrationStatuses \cup {"none"},
                     enrollment : EnrollmentStatuses \cup {"none"}, error : Errors]
  BY <1>5, <1>6 DEF PhoneInv, PhoneTypes
<1>8. /\ loading' = loading \/ (loading'.step = "identity" /\ enrollment.status = "confirmed")
      /\ loading' \in [step : {"none", "identity", "records"}, backedUp : BOOLEAN]
  BY DEF Accept, PhoneInv, PhoneTypes, NotLoading
<1>9. PhoneTypes' /\ MarksInv' /\ StoreInv'
  <2>1. PhoneTypes'
    BY <1>7, <1>8 DEF PhoneInv, PhoneTypes, Steady, markVars
  <2> QED
    BY <2>1 DEF PhoneInv, MarksInv, StoreInv, Steady, markVars, Reinstalled, OfIdentity, Confirmed, StatusIn
<1>10. Enrolling'
  <2>1. StatusIn(enrollment) = enrollment.status /\ "confirmed" \notin SentRecords
    BY DEF StatusIn, SentRecords
  <2>2. StatusIn(enrollment)' = StatusIn(enrollment)
    BY DEF StatusIn
  <2>3. CASE flow # NoFlow
    <3>1. waiting' = waiting /\ flow.op # "none"
      BY <1>2, <2>3 DEF TurnOf
    <3>2. shown.status = "enrolling"
      BY <1>1, <3>1, EnrollingLine
    <3>3. LineFits("enroll", "checkEnrollment", "enrolling", SentRecords,
                   waiting, "none", shown.status, enrollment.status, enrollment.status)
      BY <1>1, <3>1, Pairs, LineEnds DEF Enrolling
    <3> QED
      BY <1>3, <1>7, <2>1, <2>2, <3>1, <3>2, <3>3 DEF Enrolling
  <2>4. CASE flow = NoFlow
    <3>1. waiting # <<>> /\ waiting' = Tail(waiting) /\ flow.op = "none"
      BY <1>2, <2>4 DEF TurnOf
    <3>2. LineFits("enroll", "checkEnrollment", "enrolling", SentRecords,
                   waiting, "none", shown.status, shown.enrollment, StatusIn(enrollment))
      BY <1>1, <3>1 DEF Enrolling
    <3>3. CASE shown.status = "enrolling"
      <4>1. LineFits("enroll", "checkEnrollment", "enrolling", SentRecords,
                     waiting, "none", "enrolling", shown.enrollment, StatusIn(enrollment))
        BY <3>2, <3>3
      <4>2. LineFits("enroll", "checkEnrollment", "enrolling", SentRecords,
                     Tail(waiting), "none", "enrolling", StatusIn(enrollment), StatusIn(enrollment))
        BY <2>1, <3>1, <4>1, Pairs, LineReturns
      <4> QED
        BY <1>3, <1>7, <2>1, <2>2, <3>1, <3>3, <4>2 DEF Enrolling
    <3>4. CASE shown.status # "enrolling"
      <4>1. LineFits("enroll", "checkEnrollment", "enrolling", SentRecords,
                     Tail(waiting), "none", shown.status, shown.enrollment, StatusIn(enrollment))
        BY <2>1, <3>1, <3>2, Pairs, LineLeaves
      <4> QED
        BY <1>3, <1>7, <2>2, <3>1, <3>4, <4>1 DEF Enrolling
    <3> QED
      BY <3>3, <3>4
  <2> QED
    BY <2>3, <2>4
<1>11. ShownInv'
  <2>1. /\ identity' = identity /\ enrollment' = enrollment /\ registration' = registration
        /\ Confirmed' = Confirmed
    BY DEF Steady, Confirmed, StatusIn
  <2>2. shown'.status = "enrolling" =>
          /\ identity' # Nothing /\ identity'.backedUp /\ registration' = Nothing
          /\ shown'.enrollment = "confirmed" <=> enrollment.status = "confirmed"
          /\ shown'.enrollment # "confirmed" => loading'.step = "none"
    BY <1>7, <1>8, <2>1 DEF PhoneInv, ShownInv, StatusIn
  <2>3. StatusIn(enrollment)' = enrollment.status
    BY DEF StatusIn
  <2>4. loading'.step = "records" => identity' # Nothing /\ (loading'.backedUp = identity'.backedUp \/ Confirmed')
    BY <1>1, <1>8, <2>1 DEF PhoneInv, ShownInv
  <2> QED
    BY <1>4, <1>7, <2>1, <2>2, <2>3, <2>4 DEF PhoneInv, ShownInv
<1>12. ResetInv'
  BY <1>1 DEF PhoneInv, ResetInv, Steady
<1> QED
  BY <1>9, <1>10, <1>11, <1>12 DEF PhoneInv, FlowInv, LineInv


\* A result that is stored and shown.
LEMMA SaveKeepsRegistration ==
  ASSUME PhoneInv, flow # NoFlow, flow.op \in RegisterOps, waiting' = waiting, Steady, NEW status \in RegistrationStatuses,
         status = "confirmed" => identity.key \in members[identity.owner],
         SaveRegistration(flow.intent, status), enrollment' = enrollment
  PROVE  PhoneInv'
<1>1. /\ Registering /\ resetting = "none" /\ identity # Nothing /\ flow.op # "none"
      /\ shown.status = "unregistered" /\ shown.registration # "confirmed"
  <2>1. Registering /\ resetting = "none" /\ identity # Nothing /\ flow.op # "none"
    BY Sides, HasTurn DEF RegisterOps
  <2> QED
    BY <2>1, RegisteringLine
<1>2. /\ enrollment = Nothing /\ ~identity.backedUp /\ loading.step = "none"
      /\ flow.intent \in Intents /\ OfIdentity(flow.intent)
  BY <1>1, Sides DEF PhoneInv, ShownInv, FlowInv
<1>3. registration' = [intent |-> flow.intent, status |-> status] /\ registration' \in Records(RegistrationStatuses)
  BY <1>2 DEF SaveRegistration, Records
<1>4. StatusIn(registration)' = status /\ registration' # Nothing
  BY <1>3, NothingAssumption DEF StatusIn, Records
<1>5. shown' = [shown EXCEPT !.registration = status]
  BY <1>1 DEF SaveRegistration, Accept
<1>6. /\ shown'.status = shown.status /\ shown'.error = shown.error /\ shown'.enrollment = shown.enrollment
      /\ shown'.registration = status
      /\ shown' \in [status : Statuses, registration : RegistrationStatuses \cup {"none"},
                     enrollment : EnrollmentStatuses \cup {"none"}, error : Errors]
  BY <1>5 DEF PhoneInv, PhoneTypes
<1>7. /\ loading'.step \in {"none", "identity"} /\ (status # "confirmed" => loading'.step = "none")
      /\ loading' \in [step : {"none", "identity", "records"}, backedUp : BOOLEAN]
  BY <1>1, <1>2 DEF SaveRegistration, Accept, PhoneInv, PhoneTypes, NotLoading
<1>8. PhoneTypes' /\ MarksInv'
  BY <1>3, <1>6, <1>7 DEF PhoneInv, PhoneTypes, MarksInv, Steady, markVars, Reinstalled
<1>9. StoreInv'
  BY <1>1, <1>2, <1>3, <1>4 DEF PhoneInv, StoreInv, Steady, OfIdentity, Confirmed, StatusIn
<1>10. FlowInv' /\ flow'.op = "none"
  BY DEF SaveRegistration, Done, FlowInv, NoFlow
<1>11. Registering'
  <2>1. LineFits("register", "checkRegistration", "unregistered", OpenRecords,
                 waiting, "none", shown.status, status, status)
    BY <1>1, Pairs, LineEnds DEF Registering
  <2> QED
    BY <1>4, <1>6, <1>10, <2>1 DEF Registering
<1>12. ShownInv'
  BY <1>1, <1>2, <1>4, <1>6, <1>7 DEF PhoneInv, ShownInv, Steady
<1>13. ResetInv'
  BY <1>1 DEF PhoneInv, ResetInv, Steady
<1> QED
  BY <1>8, <1>9, <1>10, <1>11, <1>12, <1>13 DEF PhoneInv, LineInv

LEMMA SaveKeepsEnrollment ==
  ASSUME PhoneInv, flow # NoFlow, flow.op \in EnrollOps, waiting' = waiting, Steady, NEW status \in EnrollmentStatuses,
         NEW i \in Intents, OfIdentity(i),
         status = "confirmed" => identity.key \in members[identity.owner],
         SaveEnrollment(i, status), registration' = registration
  PROVE  PhoneInv'
<1>1. /\ Enrolling /\ resetting = "none" /\ identity # Nothing /\ flow.op # "none"
      /\ shown.status = "enrolling" /\ shown.enrollment # "confirmed"
  <2>1. Enrolling /\ resetting = "none" /\ identity # Nothing /\ flow.op # "none"
    BY Sides, HasTurn DEF EnrollOps
  <2> QED
    BY <2>1, EnrollingLine
<1>2. registration = Nothing /\ identity.backedUp /\ loading.step = "none"
  BY <1>1, Sides DEF PhoneInv, ShownInv
<1>3. enrollment' = [intent |-> i, status |-> status] /\ enrollment' \in Records(EnrollmentStatuses)
  BY DEF SaveEnrollment, Records
<1>4. StatusIn(enrollment)' = status /\ enrollment' # Nothing
  BY <1>3, NothingAssumption DEF StatusIn, Records
<1>5. shown' = [shown EXCEPT !.enrollment = status]
  BY <1>1 DEF SaveEnrollment, Accept
<1>6. /\ shown'.status = shown.status /\ shown'.error = shown.error /\ shown'.registration = shown.registration
      /\ shown'.enrollment = status
      /\ shown' \in [status : Statuses, registration : RegistrationStatuses \cup {"none"},
                     enrollment : EnrollmentStatuses \cup {"none"}, error : Errors]
  BY <1>5 DEF PhoneInv, PhoneTypes
<1>7. /\ loading'.step \in {"none", "identity"} /\ (status # "confirmed" => loading'.step = "none")
      /\ loading' \in [step : {"none", "identity", "records"}, backedUp : BOOLEAN]
  BY <1>1, <1>2 DEF SaveEnrollment, Accept, PhoneInv, PhoneTypes, NotLoading
<1>8. PhoneTypes' /\ MarksInv'
  BY <1>3, <1>6, <1>7 DEF PhoneInv, PhoneTypes, MarksInv, Steady, markVars, Reinstalled
<1>9. StoreInv'
  BY <1>1, <1>2, <1>3, <1>4 DEF PhoneInv, StoreInv, Steady, OfIdentity, Confirmed, StatusIn
<1>10. FlowInv' /\ flow'.op = "none"
  BY DEF SaveEnrollment, Done, FlowInv, NoFlow
<1>11. Enrolling'
  <2>1. LineFits("enroll", "checkEnrollment", "enrolling", SentRecords,
                 waiting, "none", shown.status, status, status)
    BY <1>1, Pairs, LineEnds DEF Enrolling
  <2> QED
    BY <1>4, <1>6, <1>10, <2>1 DEF Enrolling
<1>12. ShownInv'
  BY <1>1, <1>2, <1>4, <1>6, <1>7 DEF PhoneInv, ShownInv, Steady
<1>13. ResetInv'
  BY <1>1 DEF PhoneInv, ResetInv, Steady
<1> QED
  BY <1>8, <1>9, <1>10, <1>11, <1>12, <1>13 DEF PhoneInv, LineInv

-----------------------------------------------------------------------------
(* How an operation takes the permit and goes on.                          *)

LEMMA GoesOn ==
  ASSUME PhoneInv, flow # NoFlow, waiting' = waiting, flow' # NoFlow, flow'.op = flow.op, FlowInv', Steady,
         UNCHANGED <<registration, enrollment, shown, loading>>
  PROVE  PhoneInv'
<1>1. PhoneTypes' /\ MarksInv' /\ StoreInv'
  BY DEF PhoneInv, PhoneTypes, MarksInv, StoreInv, Steady, markVars, Reinstalled, OfIdentity, Confirmed, StatusIn
<1>2. LineInv'
  BY DEF PhoneInv, LineInv, Registering, Enrolling, StatusIn
<1>3. ShownInv'
  BY DEF PhoneInv, ShownInv, Steady, Confirmed, StatusIn
<1>4. ResetInv'
  BY DEF PhoneInv, ResetInv, Steady
<1> QED
  BY <1>1, <1>2, <1>3, <1>4 DEF PhoneInv

\* A registration begins: it finds no record, a failed or a pending one, and leaves a pending one.
LEMMA RegisterTakes ==
  ASSUME PhoneInv, Permit("register"), StatusIn(registration) \notin {"submitted", "confirmed"},
         flow' # NoFlow, flow'.op = "register", FlowInv', Steady,
         registration' \in Records(RegistrationStatuses), OfIdentity(registration'.intent), registration'.status = "pending",
         UNCHANGED <<enrollment, shown, loading>>
  PROVE  PhoneInv'
<1>1. flow.op = "none" /\ waiting # <<>> /\ Head(waiting) = "register" /\ waiting' = Tail(waiting)
  BY DEF Permit, NoFlow
<1>2. Registering /\ resetting = "none" /\ identity # Nothing /\ shown.status = "unregistered" /\ shown.registration # "confirmed"
  <2>1. Registering /\ resetting = "none" /\ identity # Nothing
    BY <1>1, Sides, HasTurn
  <2> QED
    BY <1>1, <2>1, RegisteringLine
<1>3. enrollment = Nothing /\ ~identity.backedUp
  BY <1>2, Sides DEF PhoneInv, ShownInv
<1>4. StatusIn(registration)' = "pending" /\ registration' # Nothing
  BY NothingAssumption DEF StatusIn, Records
<1>5. PhoneTypes' /\ MarksInv'
  BY DEF PhoneInv, PhoneTypes, MarksInv, Steady, markVars, Reinstalled
<1>6. StoreInv'
  BY <1>2, <1>3, <1>4 DEF PhoneInv, StoreInv, Steady, OfIdentity, Confirmed, StatusIn
<1>7. Registering'
  <2>1. LineFits("register", "checkRegistration", "unregistered", OpenRecords,
                 waiting, "none", shown.status, shown.registration, StatusIn(registration))
    BY <1>1, <1>2 DEF Registering
  <2>2. "confirmed" \notin OpenRecords /\ StatusIn(registration) # "confirmed" /\ "register" # "checkRegistration"
    BY DEF OpenRecords
  <2>3. LineFits("register", "checkRegistration", "unregistered", OpenRecords,
                 Tail(waiting), "register", shown.status, shown.registration, "pending")
    BY <1>1, <2>1, <2>2, Pairs, LineTaken
  <2> QED
    BY <1>1, <1>4, <2>3 DEF Registering
<1>8. ShownInv'
  BY <1>2, <1>3, <1>4 DEF PhoneInv, ShownInv, Steady, StatusIn
<1>9. ResetInv'
  BY <1>2 DEF PhoneInv, ResetInv, Steady
<1> QED
  BY <1>5, <1>6, <1>7, <1>8, <1>9 DEF PhoneInv, LineInv

\* Another operation begins and finds what it has to look after.
LEMMA OtherTakes ==
  ASSUME PhoneInv, NEW op, Permit(op),
         \/ op = "checkRegistration" /\ StatusIn(registration) \in OpenRecords
         \/ op = "enroll" /\ StatusIn(enrollment) # "confirmed"
         \/ op = "checkEnrollment" /\ StatusIn(enrollment) \in SentRecords,
         flow' # NoFlow, flow'.op = op, FlowInv', Steady,
         UNCHANGED <<registration, enrollment, shown, loading>>
  PROVE  PhoneInv'
<1>1. flow.op = "none" /\ waiting # <<>> /\ op = Head(waiting) /\ waiting' = Tail(waiting)
  BY DEF Permit, NoFlow
<1>2. resetting = "none"
  BY <1>1, HasTurn
<1>3. PhoneTypes' /\ MarksInv' /\ StoreInv'
  BY DEF PhoneInv, PhoneTypes, MarksInv, StoreInv, Steady, markVars, Reinstalled, OfIdentity, Confirmed, StatusIn
<1>4. LineInv'
  <2>1. "confirmed" \notin OpenRecords /\ "confirmed" \notin SentRecords
    BY DEF OpenRecords, SentRecords
  <2>2. CASE op = "checkRegistration"
    <3>1. StatusIn(registration) \in OpenRecords /\ StatusIn(registration) # "confirmed"
      BY <2>1, <2>2
    <3>2. Registering
      BY <1>1, <2>2, Sides
    <3>3. LineFits("register", "checkRegistration", "unregistered", OpenRecords,
                   waiting, "none", shown.status, shown.registration, StatusIn(registration))
      BY <1>1, <3>2 DEF Registering
    <3>4. LineFits("register", "checkRegistration", "unregistered", OpenRecords,
                   Tail(waiting), op, shown.status, shown.registration, StatusIn(registration))
      BY <1>1, <2>1, <3>1, <3>3, Pairs, LineTaken
    <3> QED
      BY <1>1, <3>4 DEF LineInv, Registering, StatusIn
  <2>3. CASE op \in {"enroll", "checkEnrollment"}
    <3>1. StatusIn(enrollment) # "confirmed" /\ (op = "checkEnrollment" => StatusIn(enrollment) \in SentRecords)
      BY <2>1, <2>3
    <3>2. Enrolling
      BY <1>1, <2>3, Sides
    <3>3. LineFits("enroll", "checkEnrollment", "enrolling", SentRecords,
                   waiting, "none", shown.status, shown.enrollment, StatusIn(enrollment))
      BY <1>1, <3>2 DEF Enrolling
    <3>4. LineFits("enroll", "checkEnrollment", "enrolling", SentRecords,
                   Tail(waiting), op, shown.status, shown.enrollment, StatusIn(enrollment))
      BY <1>1, <2>1, <3>1, <3>3, Pairs, LineTaken
    <3> QED
      BY <1>1, <3>4 DEF LineInv, Enrolling, StatusIn
  <2> QED
    BY <2>2, <2>3
<1>5. ShownInv'
  BY DEF PhoneInv, ShownInv, Steady, Confirmed, StatusIn
<1>6. ResetInv'
  BY <1>2 DEF PhoneInv, ResetInv, Steady
<1> QED
  BY <1>3, <1>4, <1>5, <1>6 DEF PhoneInv

-----------------------------------------------------------------------------
(* A registration, step by step.                                           *)

LEMMA InFlight ==
  ASSUME PhoneInv, flow # NoFlow
  PROVE  /\ identity # Nothing /\ identity \in Identities /\ flow.intent \in Intents /\ OfIdentity(flow.intent)
         /\ flow.op = "register" => RegisterFlow
         /\ flow.op = "checkRegistration" => CheckRegistrationFlow
         /\ flow.op = "enroll" => EnrollFlow \/ SubmittedFlow
         /\ flow.op = "checkEnrollment" => SubmittedFlow
         /\ flow.op \in RegisterOps \cup EnrollOps
  BY DEF PhoneInv, FlowInv, PhoneTypes, RegisterFlow, CheckRegistrationFlow, EnrollFlow, SubmittedFlow, RegisterOps, EnrollOps

LEMMA Taking == ASSUME NEW op, NEW ops, op \in ops, Permit(op) PROVE TurnOf(ops)
  BY DEF Permit, TurnOf

LEMMA Holding == ASSUME NEW ops, flow # NoFlow, flow.op \in ops, waiting' = waiting PROVE TurnOf(ops)
  BY DEF TurnOf

\* What a registration signs, or sends again, names the stored identity.
LEMMA RegisterIntentFits ==
  ASSUME ServiceTypes, PhoneInv, Loaded(registration), RegisterIntent.deadline < MaxTime
  PROVE  RegisterIntent \in Intents /\ OfIdentity(RegisterIntent)
<1>1. registration \in Records(RegistrationStatuses) \cup {Nothing} /\ drawn \in Nat
  BY DEF PhoneInv, PhoneTypes
<1>2. CASE OpenRegistration
  BY <1>1, <1>2 DEF OpenRegistration, RegisterIntent, Records, PhoneInv, StoreInv
<1>3. CASE ~OpenRegistration
  <2>1. identity.owner \in Owners /\ identity.key \in Keys
    BY DEF Loaded, PhoneInv, PhoneTypes, Identities
  <2>2. time + Validity \in 0..MaxTime
    BY <1>3, OnboardAssumption DEF RegisterIntent, ServiceTypes
  <2> QED
    BY <1>1, <1>3, <2>1, <2>2 DEF RegisterIntent, Intents, OfIdentity
<1> QED
  BY <1>2, <1>3

LEMMA RegisterBeginKeeps == ASSUME ServiceTypes, PhoneInv, RegisterBegin PROVE PhoneInv'
<1>1. /\ Permit("register") /\ TurnOf(RegisterOps) /\ TurnOf(RegisterOps \cup EnrollOps)
      /\ registration \in Records(RegistrationStatuses) \cup {Nothing} /\ drawn \in Nat
  BY Taking DEF RegisterBegin, RegisterOps, EnrollOps, PhoneInv, PhoneTypes
<1>2. Steady
  BY <1>1 DEF RegisterBegin, Steady, NoPost, serviceVars
<1>3. CASE ~Loaded(registration)
  <2>1. Error
    BY <1>3 DEF RegisterBegin
  <2> QED
    BY <1>1, <1>2, <2>1, ErrorKeeps DEF Error, Done
<1>4. CASE Loaded(registration) /\ StatusIn(registration) \in {"submitted", "confirmed"}
  <2>1. Return("registration", registration.status) /\ registration # Nothing
    BY <1>4 DEF RegisterBegin, StatusIn
  <2> QED
    BY <1>1, <1>2, <2>1, ReturnKeepsRegistration DEF Return, Done
<1>5. CASE /\ Loaded(registration) /\ StatusIn(registration) \notin {"submitted", "confirmed"}
           /\ OpenRegistration /\ time >= registration.intent.deadline
  <2>1. Goto("register", "owner", registration.intent) /\ UNCHANGED <<registration, enrollment, shown, loading>>
    BY <1>5 DEF RegisterBegin
  <2>2. /\ registration \in Records(RegistrationStatuses) /\ registration # Nothing /\ registration.status = "pending"
        /\ registration.intent \in Intents /\ OfIdentity(registration.intent) /\ identity # Nothing
    BY <1>1, <1>5 DEF OpenRegistration, Records, PhoneInv, StoreInv, Loaded
  <2>3. flow' # NoFlow /\ flow'.op = "register" /\ FlowInv'
    BY <1>2, <2>1, <2>2 DEF Goto, NoFlow, FlowInv, RegisterFlow, OfIdentity, Steady
  <2> QED
    BY <1>1, <1>2, <1>5, <2>1, <2>2, <2>3, RegisterTakes
<1>6. CASE /\ Loaded(registration) /\ StatusIn(registration) \notin {"submitted", "confirmed"}
           /\ ~(OpenRegistration /\ time >= registration.intent.deadline)
  <2>1. /\ RegisterIntent.deadline < MaxTime
        /\ registration' = [intent |-> RegisterIntent, status |-> "pending"]
        /\ \E step \in {"sent", "uninvited"} : Goto("register", step, RegisterIntent)
        /\ UNCHANGED <<enrollment, shown, loading>>
    BY <1>6 DEF RegisterBegin
  <2>2. RegisterIntent \in Intents /\ OfIdentity(RegisterIntent)
    BY <1>6, <2>1, RegisterIntentFits
  <2> DEFINE i == RegisterIntent
  <2>3. /\ i \in Intents /\ OfIdentity(i) /\ registration' = [intent |-> i, status |-> "pending"]
        /\ \E step \in {"sent", "uninvited"} : Goto("register", step, i)
    BY <2>1, <2>2
  <2> HIDE DEF i
  <2>4. /\ registration' \in Records(RegistrationStatuses) /\ registration' # Nothing
        /\ registration'.intent = i /\ registration'.status = "pending"
    BY <2>3, NothingAssumption DEF Records, RegistrationStatuses
  <2>5. identity # Nothing
    BY <1>6 DEF Loaded
  <2>6. flow' # NoFlow /\ flow'.op = "register" /\ FlowInv'
    BY <1>2, <2>3, <2>4, <2>5 DEF Goto, NoFlow, FlowInv, RegisterFlow, OfIdentity, Steady
  <2> QED
    BY <1>1, <1>2, <1>6, <2>1, <2>3, <2>4, <2>6, RegisterTakes
<1> QED
  BY <1>3, <1>4, <1>5, <1>6

LEMMA RegisterEndsKeep ==
  ASSUME ServiceTypes, PhoneInv, RegisterUnanswered \/ RegisterUninvited \/ RegisterAnswered PROVE PhoneInv'
<1>1. /\ flow # NoFlow /\ flow.op = "register" /\ flow.step \in {"sent", "uninvited"}
      /\ flow.op \in RegisterOps /\ waiting' = waiting
  BY DEF RegisterUnanswered, RegisterUninvited, RegisterAnswered, At, NoFlow, RegisterOps
<1>2. registration # Nothing /\ registration.status = "pending"
  BY <1>1, InFlight DEF RegisterFlow
<1>3. Steady
  BY DEF RegisterUnanswered, RegisterUninvited, RegisterAnswered, Handle, Rest, historyVars, serviceVars, Steady, PhoneInv, PhoneTypes
<1>4. CASE RegisterUnanswered
  BY <1>1, <1>2, <1>3, <1>4, Holding, ReturnKeepsRegistration DEF RegisterUnanswered, Return, Done
<1>5. CASE RegisterUninvited \/ RegisterAnswered
  <2>1. PICK status \in {"failed", "submitted"} : SaveRegistration(flow.intent, status) /\ enrollment' = enrollment
    BY <1>5 DEF RegisterUninvited, RegisterAnswered
  <2> QED
    BY <1>1, <1>3, <2>1, SaveKeepsRegistration DEF RegistrationStatuses
<1> QED
  BY <1>4, <1>5

LEMMA CheckRegistrationBeginKeeps == ASSUME PhoneInv, CheckRegistrationBegin PROVE PhoneInv'
<1>1. /\ Permit("checkRegistration") /\ TurnOf(RegisterOps) /\ TurnOf(RegisterOps \cup EnrollOps)
      /\ registration \in Records(RegistrationStatuses) \cup {Nothing}
  BY Taking DEF CheckRegistrationBegin, RegisterOps, EnrollOps, PhoneInv, PhoneTypes
<1>2. Steady
  BY DEF CheckRegistrationBegin, Rest, historyVars, serviceVars, Steady, PhoneInv, PhoneTypes
<1>3. CASE registration = Nothing \/ ~Loaded(registration)
  <2>1. Error
    BY <1>3 DEF CheckRegistrationBegin
  <2> QED
    BY <1>1, <1>2, <2>1, ErrorKeeps DEF Error, Done
<1>4. CASE registration # Nothing /\ Loaded(registration) /\ registration.status \in {"submitted", "pending"}
  <2>1. Goto("checkRegistration", "owner", registration.intent) /\ UNCHANGED <<registration, enrollment, shown, loading>>
    BY <1>4 DEF CheckRegistrationBegin
  <2>2. registration.intent \in Intents /\ OfIdentity(registration.intent) /\ identity # Nothing
    BY <1>1, <1>4 DEF Records, PhoneInv, StoreInv, Loaded
  <2>3. flow' # NoFlow /\ flow'.op = "checkRegistration" /\ FlowInv'
    BY <1>2, <1>4, <2>1, <2>2 DEF Goto, NoFlow, FlowInv, CheckRegistrationFlow, OfIdentity, Steady
  <2>4. StatusIn(registration) \in OpenRecords
    BY <1>4 DEF StatusIn, OpenRecords
  <2> QED
    BY <1>1, <1>2, <2>1, <2>3, <2>4, OtherTakes
<1>5. CASE registration # Nothing /\ Loaded(registration) /\ registration.status \notin {"submitted", "pending"}
  <2>1. Return("registration", registration.status)
    BY <1>5 DEF CheckRegistrationBegin
  <2> QED
    BY <1>1, <1>2, <1>5, <2>1, ReturnKeepsRegistration DEF Return, Done
<1> QED
  BY <1>3, <1>4, <1>5

\* The next step of a reconciliation, by whichever operation.
LEMMA Reconciles ==
  ASSUME PhoneInv, flow # NoFlow, flow.op \in RegisterOps, flow.step \in {"owner", "handle", "ask"}, waiting' = waiting, Steady,
         NEW step \in {"owner", "handle", "ask"}, Goto(flow.op, step, flow.intent),
         UNCHANGED <<registration, enrollment, shown, loading>>
  PROVE  PhoneInv'
<1>1. /\ identity # Nothing /\ flow.intent \in Intents /\ OfIdentity(flow.intent)
      /\ RegisterFlow \/ CheckRegistrationFlow
  BY InFlight DEF RegisterOps
<1>2. flow' # NoFlow /\ flow'.op = flow.op
  BY DEF Goto, NoFlow, RegisterOps
<1>3. FlowInv'
  BY <1>1 DEF Goto, FlowInv, RegisterFlow, CheckRegistrationFlow, OfIdentity, Steady
<1> QED
  BY <1>2, <1>3, GoesOn

LEMMA ReconcilingKeeps ==
  ASSUME ServiceTypes, MembersKept, PhoneInv, LookupOwner \/ LookupHandle \/ AskRegistration PROVE PhoneInv'
<1>1. /\ flow.op \in RegisterOps /\ flow.step \in {"owner", "handle", "ask"} /\ waiting' = waiting
  BY DEF LookupOwner, LookupHandle, AskRegistration, Reconciling, RegisterOps
<1>2. flow # NoFlow
  BY <1>1 DEF NoFlow, RegisterOps
<1>3. Steady
  BY DEF LookupOwner, LookupHandle, AskRegistration, Rest, historyVars, serviceVars, Steady, PhoneInv, PhoneTypes
<1>4. /\ identity # Nothing /\ flow.intent \in Intents /\ OfIdentity(flow.intent)
      /\ registration # Nothing /\ registration.status \in {"pending", "submitted"}
  BY <1>1, <1>2, InFlight DEF RegisterOps, RegisterFlow, CheckRegistrationFlow
<1>5. flow.intent.owner \in Owners /\ flow.intent.key \in Keys
  BY <1>4 DEF Intents
<1>6. CASE LookupOwner
  <2>1. CASE accounts[flow.intent.owner].live
    <3>1. PICK status \in {"confirmed", "failed"} :
            /\ SaveRegistration(flow.intent, status)
            /\ status = "confirmed" => flow.intent.key \in accounts[flow.intent.owner].keys
      BY <1>6, <2>1 DEF LookupOwner
    <3>2. enrollment' = enrollment
      BY <1>6, <2>1 DEF LookupOwner
    <3>3. status = "confirmed" => identity.key \in members[identity.owner]
      BY <1>4, <1>5, <3>1 DEF MembersKept, OfIdentity
    <3> QED
      BY <1>1, <1>2, <1>3, <3>1, <3>2, <3>3, SaveKeepsRegistration DEF RegistrationStatuses
  <2>2. CASE ~accounts[flow.intent.owner].live
    BY <1>1, <1>2, <1>3, <1>6, <2>2, Reconciles DEF LookupOwner
  <2> QED
    BY <2>1, <2>2
<1>7. CASE LookupHandle
  <2>1. \/ SaveRegistration(flow.intent, "failed") /\ enrollment' = enrollment
        \/ Return("registration", registration.status)
        \/ Goto(flow.op, "ask", flow.intent) /\ UNCHANGED <<registration, enrollment, shown, loading>>
    BY <1>7 DEF LookupHandle
  <2>2. CASE SaveRegistration(flow.intent, "failed") /\ enrollment' = enrollment
    BY <1>1, <1>2, <1>3, <2>2, SaveKeepsRegistration DEF RegistrationStatuses
  <2>3. CASE Return("registration", registration.status)
    BY <1>1, <1>2, <1>3, <1>4, <2>3, Holding, ReturnKeepsRegistration DEF Return, Done
  <2>4. CASE Goto(flow.op, "ask", flow.intent) /\ UNCHANGED <<registration, enrollment, shown, loading>>
    BY <1>1, <1>2, <1>3, <2>4, Reconciles
  <2> QED
    BY <2>1, <2>2, <2>3, <2>4
<1>8. CASE AskRegistration
  <2>1. PICK status \in {"failed", "confirmed", "submitted"} :
            /\ SaveRegistration(flow.intent, status)
            /\ status = "confirmed" => StatusOf(flow.intent) = "confirmed"
    BY <1>8 DEF AskRegistration, VerdictOn
  <2>2. enrollment' = enrollment
    BY <1>8 DEF AskRegistration
  <2>3. StatusOf(flow.intent) = "confirmed" => flow.intent \in DOMAIN rows /\ rows[flow.intent] = "confirmed"
    BY DEF StatusOf
  <2>4. status = "confirmed" => identity.key \in members[identity.owner]
    BY <1>4, <2>1, <2>3 DEF MembersKept, OfIdentity
  <2> QED
    BY <1>1, <1>2, <1>3, <2>1, <2>2, <2>4, SaveKeepsRegistration DEF RegistrationStatuses
<1> QED
  BY <1>6, <1>7, <1>8

-----------------------------------------------------------------------------
(* An enrollment, step by step.                                            *)

LEMMA EnrollBeginKeeps == ASSUME ServiceTypes, PhoneInv, EnrollBegin PROVE PhoneInv'
<1>1. /\ Permit("enroll") /\ TurnOf(EnrollOps) /\ TurnOf(RegisterOps \cup EnrollOps)
      /\ enrollment \in Records(EnrollmentStatuses) \cup {Nothing}
  BY Taking DEF EnrollBegin, RegisterOps, EnrollOps, PhoneInv, PhoneTypes
<1>2. Steady
  BY DEF EnrollBegin, Rest, historyVars, serviceVars, Steady, PhoneInv, PhoneTypes
<1>3. CASE ~Loaded(enrollment)
  <2>1. Error
    BY <1>3 DEF EnrollBegin
  <2> QED
    BY <1>1, <1>2, <2>1, ErrorKeeps DEF Error, Done
<1>4. CASE Loaded(enrollment) /\ StatusIn(enrollment) \in {"submitted", "confirmed"}
  <2>1. Return("enrollment", enrollment.status) /\ enrollment # Nothing
    BY <1>4 DEF EnrollBegin, StatusIn
  <2> QED
    BY <1>1, <1>2, <2>1, ReturnKeepsEnrollment DEF Return, Done
<1>5. CASE Loaded(enrollment) /\ StatusIn(enrollment) \notin {"submitted", "confirmed"}
  <2> DEFINE i == [kind |-> "add", owner |-> identity.owner, key |-> identity.key, id |-> 0, deadline |-> 0]
  <2>1. Goto("enroll", "account", i) /\ UNCHANGED <<registration, enrollment, shown, loading>>
    BY <1>5 DEF EnrollBegin
  <2>2. identity # Nothing
    BY <1>5 DEF Loaded
  <2>3. i \in Intents /\ OfIdentity(i)
    BY <2>2, OnboardAssumption DEF Intents, OfIdentity, PhoneInv, PhoneTypes, Identities
  <2> HIDE DEF i
  <2>4. flow' = [op |-> "enroll", step |-> "account", intent |-> i]
    BY <2>1 DEF Goto
  <2>5. flow' # NoFlow /\ flow'.op = "enroll" /\ flow'.step = "account" /\ flow'.intent = i
    BY <2>4 DEF NoFlow
  <2>6. FlowInv'
    BY <1>2, <1>5, <2>1, <2>2, <2>3, <2>5 DEF FlowInv, EnrollFlow, OfIdentity, Steady, StatusIn
  <2> QED
    BY <1>1, <1>2, <1>5, <2>1, <2>5, <2>6, OtherTakes
<1> QED
  BY <1>3, <1>4, <1>5

LEMMA EnrollStep ==
  ASSUME PhoneInv, flow # NoFlow, flow.op = "enroll", flow.step \in {"account", "member", "full", "room"}
  PROVE  /\ identity # Nothing /\ flow.intent \in Intents /\ OfIdentity(flow.intent)
         /\ flow.intent.owner \in Owners /\ flow.intent.key \in Keys
         /\ EnrollFlow /\ flow.op \in EnrollOps /\ flow.op \in RegisterOps \cup EnrollOps
  BY InFlight DEF EnrollFlow, SubmittedFlow, Intents, EnrollOps

LEMMA LookupAccountKeeps == ASSUME ServiceTypes, MembersKept, PhoneInv, LookupAccount PROVE PhoneInv'
<1>1. flow.op = "enroll" /\ flow.step = "account" /\ flow # NoFlow /\ waiting' = waiting
  BY DEF LookupAccount, At, NoFlow
<1>2. Steady
  BY DEF LookupAccount, Rest, historyVars, serviceVars, Steady, PhoneInv, PhoneTypes
<1>3. /\ identity # Nothing /\ flow.intent \in Intents /\ OfIdentity(flow.intent)
      /\ flow.intent.owner \in Owners /\ flow.intent.key \in Keys
      /\ EnrollFlow /\ flow.op \in EnrollOps /\ flow.op \in RegisterOps \cup EnrollOps
  BY <1>1, EnrollStep
<1>4. CASE ~accounts[flow.intent.owner].live
  <2>1. Error
    BY <1>4 DEF LookupAccount
  <2> QED
    BY <1>1, <1>2, <1>3, <2>1, Holding, ErrorKeeps DEF Error, Done
<1>5. CASE accounts[flow.intent.owner].live
  <2> DEFINE i == [flow.intent EXCEPT !.id = accounts[flow.intent.owner].nonce]
  <2>1. UNCHANGED <<registration, enrollment, shown, loading>>
    BY <1>5 DEF LookupAccount
  <2>2. PICK step \in {"member", "full", "room"} :
          Goto("enroll", step, i) /\ (step = "member" => Active(flow.intent))
    BY <1>5 DEF LookupAccount
  <2>3. accounts[flow.intent.owner].nonce \in Nat
    BY <1>3 DEF ServiceTypes
  <2>4. i \in Intents /\ OfIdentity(i)
    BY <1>3, <2>3 DEF Intents, OfIdentity
  <2> HIDE DEF i
  <2>5. step = "member" => identity.key \in members[identity.owner]
    BY <1>3, <2>2 DEF Active, MembersKept, OfIdentity
  <2>6. flow' # NoFlow /\ flow'.op = "enroll" /\ flow'.step = step /\ flow'.intent = i
    BY <2>2 DEF Goto, NoFlow
  <2>7. FlowInv'
    BY <1>2, <1>3, <2>1, <2>4, <2>5, <2>6 DEF FlowInv, EnrollFlow, OfIdentity, Steady, StatusIn
  <2> QED
    BY <1>1, <1>2, <2>1, <2>6, <2>7, GoesOn
<1> QED
  BY <1>4, <1>5

\* The record is stored before its request is sent.
LEMMA SubmissionKeeps ==
  ASSUME PhoneInv, flow # NoFlow, flow.op = "enroll", waiting' = waiting, Steady,
         NEW i \in Intents, OfIdentity(i), enrollment' = [intent |-> i, status |-> "submitted"],
         Goto("enroll", "sent", i), UNCHANGED <<registration, shown, loading>>
  PROVE  PhoneInv'
<1>1. Enrolling /\ identity # Nothing /\ resetting = "none" /\ shown.status = "enrolling" /\ shown.enrollment # "confirmed"
  <2>1. Enrolling /\ identity # Nothing /\ resetting = "none"
    BY Sides, HasTurn
  <2> QED
    BY <2>1, EnrollingLine
<1>2. registration = Nothing /\ identity.backedUp
  BY <1>1 DEF PhoneInv, ShownInv
<1>3. /\ enrollment' \in Records(EnrollmentStatuses) /\ enrollment' # Nothing /\ StatusIn(enrollment)' = "submitted"
      /\ enrollment'.intent = i /\ enrollment'.status = "submitted"
  BY NothingAssumption DEF Records, EnrollmentStatuses, StatusIn
<1>4. flow' # NoFlow /\ flow'.op = "enroll" /\ flow'.step = "sent" /\ flow'.intent = i
  BY DEF Goto, NoFlow
<1>5. PhoneTypes' /\ MarksInv'
  BY <1>3 DEF PhoneInv, PhoneTypes, MarksInv, Steady, markVars, Reinstalled
<1>6. StoreInv'
  BY <1>1, <1>2, <1>3 DEF PhoneInv, StoreInv, Steady, OfIdentity, Confirmed, StatusIn
<1>7. FlowInv'
  BY <1>1, <1>3, <1>4 DEF FlowInv, SubmittedFlow, OfIdentity, Steady
<1>8. Enrolling'
  <2>1. LineFits("enroll", "checkEnrollment", "enrolling", SentRecords,
                 waiting, flow.op, shown.status, shown.enrollment, "submitted")
    BY <1>1, Pairs, LineGoesOn DEF Enrolling
  <2> QED
    BY <1>3, <1>4, <2>1 DEF Enrolling
<1>9. ShownInv'
  BY <1>1, <1>2, <1>3 DEF PhoneInv, ShownInv, Steady
<1>10. ResetInv'
  BY <1>1 DEF PhoneInv, ResetInv, Steady
<1> QED
  BY <1>5, <1>6, <1>7, <1>8, <1>9, <1>10 DEF PhoneInv, LineInv

LEMMA EnrollDatedKeeps == ASSUME ServiceTypes, PhoneInv, EnrollDated PROVE PhoneInv'
<1>1. flow.op = "enroll" /\ flow.step \in {"member", "full", "room"} /\ flow # NoFlow /\ waiting' = waiting
  BY DEF EnrollDated, NoFlow
<1>2. Steady
  BY DEF EnrollDated, Rest, historyVars, NoPost, Post, serviceVars, Steady, PhoneInv, PhoneTypes
<1>3. /\ identity # Nothing /\ flow.intent \in Intents /\ OfIdentity(flow.intent)
      /\ EnrollFlow /\ flow.op \in EnrollOps
  BY <1>1, EnrollStep
<1>4. time + Validity \in 0..MaxTime
  BY OnboardAssumption DEF EnrollDated, ServiceTypes
<1> DEFINE i == [flow.intent EXCEPT !.deadline = time + Validity]
<1>5. i \in Intents /\ OfIdentity(i)
  BY <1>3, <1>4 DEF Intents, OfIdentity
<1>6. registration' = registration
  BY DEF EnrollDated
<1>7. \/ flow.step = "member" /\ SaveEnrollment(i, "confirmed")
      \/ flow.step = "full" /\ SaveEnrollment(i, "failed")
      \/ /\ flow.step = "room" /\ enrollment' = [intent |-> i, status |-> "submitted"]
         /\ Goto("enroll", "sent", i) /\ UNCHANGED <<shown, loading>>
  BY DEF EnrollDated
<1> HIDE DEF i
<1>8. CASE flow.step = "member" /\ SaveEnrollment(i, "confirmed")
  <2>1. identity.key \in members[identity.owner]
    BY <1>3, <1>8 DEF EnrollFlow
  <2> QED
    BY <1>1, <1>2, <1>3, <1>5, <1>6, <1>8, <2>1, SaveKeepsEnrollment DEF EnrollmentStatuses
<1>9. CASE SaveEnrollment(i, "failed")
  BY <1>1, <1>2, <1>3, <1>5, <1>6, <1>9, SaveKeepsEnrollment DEF EnrollmentStatuses
<1>10. CASE /\ enrollment' = [intent |-> i, status |-> "submitted"]
            /\ Goto("enroll", "sent", i) /\ UNCHANGED <<shown, loading>>
  BY <1>1, <1>2, <1>5, <1>6, <1>10, SubmissionKeeps
<1> QED
  BY <1>7, <1>8, <1>9, <1>10

LEMMA SubmittedStep ==
  ASSUME PhoneInv, flow # NoFlow, flow.op \in EnrollOps, flow.step \in {"roster", "ask", "landed", "missing", "sent"}
  PROVE  /\ identity # Nothing /\ flow.intent \in Intents /\ OfIdentity(flow.intent)
         /\ flow.intent.owner \in Owners /\ flow.intent.key \in Keys
         /\ SubmittedFlow /\ enrollment # Nothing /\ enrollment.status = "submitted"
         /\ flow.op \in RegisterOps \cup EnrollOps
<1>1. EnrollFlow \/ SubmittedFlow
  BY InFlight DEF EnrollOps
<1>2. SubmittedFlow
  BY <1>1 DEF EnrollFlow
<1>3. flow.intent \in Intents => flow.intent.owner \in Owners /\ flow.intent.key \in Keys
  BY DEF Intents
<1> QED
  BY <1>2, <1>3, InFlight DEF SubmittedFlow

LEMMA EnrollEndsKeep ==
  ASSUME PhoneInv, EnrollUnanswered \/ EnrollAnswered PROVE PhoneInv'
<1>1. flow # NoFlow /\ flow.op \in EnrollOps /\ flow.step = "sent" /\ waiting' = waiting
  BY DEF EnrollUnanswered, EnrollAnswered, NoFlow, EnrollOps
<1>2. /\ flow.intent \in Intents /\ OfIdentity(flow.intent)
      /\ enrollment # Nothing /\ enrollment.status = "submitted"
  BY <1>1, SubmittedStep
<1>3. Steady
  BY DEF EnrollUnanswered, EnrollAnswered, Handle, Rest, historyVars, serviceVars, Steady, PhoneInv, PhoneTypes
<1>4. \/ Return("enrollment", "submitted")
      \/ SaveEnrollment(flow.intent, "failed") /\ registration' = registration
  BY DEF EnrollUnanswered, EnrollAnswered
<1>5. CASE Return("enrollment", "submitted")
  BY <1>1, <1>2, <1>3, <1>5, Holding, ReturnKeepsEnrollment DEF Return, Done
<1>6. CASE SaveEnrollment(flow.intent, "failed") /\ registration' = registration
  BY <1>1, <1>2, <1>3, <1>6, SaveKeepsEnrollment DEF EnrollmentStatuses
<1> QED
  BY <1>4, <1>5, <1>6

LEMMA CheckEnrollmentBeginKeeps == ASSUME PhoneInv, CheckEnrollmentBegin PROVE PhoneInv'
<1>1. /\ Permit("checkEnrollment") /\ TurnOf(EnrollOps) /\ TurnOf(RegisterOps \cup EnrollOps)
      /\ enrollment \in Records(EnrollmentStatuses) \cup {Nothing}
  BY Taking DEF CheckEnrollmentBegin, RegisterOps, EnrollOps, PhoneInv, PhoneTypes
<1>2. Steady
  BY DEF CheckEnrollmentBegin, Rest, historyVars, serviceVars, Steady, PhoneInv, PhoneTypes
<1>3. CASE enrollment = Nothing \/ ~Loaded(enrollment)
  <2>1. Error
    BY <1>3 DEF CheckEnrollmentBegin
  <2> QED
    BY <1>1, <1>2, <2>1, ErrorKeeps DEF Error, Done
<1>4. CASE enrollment # Nothing /\ Loaded(enrollment) /\ enrollment.status = "submitted"
  <2>1. Goto("checkEnrollment", "roster", enrollment.intent) /\ UNCHANGED <<registration, enrollment, shown, loading>>
    BY <1>4 DEF CheckEnrollmentBegin
  <2>2. enrollment.intent \in Intents /\ OfIdentity(enrollment.intent) /\ identity # Nothing
    BY <1>1, <1>4 DEF Records, PhoneInv, StoreInv, Loaded
  <2>3. flow' # NoFlow /\ flow'.op = "checkEnrollment" /\ FlowInv'
    BY <1>2, <1>4, <2>1, <2>2 DEF Goto, NoFlow, FlowInv, SubmittedFlow, OfIdentity, Steady
  <2>4. StatusIn(enrollment) \in SentRecords
    BY <1>4 DEF StatusIn, SentRecords
  <2> QED
    BY <1>1, <1>2, <2>1, <2>3, <2>4, OtherTakes
<1>5. CASE enrollment # Nothing /\ Loaded(enrollment) /\ enrollment.status # "submitted"
  <2>1. Return("enrollment", enrollment.status)
    BY <1>5 DEF CheckEnrollmentBegin
  <2> QED
    BY <1>1, <1>2, <1>5, <2>1, ReturnKeepsEnrollment DEF Return, Done
<1> QED
  BY <1>3, <1>4, <1>5

LEMMA CheckingKeeps ==
  ASSUME ServiceTypes, MembersKept, PhoneInv, ReadRoster \/ AskEnrollment \/ Landed \/ Missing PROVE PhoneInv'
<1>1. /\ flow.op = "checkEnrollment" /\ flow.op \in EnrollOps /\ flow.step \in {"roster", "ask", "landed", "missing"}
      /\ waiting' = waiting /\ registration' = registration
  BY DEF ReadRoster, AskEnrollment, Landed, Missing, CheckingAt, At, EnrollOps
<1>2. flow # NoFlow
  BY <1>1 DEF NoFlow
<1>3. Steady
  BY DEF ReadRoster, AskEnrollment, Landed, Missing, CheckingAt, Post, NoPost, Rest, historyVars, serviceVars, Steady,
         PhoneInv, PhoneTypes
<1>4. /\ identity # Nothing /\ flow.intent \in Intents /\ OfIdentity(flow.intent)
      /\ flow.intent.owner \in Owners /\ flow.intent.key \in Keys
      /\ SubmittedFlow /\ enrollment # Nothing /\ enrollment.status = "submitted"
  BY <1>1, <1>2, SubmittedStep
<1>5. Active(flow.intent) => identity.key \in members[identity.owner]
  BY <1>4 DEF Active, MembersKept, OfIdentity
<1>6. \/ \E status \in EnrollmentStatuses :
           SaveEnrollment(flow.intent, status) /\ (status = "confirmed" => Active(flow.intent))
      \/ \E step \in {"ask", "landed", "missing", "sent"} : Proceed(step)
      \/ Keep
  <2>1. CASE ReadRoster
    BY <2>1 DEF ReadRoster, EnrollmentStatuses
  <2>2. CASE AskEnrollment
    BY <2>2 DEF AskEnrollment, EnrollmentStatuses
  <2>3. CASE Landed
    BY <2>3 DEF Landed, EnrollmentStatuses
  <2>4. CASE Missing
    BY <2>4 DEF Missing, EnrollmentStatuses
  <2> QED
    BY <2>1, <2>2, <2>3, <2>4
<1>7. ASSUME NEW status \in EnrollmentStatuses, SaveEnrollment(flow.intent, status), status = "confirmed" => Active(flow.intent)
      PROVE  PhoneInv'
  BY <1>1, <1>2, <1>3, <1>4, <1>5, <1>7, SaveKeepsEnrollment
<1>8. ASSUME NEW step \in {"ask", "landed", "missing", "sent"}, Proceed(step) PROVE PhoneInv'
  <2>1. flow' = [op |-> "checkEnrollment", step |-> step, intent |-> flow.intent] /\ UNCHANGED <<enrollment, shown, loading>>
    BY <1>8 DEF Proceed, Goto
  <2>2. flow' # NoFlow /\ flow'.op = "checkEnrollment" /\ flow'.step = step /\ flow'.intent = flow.intent
    BY <2>1 DEF NoFlow
  <2>3. FlowInv'
    BY <1>3, <1>4, <2>1, <2>2 DEF FlowInv, SubmittedFlow, OfIdentity, Steady
  <2> QED
    BY <1>1, <1>2, <1>3, <2>1, <2>2, <2>3, GoesOn
<1>9. CASE Keep
  BY <1>1, <1>2, <1>3, <1>4, <1>9, Holding, ReturnKeepsEnrollment DEF Keep, Done
<1> QED
  BY <1>6, <1>7, <1>8, <1>9

\* A read or a write that fails ends the operation, whichever it is.
LEMMA FailuresKeep ==
  ASSUME PhoneInv, ReadFails \/ BeginFails \/ AnswerUnsaved PROVE PhoneInv'
<1>1. Steady /\ Error
  BY DEF ReadFails, Unreachable, BeginFails, AnswerUnsaved, Handle, Rest, historyVars, serviceVars, Steady, PhoneInv, PhoneTypes
<1>2. TurnOf(RegisterOps \cup EnrollOps)
  <2>1. CASE BeginFails
    BY <2>1, Taking DEF BeginFails, UserFlows, Checks, RegisterOps, EnrollOps
  <2>2. CASE ReadFails \/ AnswerUnsaved
    <3>1. flow # NoFlow /\ waiting' = waiting
      BY <2>2 DEF ReadFails, Unreachable, AnswerUnsaved, NoFlow
    <3> QED
      BY <3>1, InFlight, Holding
  <2> QED
    BY <2>1, <2>2
<1> QED
  BY <1>1, <1>2, ErrorKeeps DEF Error, Done

LEMMA OnboardingKeeps ==
  ASSUME ServiceTypes, MembersKept, PhoneInv, OnboardingStep PROVE PhoneInv'
  BY RegisterBeginKeeps, RegisterEndsKeep, CheckRegistrationBeginKeeps, ReconcilingKeeps, EnrollBeginKeeps,
     LookupAccountKeeps, EnrollDatedKeeps, EnrollEndsKeep, CheckEnrollmentBeginKeeps, CheckingKeeps
  DEF OnboardingStep

-----------------------------------------------------------------------------
(* The vault, the store and what the user does.                            *)

\* While the store loads, or another screen is shown, no operation has the permit.
LEMMA LineStays ==
  ASSUME PhoneInv, loading.step # "none" \/ shown.status \notin {"unregistered", "enrolling"}
  PROVE  /\ flow = NoFlow
         /\ UNCHANGED <<waiting, flow, registration, enrollment>> => LineInv'
<1>1. /\ shown.status = "unregistered" /\ shown.registration # "confirmed" => loading.step = "none"
      /\ shown.status = "enrolling" /\ shown.enrollment # "confirmed" => loading.step = "none"
  BY DEF PhoneInv, ShownInv
<1>2. flow.op = "none" <=> flow = NoFlow
  BY NoOperation DEF PhoneInv
<1>3. CASE waiting = <<>> /\ flow.op = "none"
  <2>1. UNCHANGED <<waiting, flow>> => Registering'
    <3> SUFFICES ASSUME UNCHANGED <<waiting, flow>> PROVE Registering'
      OBVIOUS
    <3>1. waiting' = <<>> /\ flow'.op = "none"
      BY <1>3
    <3> QED
      BY <3>1, Pairs, LineEmpty DEF Registering
  <2> QED
    BY <1>2, <1>3, <2>1 DEF LineInv
<1>4. CASE (waiting # <<>> \/ flow.op # "none") /\ Registering
  <2>1. flow.op = "none" /\ StatusIn(registration) = "confirmed"
    BY <1>1, <1>4, RegisteringLine
  <2>2. LineFits("register", "checkRegistration", "unregistered", OpenRecords,
                 waiting, "none", shown.status, shown.registration, "confirmed")
    BY <1>4, <2>1 DEF Registering
  <2>3. \A status2, seen2 : LineFits("register", "checkRegistration", "unregistered", OpenRecords,
                                     waiting, "none", status2, seen2, "confirmed")
    BY <2>2, Pairs, LineConfirmed
  <2>4. UNCHANGED <<waiting, flow, registration, enrollment>> => Registering'
    BY <2>1, <2>3 DEF Registering, StatusIn
  <2> QED
    BY <1>2, <2>1, <2>4 DEF LineInv
<1>5. CASE (waiting # <<>> \/ flow.op # "none") /\ Enrolling
  <2>1. flow.op = "none" /\ StatusIn(enrollment) = "confirmed"
    BY <1>1, <1>5, EnrollingLine
  <2>2. LineFits("enroll", "checkEnrollment", "enrolling", SentRecords,
                 waiting, "none", shown.status, shown.enrollment, "confirmed")
    BY <1>5, <2>1 DEF Enrolling
  <2>3. \A status2, seen2 : LineFits("enroll", "checkEnrollment", "enrolling", SentRecords,
                                     waiting, "none", status2, seen2, "confirmed")
    BY <2>2, Pairs, LineConfirmed
  <2>4. UNCHANGED <<waiting, flow, registration, enrollment>> => Enrolling'
    BY <2>1, <2>3 DEF Enrolling, StatusIn
  <2> QED
    BY <1>2, <2>1, <2>4 DEF LineInv
<1> QED
  BY <1>3, <1>4, <1>5 DEF PhoneInv, LineInv

\* What a load that failed shows.
LEMMA FailedShows ==
  ASSUME NEW error \in Errors
  PROVE  /\ Failed(error).status = "error" /\ Failed(error).error = error
         /\ Failed(error) \in [status : Statuses, registration : RegistrationStatuses \cup {"none"},
                               enrollment : EnrollmentStatuses \cup {"none"}, error : Errors]
  BY DEF Failed, Statuses

\* What is shown of an identity and its records.
LEMMA StateShows ==
  ASSUME NEW id, NEW reg \in Records(RegistrationStatuses) \cup {Nothing}, NEW enr \in Records(EnrollmentStatuses) \cup {Nothing}
  PROVE  LET s == StateFor(id, reg, enr)
         IN  /\ s \in [status : Statuses, registration : RegistrationStatuses \cup {"none"},
                       enrollment : EnrollmentStatuses \cup {"none"}, error : Errors]
             /\ s.error = "none" /\ s.registration = StatusIn(reg) /\ s.enrollment = StatusIn(enr)
             /\ s.status = "absent" <=> id = Nothing
             /\ s.status = "unregistered" => /\ ~id.backedUp /\ enr = Nothing
                                             /\ StatusIn(reg) # "confirmed" /\ StatusIn(enr) # "confirmed"
             /\ s.status = "enrolling" => /\ id.backedUp \/ enr # Nothing
                                          /\ StatusIn(reg) # "confirmed" /\ StatusIn(enr) # "confirmed"
             /\ s.status \in {"absent", "unregistered", "enrolling", "backup", "ready"}
             /\ s.status \in {"backup", "ready"} => "confirmed" \in {StatusIn(reg), StatusIn(enr)}
<1>1. StatusIn(reg) \in RegistrationStatuses \cup {"none"} /\ StatusIn(enr) \in EnrollmentStatuses \cup {"none"}
  BY DEF StatusIn, Records
<1>2. "none" \in Errors
  BY DEF Errors
<1> QED
  BY <1>1, <1>2 DEF StateFor, Statuses

LEMMA HydrateIdentityKeeps == ASSUME PhoneInv, HydrateIdentity, members' = members PROVE PhoneInv'
<1>1. /\ UNCHANGED <<identity, registration, enrollment, resetting, waiting, flow, drawn, install, made, saved>>
      /\ loading.step = "identity"
  BY DEF HydrateIdentity, secureVars, historyVars
<1>2. flow = NoFlow /\ LineInv' /\ resetting = "none"
  BY <1>1, LineStays DEF PhoneInv, ResetInv
<1>3. StoreInv' /\ FlowInv' /\ ResetInv'
  BY <1>1, <1>2 DEF PhoneInv, StoreInv, FlowInv, ResetInv, OfIdentity, Confirmed, StatusIn
<1>4. CASE Stale /\ shown' = Failed("stale-install") /\ loading' = NotLoading /\ UNCHANGED markVars
  <2>1. PhoneTypes' /\ MarksInv'
    <3>1. "stale-install" \in Errors
      BY DEF Errors
    <3> QED
      BY <1>1, <1>4, <3>1, FailedShows DEF PhoneInv, PhoneTypes, MarksInv, markVars, NotLoading, Reinstalled
  <2>2. ShownInv'
    BY <1>4 DEF ShownInv, Failed, NotLoading
  <2> QED
    BY <1>2, <1>3, <2>1, <2>2 DEF PhoneInv
<1>5. CASE ~Stale /\ MarksAfterLoad
  <2>1. /\ keychainMark' = TRUE /\ sandboxMark' \in BOOLEAN
        /\ identity # Nothing => sandboxMark' = TRUE /\ ~Reinstalled
    BY <1>5 DEF MarksAfterLoad, Stale, Reinstalled, PhoneInv, PhoneTypes
  <2>2. MarksInv'
    BY <1>1, <2>1 DEF PhoneInv, MarksInv, Reinstalled
  <2>3. CASE identity = Nothing
    <3>1. shown' = StateFor(Nothing, Nothing, Nothing) /\ loading' = NotLoading
      BY <1>5, <2>3 DEF HydrateIdentity
    <3>2. /\ shown'.status = "absent" /\ shown'.error = "none"
          /\ shown' \in [status : Statuses, registration : RegistrationStatuses \cup {"none"},
                         enrollment : EnrollmentStatuses \cup {"none"}, error : Errors]
      BY <3>1, StateShows
    <3>3. PhoneTypes'
      BY <1>1, <2>1, <3>1, <3>2 DEF PhoneInv, PhoneTypes, NotLoading
    <3>4. ShownInv'
      BY <1>1, <2>3, <3>1, <3>2 DEF ShownInv, NotLoading
    <3> QED
      BY <1>2, <1>3, <2>2, <3>3, <3>4 DEF PhoneInv
  <2>4. CASE identity # Nothing
    <3>1. shown' = shown /\ loading' = [step |-> "records", backedUp |-> identity.backedUp]
      BY <1>5, <2>4 DEF HydrateIdentity
    <3>2. identity.backedUp \in BOOLEAN
      BY <2>4 DEF PhoneInv, PhoneTypes, Identities
    <3>3. PhoneTypes'
      BY <1>1, <2>1, <3>1, <3>2 DEF PhoneInv, PhoneTypes
    <3>4. ShownInv'
      <4>1. Confirmed' = Confirmed /\ StatusIn(registration)' = StatusIn(registration) /\ StatusIn(enrollment)' = StatusIn(enrollment)
        BY <1>1 DEF Confirmed, StatusIn
      <4> QED
        BY <1>1, <2>4, <3>1, <4>1 DEF PhoneInv, ShownInv
    <3> QED
      BY <1>2, <1>3, <2>2, <3>3, <3>4 DEF PhoneInv
  <2> QED
    BY <2>3, <2>4
<1> QED
  BY <1>4, <1>5 DEF HydrateIdentity

LEMMA HydrateFailsKeeps == ASSUME PhoneInv, HydrateFails, members' = members PROVE PhoneInv'
<1>1. /\ UNCHANGED <<identity, registration, enrollment, markVars, resetting, waiting, flow, drawn, install, made, saved>>
      /\ loading.step # "none" /\ loading' = NotLoading /\ shown' = Failed("read") /\ "read" \in Errors
  BY DEF HydrateFails, secureVars, historyVars, Errors
<1>2. flow = NoFlow /\ LineInv' /\ resetting = "none"
  BY <1>1, LineStays DEF PhoneInv, ResetInv
<1>3. MarksInv' /\ StoreInv' /\ FlowInv' /\ ResetInv'
  BY <1>1, <1>2 DEF PhoneInv, MarksInv, markVars, Reinstalled, StoreInv, FlowInv, ResetInv, OfIdentity, Confirmed, StatusIn
<1>4. PhoneTypes'
  BY <1>1, FailedShows DEF PhoneInv, PhoneTypes, markVars, NotLoading
<1>5. ShownInv'
  BY <1>1 DEF ShownInv, Failed, NotLoading
<1> QED
  BY <1>2, <1>3, <1>4, <1>5 DEF PhoneInv

LEMMA HydrateRecordsKeeps == ASSUME PhoneInv, HydrateRecords, members' = members PROVE PhoneInv'
<1>1. /\ UNCHANGED <<identity, registration, enrollment, markVars, resetting, waiting, flow, drawn, install, made, saved>>
      /\ loading.step = "records" /\ loading' = NotLoading /\ identity # Nothing
      /\ loading.backedUp = identity.backedUp \/ Confirmed
  BY DEF HydrateRecords, secureVars, historyVars, PhoneInv, ShownInv
<1>2. flow = NoFlow /\ LineInv' /\ resetting = "none"
  BY <1>1, LineStays DEF PhoneInv, ResetInv
<1>3. MarksInv' /\ StoreInv' /\ FlowInv' /\ ResetInv'
  BY <1>1, <1>2 DEF PhoneInv, MarksInv, markVars, Reinstalled, StoreInv, FlowInv, ResetInv, OfIdentity, Confirmed, StatusIn
<1> DEFINE id == [identity EXCEPT !.backedUp = loading.backedUp]
<1>4. id # Nothing /\ id.backedUp = loading.backedUp
  BY <1>1, NothingAssumption DEF PhoneInv, PhoneTypes, Identities
<1>5. shown' = StateFor(id, registration, enrollment)
  BY <1>1 DEF HydrateRecords, Fits, PhoneInv, StoreInv, OfIdentity
<1> HIDE DEF id
<1>6. registration \in Records(RegistrationStatuses) \cup {Nothing} /\ enrollment \in Records(EnrollmentStatuses) \cup {Nothing}
  BY DEF PhoneInv, PhoneTypes
<1>7. /\ shown' \in [status : Statuses, registration : RegistrationStatuses \cup {"none"},
                     enrollment : EnrollmentStatuses \cup {"none"}, error : Errors]
      /\ shown'.error = "none" /\ shown'.registration = StatusIn(registration) /\ shown'.enrollment = StatusIn(enrollment)
      /\ shown'.status # "absent"
      /\ shown'.status = "unregistered" => ~loading.backedUp /\ enrollment = Nothing /\ ~Confirmed
      /\ shown'.status = "enrolling" => (loading.backedUp \/ enrollment # Nothing) /\ ~Confirmed
      /\ shown'.status \in {"backup", "ready"} => Confirmed
  <2>1. /\ shown' \in [status : Statuses, registration : RegistrationStatuses \cup {"none"},
                     enrollment : EnrollmentStatuses \cup {"none"}, error : Errors]
        /\ shown'.error = "none" /\ shown'.registration = StatusIn(registration) /\ shown'.enrollment = StatusIn(enrollment)
        /\ shown'.status # "absent"
    <3>1. shown' \in [status : Statuses, registration : RegistrationStatuses \cup {"none"},
                      enrollment : EnrollmentStatuses \cup {"none"}, error : Errors]
      BY <1>5, <1>6, StateShows
    <3>2. shown'.error = "none" /\ shown'.registration = StatusIn(registration) /\ shown'.enrollment = StatusIn(enrollment)
      BY <1>5, <1>6, StateShows
    <3>3. shown'.status # "absent"
      BY <1>4, <1>5, <1>6, StateShows
    <3> QED
      BY <3>1, <3>2, <3>3
  <2>2. /\ shown'.status = "unregistered" => ~loading.backedUp /\ enrollment = Nothing /\ ~Confirmed
        /\ shown'.status = "enrolling" => (loading.backedUp \/ enrollment # Nothing) /\ ~Confirmed
        /\ shown'.status \in {"backup", "ready"} => Confirmed
    BY <1>4, <1>5, <1>6, StateShows DEF Confirmed
  <2> QED
    BY <2>1, <2>2
<1>8. PhoneTypes'
  BY <1>1, <1>7 DEF PhoneInv, PhoneTypes, markVars, NotLoading
<1>9. ShownInv'
  <2>1. Confirmed' = Confirmed /\ StatusIn(registration)' = StatusIn(registration) /\ StatusIn(enrollment)' = StatusIn(enrollment)
    BY <1>1 DEF Confirmed, StatusIn
  <2>2. loading'.step = "none"
    BY <1>1 DEF NotLoading
  <2>3. ~Confirmed => loading.backedUp = identity.backedUp
    BY <1>1
  <2>4. (enrollment # Nothing \/ identity.backedUp) /\ ~Confirmed => identity.backedUp /\ registration = Nothing
    BY DEF PhoneInv, StoreInv, Confirmed, StatusIn
  <2> QED
    BY <1>1, <1>7, <2>1, <2>2, <2>3, <2>4 DEF ShownInv
<1> QED
  BY <1>2, <1>3, <1>8, <1>9 DEF PhoneInv

LEMMA RetryLoadKeeps == ASSUME PhoneInv, RetryLoad, members' = members PROVE PhoneInv'
<1>1. /\ UNCHANGED <<identity, registration, enrollment, markVars, shown, resetting, waiting, flow, drawn, install, made, saved>>
      /\ shown.status = "error" /\ loading' = [NotLoading EXCEPT !.step = "identity"]
  BY DEF RetryLoad, secureVars, historyVars
<1>2. flow = NoFlow /\ LineInv' /\ resetting = "none"
  BY <1>1, LineStays DEF PhoneInv, ResetInv
<1>3. MarksInv' /\ StoreInv' /\ FlowInv' /\ ResetInv'
  BY <1>1, <1>2 DEF PhoneInv, MarksInv, markVars, Reinstalled, StoreInv, FlowInv, ResetInv, OfIdentity, Confirmed, StatusIn
<1>4. loading' = [step |-> "identity", backedUp |-> FALSE]
      /\ loading' \in [step : {"none", "identity", "records"}, backedUp : BOOLEAN]
  BY <1>1 DEF NotLoading
<1>5. PhoneTypes'
  BY <1>1, <1>4 DEF PhoneInv, PhoneTypes, markVars
<1>6. ShownInv'
  BY <1>1, <1>4 DEF ShownInv
<1> QED
  BY <1>2, <1>3, <1>5, <1>6 DEF PhoneInv

\* No operation is asked for, and none runs.
LEMMA LineIdles == ASSUME waiting' = <<>>, flow' = NoFlow PROVE LineInv' /\ FlowInv'
<1>1. flow'.op = "none"
  BY DEF NoFlow
<1>2. Registering'
  BY <1>1, Pairs, LineEmpty DEF Registering
<1> QED
  BY <1>2 DEF LineInv, FlowInv

\* A new identity is alone in the store, and its first operation alone in the line.
LEMMA WriteIdentityKeeps ==
  ASSUME PhoneInv, NEW new \in Identities, new.install = install, NEW next,
         next = IF new.backedUp THEN "enroll" ELSE "register",
         WriteIdentity(new, next), members' = members
  PROVE  PhoneInv'
<1>1. shown.status = "absent" /\ identity = Nothing /\ resetting = "none" /\ registration = Nothing /\ enrollment = Nothing
  BY DEF WriteIdentity, MayWrite, PhoneInv, ShownInv, StoreInv
<1>2. waiting = <<>> /\ flow = NoFlow
  BY <1>1, Sides
<1>3. /\ identity' = new /\ made' = made + 1 /\ shown' = StateFor(new, Nothing, Nothing)
      /\ waiting' = <<next>> /\ loading' = NotLoading /\ keychainMark' = TRUE /\ sandboxMark' = TRUE
      /\ UNCHANGED <<registration, enrollment, resetting, flow, drawn, install, saved>>
      /\ made < MaxIdentities
  <2>1. waiting' = Append(waiting, next)
    BY <1>1 DEF WriteIdentity
  <2>2. waiting' = <<next>>
    BY <1>2, <2>1, Queues
  <2> QED
    BY <1>1, <2>2 DEF WriteIdentity, MayWrite, MarksAfterLoad, PhoneInv, PhoneTypes
<1>4. new # Nothing /\ new.backedUp \in BOOLEAN
  BY NothingAssumption DEF Identities
<1>5. /\ shown' \in [status : Statuses, registration : RegistrationStatuses \cup {"none"},
                     enrollment : EnrollmentStatuses \cup {"none"}, error : Errors]
      /\ shown'.error = "none" /\ shown'.registration = "none" /\ shown'.enrollment = "none"
      /\ shown'.status = IF new.backedUp THEN "enrolling" ELSE "unregistered"
  <2>1. StatusIn(Nothing) = "none"
    BY DEF StatusIn
  <2>2. /\ shown' \in [status : Statuses, registration : RegistrationStatuses \cup {"none"},
                     enrollment : EnrollmentStatuses \cup {"none"}, error : Errors]
        /\ shown'.error = "none" /\ shown'.registration = "none" /\ shown'.enrollment = "none"
    BY <1>3, <2>1, StateShows
  <2>3. shown'.status = IF new.backedUp THEN "enrolling" ELSE "unregistered"
    BY <1>3, <1>4, <2>1 DEF StateFor
  <2> QED
    BY <2>2, <2>3
<1>6. PhoneTypes' /\ MarksInv'
  <2>1. PhoneTypes'
    <3>1. made' \in 0..MaxIdentities
      BY <1>3, OnboardAssumption DEF PhoneInv, PhoneTypes
    <3> QED
      BY <1>1, <1>3, <1>5, <3>1 DEF PhoneInv, PhoneTypes, NotLoading
  <2>2. install \in Nat
    BY DEF PhoneInv, PhoneTypes
  <2> QED
    BY <1>3, <2>1, <2>2 DEF MarksInv, Reinstalled
<1>7. StoreInv' /\ FlowInv' /\ ResetInv'
  BY <1>1, <1>2, <1>3, <1>4 DEF StoreInv, FlowInv, ResetInv, Confirmed, StatusIn
<1>8. flow'.op = "none" /\ StatusIn(registration)' = "none" /\ StatusIn(enrollment)' = "none"
  BY <1>1, <1>2, <1>3 DEF NoFlow, StatusIn
<1>9. Hand(<<>>, "none") = {"none"} /\ Append(<<>>, next) = <<next>>
  BY InQueues, Queues
<1>10. LineInv'
  <2>1. CASE new.backedUp
    <3>1. next = "enroll"
      BY <2>1
    <3>2. LineFits("enroll", "checkEnrollment", "enrolling", SentRecords, <<>>, "none", "enrolling", "none", "none")
      BY Pairs, LineEmpty
    <3>3. LineFits("enroll", "checkEnrollment", "enrolling", SentRecords, Append(<<>>, "enroll"), "none", "enrolling", "none", "none")
      BY <1>9, <3>2, Pairs, LineJoined
    <3>4. LineFits("enroll", "checkEnrollment", "enrolling", SentRecords, <<next>>, "none", "enrolling", "none", "none")
      BY <1>9, <3>1, <3>3
    <3> QED
      BY <1>3, <1>5, <1>8, <2>1, <3>4 DEF LineInv, Enrolling
  <2>2. CASE ~new.backedUp
    <3>1. next = "register"
      BY <2>2
    <3>2. LineFits("register", "checkRegistration", "unregistered", OpenRecords, <<>>, "none", "unregistered", "none", "none")
      BY Pairs, LineEmpty
    <3>3. LineFits("register", "checkRegistration", "unregistered", OpenRecords, Append(<<>>, "register"), "none", "unregistered", "none", "none")
      BY <1>9, <3>2, Pairs, LineJoined
    <3>4. LineFits("register", "checkRegistration", "unregistered", OpenRecords, <<next>>, "none", "unregistered", "none", "none")
      BY <1>9, <3>1, <3>3
    <3> QED
      BY <1>3, <1>5, <1>8, <2>2, <3>4 DEF LineInv, Registering
  <2> QED
    BY <2>1, <2>2
<1>11. ShownInv'
  BY <1>1, <1>3, <1>4, <1>5, <1>8 DEF ShownInv, NotLoading
<1> QED
  BY <1>6, <1>7, <1>10, <1>11 DEF PhoneInv

LEMMA CreateKeeps == ASSUME PhoneInv, Create, members' = members PROVE PhoneInv'
<1>1. made \in 0..MaxIdentities /\ made < MaxIdentities /\ install \in 0..MaxInstalls
  BY DEF Create, WriteIdentity, MayWrite, PhoneInv, PhoneTypes
<1>2. made + 1 \in Owners /\ made + 1 \in Keys
  BY <1>1, OnboardAssumption DEF Owners, Keys
<1> DEFINE new == NewIdentity(made + 1, FALSE)
<1>3. new \in Identities /\ new.install = install /\ new.backedUp = FALSE
  BY <1>1, <1>2 DEF NewIdentity, Identities
<1>4. WriteIdentity(new, "register")
  BY DEF Create
<1> HIDE DEF new
<1> QED
  BY <1>3, <1>4, WriteIdentityKeeps

LEMMA RestoreKeeps == ASSUME PhoneInv, NEW o \in Owners, Restore(o), members' = members PROVE PhoneInv'
<1>1. made \in 0..MaxIdentities /\ made < MaxIdentities /\ install \in 0..MaxInstalls
  BY DEF Restore, WriteIdentity, MayWrite, PhoneInv, PhoneTypes
<1>2. made + 1 \in Keys
  BY <1>1, OnboardAssumption DEF Keys
<1> DEFINE new == NewIdentity(o, TRUE)
<1>3. new \in Identities /\ new.install = install /\ new.backedUp = TRUE
  BY <1>1, <1>2 DEF NewIdentity, Identities
<1>4. WriteIdentity(new, "enroll")
  BY DEF Restore
<1> HIDE DEF new
<1> QED
  BY <1>3, <1>4, WriteIdentityKeeps

LEMMA WriteFailsKeeps == ASSUME PhoneInv, WriteFails, members' = members PROVE PhoneInv'
<1>1. /\ UNCHANGED <<identity, registration, enrollment, markVars, resetting, waiting, flow, drawn, install, made, saved>>
      /\ shown.status = "absent" /\ resetting = "none" /\ loading' = NotLoading /\ shown' = Failed("write") /\ "write" \in Errors
  BY DEF WriteFails, MayWrite, secureVars, historyVars, Errors
<1>2. flow = NoFlow /\ LineInv'
  BY <1>1, LineStays
<1>3. MarksInv' /\ StoreInv' /\ FlowInv' /\ ResetInv'
  BY <1>1, <1>2 DEF PhoneInv, MarksInv, markVars, Reinstalled, StoreInv, FlowInv, ResetInv, OfIdentity, Confirmed, StatusIn
<1>4. PhoneTypes'
  BY <1>1, FailedShows DEF PhoneInv, PhoneTypes, markVars, NotLoading
<1>5. ShownInv'
  BY <1>1 DEF ShownInv, Failed, NotLoading
<1> QED
  BY <1>2, <1>3, <1>4, <1>5 DEF PhoneInv

\* Only a confirmed identity is saved, or skipped.
LEMMA SetBackupStateKeeps ==
  ASSUME PhoneInv, NEW copied \in BOOLEAN, SetBackupState(copied), members' = members PROVE PhoneInv'
<1>1. /\ UNCHANGED <<registration, enrollment, markVars, loading, resetting, waiting, flow, drawn, install, made>>
      /\ shown.status \in {"backup", "ready"} /\ resetting = "none" /\ identity # Nothing /\ Confirmed
      /\ shown' = [shown EXCEPT !.status = "ready"]
      /\ identity' = [identity EXCEPT !.backedUp = TRUE]
      /\ saved' = IF copied THEN saved \cup {identity.owner} ELSE saved
  BY DEF SetBackupState, PhoneInv, ShownInv
<1>2. flow = NoFlow /\ LineInv'
  BY <1>1, LineStays
<1>3. /\ identity \in Identities /\ identity' \in Identities /\ identity' # Nothing
      /\ identity'.owner = identity.owner /\ identity'.key = identity.key /\ identity'.install = identity.install
      /\ identity'.backedUp = TRUE
  <2>1. identity \in Identities
    BY <1>1 DEF PhoneInv, PhoneTypes
  <2>2. identity' \in Identities
    BY <1>1, <2>1 DEF Identities
  <2> QED
    BY <1>1, <2>1, <2>2, NothingAssumption DEF Identities
<1>4. shown'.status = "ready" /\ shown'.error = shown.error /\ shown.error = "none"
      /\ shown' \in [status : Statuses, registration : RegistrationStatuses \cup {"none"},
                     enrollment : EnrollmentStatuses \cup {"none"}, error : Errors]
  BY <1>1 DEF PhoneInv, PhoneTypes, Statuses
<1>5. saved' \subseteq Owners
  BY <1>1, <1>3 DEF PhoneInv, PhoneTypes, Identities
<1>6. PhoneTypes'
  BY <1>1, <1>3, <1>4, <1>5 DEF PhoneInv, PhoneTypes, markVars
<1>7. MarksInv' /\ FlowInv' /\ ResetInv'
  BY <1>1, <1>2, <1>3 DEF PhoneInv, MarksInv, markVars, Reinstalled, FlowInv, ResetInv
<1>8. Confirmed' /\ StoreInv'
  <2>1. StatusIn(registration)' = StatusIn(registration) /\ StatusIn(enrollment)' = StatusIn(enrollment)
    BY <1>1 DEF StatusIn
  <2>2. registration # Nothing => registration.status = "confirmed"
    BY <1>1 DEF Confirmed, StatusIn, PhoneInv, StoreInv
  <2> QED
    BY <1>1, <1>3, <2>1, <2>2 DEF PhoneInv, StoreInv, OfIdentity, Confirmed
<1>9. ShownInv'
  BY <1>3, <1>4, <1>8 DEF ShownInv
<1> QED
  BY <1>2, <1>6, <1>7, <1>8, <1>9 DEF PhoneInv

-----------------------------------------------------------------------------
(* A reset, and the app that starts again.                                 *)

\* Whoever may reset waits for no operation: none has the permit.
LEMMA ResetIsAlone ==
  ASSUME PhoneInv, MayStepBack \/ MayStartOver \/ MayReset PROVE flow = NoFlow
<1>1. flow.op = "none" <=> flow = NoFlow
  BY NoOperation DEF PhoneInv
<1>2. CASE MayReset
  <2>1. shown.status \notin {"unregistered", "enrolling"}
    BY <1>2 DEF MayReset, PhoneInv, PhoneTypes
  <2> QED
    BY <2>1, LineStays
<1>3. CASE MayStepBack
  <2>1. Registering /\ shown.registration \in {"none", "failed"} /\ flow.op # "register"
    BY <1>3, Sides DEF MayStepBack, Busy, InHand, UserFlows
  <2>2. flow.op # "none" => flow.op \in {"register", "checkRegistration"}
    BY <2>1, RegisteringLine
  <2>3. flow.op # "none" /\ flow.op = "checkRegistration" => shown.registration \in OpenRecords
    BY <2>1, Pairs, LineEnds DEF Registering
  <2> QED
    BY <1>1, <2>1, <2>2, <2>3 DEF OpenRecords
<1>4. CASE MayStartOver
  <2>1. Enrolling /\ shown.enrollment \in {"none", "failed", "final"} /\ flow.op # "enroll"
    BY <1>4, Sides DEF MayStartOver, Busy, InHand, UserFlows
  <2>2. flow.op # "none" => flow.op \in {"enroll", "checkEnrollment"}
    BY <2>1, EnrollingLine
  <2>3. flow.op # "none" /\ flow.op = "checkEnrollment" => shown.enrollment \in SentRecords
    BY <2>1, Pairs, LineEnds DEF Enrolling
  <2> QED
    BY <1>1, <2>1, <2>2, <2>3 DEF SentRecords
<1> QED
  BY <1>2, <1>3, <1>4

LEMMA ResetBeginKeeps == ASSUME PhoneInv, ResetBegin, members' = members PROVE PhoneInv'
<1>1. /\ UNCHANGED <<identity, registration, enrollment, markVars, waiting, flow, drawn, install, made, saved>>
      /\ flow = NoFlow /\ waiting = <<>> /\ loading' = NotLoading /\ resetting' = "registration"
      /\ shown' = [shown EXCEPT !.status = "resetting", !.error = "none"]
  BY ResetIsAlone DEF ResetBegin, Prompt, secureVars
<1>2. LineInv' /\ FlowInv'
  BY <1>1, LineIdles
<1>3. MarksInv' /\ StoreInv'
  BY <1>1 DEF PhoneInv, MarksInv, markVars, Reinstalled, StoreInv, OfIdentity, Confirmed, StatusIn
<1>4. /\ shown'.status = "resetting" /\ shown'.error = "none"
      /\ shown' \in [status : Statuses, registration : RegistrationStatuses \cup {"none"},
                     enrollment : EnrollmentStatuses \cup {"none"}, error : Errors]
  BY <1>1 DEF PhoneInv, PhoneTypes, Statuses, Errors
<1>5. PhoneTypes'
  BY <1>1, <1>4 DEF PhoneInv, PhoneTypes, markVars, NotLoading
<1>6. ShownInv' /\ ResetInv'
  BY <1>1, <1>4 DEF ShownInv, ResetInv, NotLoading
<1> QED
  BY <1>2, <1>3, <1>5, <1>6 DEF PhoneInv

LEMMA DeleteStepKeeps == ASSUME PhoneInv, DeleteStep, members' = members PROVE PhoneInv'
<1>1. /\ UNCHANGED <<keychainMark, loading, waiting, flow, drawn, install, made, saved>>
      /\ resetting # "none" /\ shown.status = "resetting" /\ loading.step = "none" /\ waiting = <<>> /\ flow = NoFlow
      /\ shown.error = "none"
  BY DEF DeleteStep, historyVars, PhoneInv, ResetInv, PhoneTypes
<1>2. LineInv' /\ FlowInv'
  BY <1>1, LineIdles
<1>3. CASE resetting = "registration" /\ registration' = Nothing /\ resetting' = "enrollment"
           /\ UNCHANGED <<identity, enrollment, sandboxMark, shown>>
  <2>1. PhoneTypes' /\ MarksInv' /\ StoreInv'
    BY <1>1, <1>3 DEF PhoneInv, PhoneTypes, MarksInv, Reinstalled, StoreInv, OfIdentity, Confirmed, StatusIn
  <2>2. ShownInv' /\ ResetInv'
    BY <1>1, <1>3 DEF ShownInv, ResetInv
  <2> QED
    BY <1>2, <2>1, <2>2 DEF PhoneInv
<1>4. CASE resetting = "enrollment" /\ enrollment' = Nothing /\ resetting' = "identity"
           /\ UNCHANGED <<identity, registration, sandboxMark, shown>>
  <2>1. registration = Nothing
    BY <1>4 DEF PhoneInv, ResetInv
  <2>2. PhoneTypes' /\ MarksInv' /\ StoreInv'
    BY <1>1, <1>4, <2>1 DEF PhoneInv, PhoneTypes, MarksInv, Reinstalled, StoreInv, OfIdentity, Confirmed, StatusIn
  <2>3. ShownInv' /\ ResetInv'
    BY <1>1, <1>4, <2>1 DEF ShownInv, ResetInv
  <2> QED
    BY <1>2, <2>2, <2>3 DEF PhoneInv
<1>5. CASE resetting = "identity" /\ identity' = Nothing /\ resetting' = "mark"
           /\ UNCHANGED <<registration, enrollment, sandboxMark, shown>>
  <2>1. registration = Nothing /\ enrollment = Nothing
    BY <1>5 DEF PhoneInv, ResetInv
  <2>2. PhoneTypes' /\ MarksInv' /\ StoreInv'
    BY <1>1, <1>5, <2>1 DEF PhoneInv, PhoneTypes, MarksInv, StoreInv, Confirmed, StatusIn
  <2>3. ShownInv' /\ ResetInv'
    BY <1>1, <1>5, <2>1 DEF ShownInv, ResetInv
  <2> QED
    BY <1>2, <2>2, <2>3 DEF PhoneInv
<1>6. CASE resetting = "mark" /\ sandboxMark' = TRUE /\ resetting' = "none"
           /\ shown' = StateFor(Nothing, Nothing, Nothing) /\ UNCHANGED secureVars
  <2>1. identity = Nothing /\ UNCHANGED <<identity, registration, enrollment>>
    BY <1>6 DEF PhoneInv, ResetInv, secureVars
  <2>2. /\ shown'.status = "absent" /\ shown'.error = "none"
        /\ shown' \in [status : Statuses, registration : RegistrationStatuses \cup {"none"},
                       enrollment : EnrollmentStatuses \cup {"none"}, error : Errors]
    BY <1>6, StateShows
  <2>3. PhoneTypes' /\ MarksInv' /\ StoreInv'
    BY <1>1, <1>6, <2>1, <2>2 DEF PhoneInv, PhoneTypes, MarksInv, StoreInv, OfIdentity, Confirmed, StatusIn
  <2>4. ShownInv' /\ ResetInv'
    BY <1>1, <1>6, <2>1, <2>2 DEF ShownInv, ResetInv
  <2> QED
    BY <1>2, <2>3, <2>4 DEF PhoneInv
<1> QED
  BY <1>3, <1>4, <1>5, <1>6 DEF DeleteStep

LEMMA DeleteFailsKeeps == ASSUME PhoneInv, DeleteFails, members' = members PROVE PhoneInv'
<1>1. /\ UNCHANGED <<identity, registration, enrollment, markVars, loading, waiting, flow, drawn, install, made, saved>>
      /\ resetting' = "none" /\ loading.step = "none" /\ waiting = <<>> /\ flow = NoFlow
      /\ \E error \in DeleteErrors : shown' = Failed(error)
  BY DEF DeleteFails, secureVars, historyVars, PhoneInv, ResetInv
<1>2. LineInv' /\ FlowInv'
  BY <1>1, LineIdles
<1> PICK error \in DeleteErrors : shown' = Failed(error)
  BY <1>1
<1>6. error \in Errors
  BY DEF DeleteErrors, Errors
<1>3. MarksInv' /\ StoreInv' /\ ResetInv'
  BY <1>1 DEF PhoneInv, MarksInv, markVars, Reinstalled, StoreInv, OfIdentity, Confirmed, StatusIn, ResetInv
<1>4. PhoneTypes'
  BY <1>1, <1>6, FailedShows DEF PhoneInv, PhoneTypes, markVars
<1>5. ShownInv'
  BY <1>1 DEF ShownInv, Failed
<1> QED
  BY <1>2, <1>3, <1>4, <1>5 DEF PhoneInv

LEMMA AppStartsKeeps ==
  ASSUME PhoneInv, AppStarts, members' = members,
         \/ UNCHANGED <<sandboxMark, install>>
         \/ sandboxMark' = FALSE /\ install < MaxInstalls /\ install' = install + 1
  PROVE  PhoneInv'
<1>1. /\ UNCHANGED <<identity, registration, enrollment, keychainMark, drawn, made, saved>>
      /\ resetting' = "none" /\ waiting' = <<>> /\ flow' = NoFlow
      /\ shown' = Loading /\ loading' = [NotLoading EXCEPT !.step = "identity"]
  BY DEF AppStarts, secureVars
<1>2. LineInv' /\ FlowInv'
  BY <1>1, LineIdles
<1>3. install \in Nat /\ install' \in 0..MaxInstalls
  BY BoundsAssumption DEF PhoneInv, PhoneTypes
<1>4. MarksInv'
  <2>1. CASE UNCHANGED <<sandboxMark, install>>
    BY <1>1, <2>1 DEF PhoneInv, MarksInv, Reinstalled
  <2>2. CASE sandboxMark' = FALSE /\ install' = install + 1
    <3> SUFFICES ASSUME identity' # Nothing
                 PROVE  keychainMark' /\ identity'.install <= install' /\ (Reinstalled' <=> identity'.install # install')
      BY DEF MarksInv
    <3>1. keychainMark /\ identity \in Identities /\ identity.install <= install
      BY <1>1 DEF PhoneInv, PhoneTypes, MarksInv
    <3>2. identity.install \in 0..MaxInstalls
      BY <3>1 DEF Identities
    <3>3. identity.install <= install + 1 /\ identity.install # install + 1
      BY <1>3, <3>1, <3>2, BoundsAssumption
    <3> QED
      BY <1>1, <2>2, <3>1, <3>3 DEF Reinstalled
  <2> QED
    BY <2>1, <2>2
<1>5. StoreInv' /\ ResetInv'
  BY <1>1 DEF PhoneInv, StoreInv, ResetInv, OfIdentity, Confirmed, StatusIn
<1>6. PhoneTypes'
  BY <1>1, <1>3 DEF PhoneInv, PhoneTypes, Loading, NotLoading, Statuses, Errors
<1>7. ShownInv'
  BY <1>1 DEF ShownInv, Loading, NotLoading
<1> QED
  BY <1>2, <1>4, <1>5, <1>6, <1>7 DEF PhoneInv

-----------------------------------------------------------------------------
(* Who joins the line.                                                     *)

\* An operation that joins the line changes nothing else.
LEMMA JoiningKeeps ==
  ASSUME PhoneInv, LineInv', shown.status \in {"unregistered", "enrolling"}, members' = members,
         UNCHANGED <<secureVars, markVars, shown, loading, resetting, flow, historyVars>>
  PROVE  PhoneInv'
<1>1. resetting = "none"
  BY DEF PhoneInv, ResetInv
<1>2. UNCHANGED <<identity, registration, enrollment, drawn, install, made, saved>>
  BY DEF secureVars, historyVars
<1>3. PhoneTypes' /\ MarksInv' /\ StoreInv'
  BY <1>2 DEF PhoneInv, PhoneTypes, MarksInv, markVars, Reinstalled, StoreInv, OfIdentity, Confirmed, StatusIn
<1>4. FlowInv' /\ ResetInv'
  BY <1>1, <1>2 DEF PhoneInv, FlowInv, ResetInv, OfIdentity, StatusIn,
                    RegisterFlow, CheckRegistrationFlow, EnrollFlow, SubmittedFlow
<1>5. ShownInv'
  BY <1>2 DEF PhoneInv, ShownInv, Confirmed, StatusIn
<1> QED
  BY <1>3, <1>4, <1>5 DEF PhoneInv

LEMMA PollKeeps == ASSUME PhoneInv, Poll, members' = members PROVE PhoneInv'
<1>1. /\ UNCHANGED <<secureVars, markVars, shown, loading, resetting, flow, historyVars>>
      /\ \A op \in Checks : op \notin Hand(waiting, flow.op)
  BY DEF Poll, Checking, InHand, Hand
<1>2. StatusIn(registration)' = StatusIn(registration) /\ StatusIn(enrollment)' = StatusIn(enrollment)
  BY <1>1 DEF StatusIn, secureVars
<1>3. CASE /\ shown.status = "unregistered" /\ shown.registration \in {"pending", "submitted"}
           /\ waiting' = Append(waiting, "checkRegistration")
  <2>1. LineFits("register", "checkRegistration", "unregistered", OpenRecords,
                 waiting, flow.op, "unregistered", shown.registration, StatusIn(registration))
    BY <1>3, Sides DEF Registering
  <2>2. shown.registration \in OpenRecords /\ shown.registration # "confirmed" /\ "checkRegistration" \notin Hand(waiting, flow.op)
    BY <1>1, <1>3 DEF OpenRecords, Checks
  <2>3. LineFits("register", "checkRegistration", "unregistered", OpenRecords,
                 Append(waiting, "checkRegistration"), flow.op, "unregistered", shown.registration, StatusIn(registration))
    BY <2>1, <2>2, Pairs, LineJoined
  <2>4. Registering'
    BY <1>1, <1>2, <1>3, <2>3 DEF Registering
  <2> QED
    BY <1>1, <1>3, <2>4, JoiningKeeps DEF LineInv
<1>4. CASE /\ shown.status = "enrolling" /\ shown.enrollment = "submitted"
           /\ waiting' = Append(waiting, "checkEnrollment")
  <2>1. LineFits("enroll", "checkEnrollment", "enrolling", SentRecords,
                 waiting, flow.op, "enrolling", shown.enrollment, StatusIn(enrollment))
    BY <1>4, Sides DEF Enrolling
  <2>2. shown.enrollment \in SentRecords /\ shown.enrollment # "confirmed" /\ "checkEnrollment" \notin Hand(waiting, flow.op)
    BY <1>1, <1>4 DEF SentRecords, Checks
  <2>3. LineFits("enroll", "checkEnrollment", "enrolling", SentRecords,
                 Append(waiting, "checkEnrollment"), flow.op, "enrolling", shown.enrollment, StatusIn(enrollment))
    BY <2>1, <2>2, Pairs, LineJoined
  <2>4. Enrolling'
    BY <1>1, <1>2, <1>4, <2>3 DEF Enrolling
  <2> QED
    BY <1>1, <1>4, <2>4, JoiningKeeps DEF LineInv
<1> QED
  BY <1>3, <1>4 DEF Poll

LEMMA TryAgainKeeps == ASSUME PhoneInv, TryAgain, members' = members PROVE PhoneInv'
<1>1. /\ UNCHANGED <<secureVars, markVars, shown, loading, resetting, flow, historyVars>>
      /\ \A op \in UserFlows : op \notin Hand(waiting, flow.op)
  BY DEF TryAgain, Busy, InHand, Hand
<1>2. StatusIn(registration)' = StatusIn(registration) /\ StatusIn(enrollment)' = StatusIn(enrollment)
  BY <1>1 DEF StatusIn, secureVars
<1>3. CASE /\ shown.status = "unregistered" /\ shown.registration \in {"none", "failed", "pending"}
           /\ waiting' = Append(waiting, "register")
  <2>1. LineFits("register", "checkRegistration", "unregistered", OpenRecords,
                 waiting, flow.op, "unregistered", shown.registration, StatusIn(registration))
    BY <1>3, Sides DEF Registering
  <2>2. shown.registration # "confirmed" /\ "register" \notin Hand(waiting, flow.op)
    BY <1>1, <1>3 DEF UserFlows
  <2>3. LineFits("register", "checkRegistration", "unregistered", OpenRecords,
                 Append(waiting, "register"), flow.op, "unregistered", shown.registration, StatusIn(registration))
    BY <2>1, <2>2, Pairs, LineJoined
  <2>4. Registering'
    BY <1>1, <1>2, <1>3, <2>3 DEF Registering
  <2> QED
    BY <1>1, <1>3, <2>4, JoiningKeeps DEF LineInv
<1>4. CASE /\ shown.status = "enrolling" /\ shown.enrollment \in {"none", "failed"}
           /\ waiting' = Append(waiting, "enroll")
  <2>1. LineFits("enroll", "checkEnrollment", "enrolling", SentRecords,
                 waiting, flow.op, "enrolling", shown.enrollment, StatusIn(enrollment))
    BY <1>4, Sides DEF Enrolling
  <2>2. shown.enrollment # "confirmed" /\ "enroll" \notin Hand(waiting, flow.op)
    BY <1>1, <1>4 DEF UserFlows
  <2>3. LineFits("enroll", "checkEnrollment", "enrolling", SentRecords,
                 Append(waiting, "enroll"), flow.op, "enrolling", shown.enrollment, StatusIn(enrollment))
    BY <2>1, <2>2, Pairs, LineJoined
  <2>4. Enrolling'
    BY <1>1, <1>2, <1>4, <2>3 DEF Enrolling
  <2> QED
    BY <1>1, <1>4, <2>4, JoiningKeeps DEF LineInv
<1> QED
  BY <1>3, <1>4 DEF TryAgain

-----------------------------------------------------------------------------
(* The registry and the API.                                               *)

\* What they do: a request is posted, one is handled, an account changes and its keys are remembered.
MembersGrow == \A o \in Owners : members[o] \subseteq members'[o]
ServiceKept == ServiceTypes' /\ MembersKept' /\ MembersGrow

LEMMA RowKeeps ==
  ASSUME ServiceTypes, MembersKept, NEW i \in Intents, NEW state \in RowStates, SetRow(i, state), MembersGrow,
         state \in {"mined", "confirmed"} => i.key \in members'[i.owner]
  PROVE  /\ DOMAIN rows' \subseteq Intents /\ \A j \in DOMAIN rows' : rows'[j] \in RowStates
         /\ \A j \in DOMAIN rows' : rows'[j] \in {"mined", "confirmed"} => j.key \in members'[j.owner]
<1>1. DOMAIN rows \subseteq Intents /\ \A j \in DOMAIN rows : rows[j] \in RowStates
  BY DEF ServiceTypes
<1>2. DOMAIN rows' = DOMAIN rows \cup {i} /\ \A j \in DOMAIN rows' : rows'[j] = IF j = i THEN state ELSE rows[j]
  BY DEF SetRow
<1>3. \A j \in DOMAIN rows : j.owner \in Owners
  BY <1>1 DEF Intents
<1> QED
  BY <1>1, <1>2, <1>3 DEF MembersKept, MembersGrow

LEMMA NothingMoves == ASSUME ServiceTypes, MembersKept, UNCHANGED serviceVars PROVE ServiceKept
  BY DEF serviceVars, ServiceTypes, MembersKept, ServiceKept, MembersGrow

LEMMA PostMoves ==
  ASSUME ServiceTypes, MembersKept, NEW i \in Intents, Post(i),
         UNCHANGED <<time, accounts, holder, rows, members>>
  PROVE  ServiceKept
<1>1. posted' \subseteq Intents
  BY DEF Post, ServiceTypes
<1> QED
  BY <1>1 DEF ServiceTypes, MembersKept, ServiceKept, MembersGrow

LEMMA HandleMoves == ASSUME ServiceTypes, MembersKept, NEW i \in posted, Handle(i) PROVE ServiceKept
<1>1. UNCHANGED <<time, accounts, members>> /\ posted' \subseteq Intents /\ i \in Intents /\ MembersGrow
  BY DEF Handle, ServiceTypes, MembersGrow
<1>2. CASE UNCHANGED rows
  BY <1>1, <1>2 DEF ServiceTypes, MembersKept, ServiceKept
<1>3. CASE SetRow(i, "ready")
  <2>1. /\ DOMAIN rows' \subseteq Intents /\ \A j \in DOMAIN rows' : rows'[j] \in RowStates
        /\ \A j \in DOMAIN rows' : rows'[j] \in {"mined", "confirmed"} => j.key \in members'[j.owner]
    BY <1>1, <1>3, RowKeeps DEF RowStates
  <2> QED
    BY <1>1, <2>1 DEF ServiceTypes, MembersKept, ServiceKept
<1> QED
  BY <1>2, <1>3 DEF Handle

LEMMA MineMoves == ASSUME ServiceTypes, MembersKept, NEW i \in DOMAIN rows, Mine(i) PROVE ServiceKept
<1>1. /\ i \in Intents /\ i.owner \in Owners /\ i.key \in Keys
      /\ time' = time /\ posted' = posted /\ SetRow(i, "mined")
      /\ members' = [members EXCEPT ![i.owner] = @ \cup {i.key}]
      /\ accounts' = [accounts EXCEPT ![i.owner].live = TRUE, ![i.owner].keys = @ \cup {i.key},
                        ![i.owner].nonce = IF i.kind = "add" THEN @ + 1 ELSE @]
  BY DEF Mine, ServiceTypes, Intents
<1>2. /\ members' \in [Owners -> SUBSET Keys] /\ MembersGrow
      /\ members'[i.owner] = members[i.owner] \cup {i.key}
  BY <1>1 DEF ServiceTypes, MembersGrow
<1>3. /\ accounts' \in [Owners -> [live : BOOLEAN, keys : SUBSET Keys, removed : SUBSET Keys, others : Nat, nonce : Nat]]
      /\ \A o \in Owners : accounts'[o].keys \subseteq members'[o]
  <2> DEFINE a == accounts[i.owner]
             b == [a EXCEPT !.live = TRUE, !.keys = @ \cup {i.key}, !.nonce = IF i.kind = "add" THEN @ + 1 ELSE @]
  <2>1. a \in [live : BOOLEAN, keys : SUBSET Keys, removed : SUBSET Keys, others : Nat, nonce : Nat]
    BY <1>1 DEF ServiceTypes
  <2>2. a.nonce + 1 \in Nat /\ a.keys \cup {i.key} \in SUBSET Keys
    BY <1>1, <2>1
  <2>3. b \in [live : BOOLEAN, keys : SUBSET Keys, removed : SUBSET Keys, others : Nat, nonce : Nat]
    BY <2>1, <2>2
  <2>4. b.keys = accounts[i.owner].keys \cup {i.key}
    BY <2>1
  <2>5. accounts' = [accounts EXCEPT ![i.owner] = b]
    BY <1>1
  <2> HIDE DEF b
  <2>6. \A o \in Owners : accounts'[o] = IF o = i.owner THEN b ELSE accounts[o]
    BY <2>5 DEF ServiceTypes
  <2>7. accounts' \in [Owners -> [live : BOOLEAN, keys : SUBSET Keys, removed : SUBSET Keys, others : Nat, nonce : Nat]]
    BY <2>3, <2>5 DEF ServiceTypes
  <2>8. ASSUME NEW o \in Owners PROVE accounts'[o].keys \subseteq members'[o]
    <3>1. accounts[o].keys \subseteq members[o] /\ members[o] \subseteq members'[o]
      BY <1>2 DEF MembersKept, MembersGrow
    <3> QED
      BY <1>2, <2>4, <2>6, <3>1
  <2> QED
    BY <2>7, <2>8
<1>4. /\ DOMAIN rows' \subseteq Intents /\ \A j \in DOMAIN rows' : rows'[j] \in RowStates
      /\ \A j \in DOMAIN rows' : rows'[j] \in {"mined", "confirmed"} => j.key \in members'[j.owner]
  BY <1>1, <1>2, RowKeeps DEF RowStates
<1> QED
  BY <1>1, <1>2, <1>3, <1>4 DEF ServiceTypes, MembersKept, ServiceKept

\* The API learns something of an intent that was not executed.
LEMMA RowMoves ==
  ASSUME ServiceTypes, MembersKept, NEW i \in DOMAIN rows, NEW state \in RowStates, SetRow(i, state),
         state \in {"mined", "confirmed"} => RowIs(i, "mined"), UNCHANGED <<time, accounts, holder, posted, members>>
  PROVE  ServiceKept
<1>1. i \in Intents /\ MembersGrow /\ (state \in {"mined", "confirmed"} => i.key \in members'[i.owner])
  BY DEF ServiceTypes, MembersGrow, MembersKept, RowIs
<1>2. /\ DOMAIN rows' \subseteq Intents /\ \A j \in DOMAIN rows' : rows'[j] \in RowStates
      /\ \A j \in DOMAIN rows' : rows'[j] \in {"mined", "confirmed"} => j.key \in members'[j.owner]
  BY <1>1, RowKeeps
<1> QED
  BY <1>1, <1>2 DEF ServiceTypes, MembersKept, ServiceKept

LEMMA SubmitMoves ==
  ASSUME ServiceTypes, MembersKept, NEW i \in DOMAIN rows, Submit(i) \/ Settle(i) \/ Reverted(i)
  PROVE  ServiceKept
<1>1. /\ UNCHANGED <<time, accounts, holder, posted, members>>
      /\ \/ SetRow(i, "submitted") \/ SetRow(i, "dead")
         \/ SetRow(i, "confirmed") /\ RowIs(i, "mined")
  BY DEF Submit, Settle, Reverted
<1>2. {"submitted", "dead", "confirmed"} \subseteq RowStates
  BY DEF RowStates
<1>3. CASE SetRow(i, "submitted")
  BY <1>1, <1>2, <1>3, RowMoves
<1>4. CASE SetRow(i, "dead")
  BY <1>1, <1>2, <1>4, RowMoves
<1>5. CASE SetRow(i, "confirmed") /\ RowIs(i, "mined")
  BY <1>1, <1>2, <1>5, RowMoves
<1> QED
  BY <1>1, <1>3, <1>4, <1>5

\* An account that changes otherwise gains no key of this phone.
LEMMA AccountMoves ==
  ASSUME ServiceTypes, MembersKept, NEW o \in Owners, UNCHANGED <<time, posted, rows, members>>,
         NEW account \in [live : BOOLEAN, keys : SUBSET Keys, removed : SUBSET Keys, others : Nat, nonce : Nat],
         account.keys \subseteq accounts[o].keys, accounts' = [accounts EXCEPT ![o] = account]
  PROVE  ServiceKept
<1>1. \A p \in Owners : accounts'[p] = IF p = o THEN account ELSE accounts[p]
  BY DEF ServiceTypes
<1>2. /\ accounts' \in [Owners -> [live : BOOLEAN, keys : SUBSET Keys, removed : SUBSET Keys, others : Nat, nonce : Nat]]
      /\ \A p \in Owners : accounts'[p].keys \subseteq members'[p]
  BY <1>1 DEF ServiceTypes, MembersKept
<1> QED
  BY <1>2 DEF ServiceTypes, MembersKept, ServiceKept, MembersGrow

LEMMA OthersMove == ASSUME ServiceTypes, MembersKept, NEW o \in Owners, OthersAct(o) PROVE ServiceKept
<1> DEFINE Account == [live : BOOLEAN, keys : SUBSET Keys, removed : SUBSET Keys, others : Nat, nonce : Nat]
           a == accounts[o]
<1>1. a \in Account /\ UNCHANGED <<time, posted, rows, members>>
  BY DEF OthersAct, ServiceTypes
<1>2. ASSUME NEW k \in a.keys,
             accounts' = [accounts EXCEPT ![o].keys = @ \ {k}, ![o].removed = @ \cup {k}, ![o].nonce = @ + 1]
      PROVE  ServiceKept
  <2> DEFINE b == [a EXCEPT !.keys = @ \ {k}, !.removed = @ \cup {k}, !.nonce = @ + 1]
  <2>1. a.keys \ {k} \in SUBSET Keys /\ a.removed \cup {k} \in SUBSET Keys /\ a.nonce + 1 \in Nat
    BY <1>1
  <2>2. b \in Account /\ b.keys \subseteq a.keys
    BY <1>1, <2>1
  <2>3. accounts' = [accounts EXCEPT ![o] = b]
    BY <1>2
  <2> HIDE DEF b
  <2> QED
    BY <1>1, <2>2, <2>3, AccountMoves
<1>3. ASSUME accounts' = [accounts EXCEPT ![o].others = @ + 1, ![o].nonce = @ + 1] PROVE ServiceKept
  <2> DEFINE b == [a EXCEPT !.others = @ + 1, !.nonce = @ + 1]
  <2>1. a.others + 1 \in Nat /\ a.nonce + 1 \in Nat
    BY <1>1
  <2>2. b \in Account /\ b.keys \subseteq a.keys
    BY <1>1, <2>1
  <2>3. accounts' = [accounts EXCEPT ![o] = b]
    BY <1>3
  <2> HIDE DEF b
  <2> QED
    BY <1>1, <2>2, <2>3, AccountMoves
<1> QED
  BY <1>2, <1>3 DEF OthersAct

LEMMA OwnerMoves == ASSUME ServiceTypes, MembersKept, OwnerRecovered PROVE ServiceKept
<1> DEFINE b == [accounts[0] EXCEPT !.live = FALSE]
<1>1. 0 \in Owners /\ UNCHANGED <<time, posted, rows, members>>
  BY OnboardAssumption DEF OwnerRecovered, Owners
<1>2. /\ b \in [live : BOOLEAN, keys : SUBSET Keys, removed : SUBSET Keys, others : Nat, nonce : Nat]
      /\ b.keys \subseteq accounts[0].keys
  BY <1>1 DEF ServiceTypes
<1>3. accounts' = [accounts EXCEPT ![0] = b]
  BY DEF OwnerRecovered
<1> HIDE DEF b
<1> QED
  BY <1>1, <1>2, <1>3, AccountMoves

LEMMA ServiceStepMoves == ASSUME ServiceTypes, MembersKept, ServiceStep PROVE ServiceKept
<1>1. CASE Tick
  BY <1>1, OnboardAssumption DEF Tick, ServiceTypes, MembersKept, ServiceKept, MembersGrow
<1> QED
  BY <1>1, HandleMoves, MineMoves, SubmitMoves, OthersMove DEF ServiceStep

\* What an operation asks of the API.
LEMMA OnboardingMoves ==
  ASSUME ServiceTypes, MembersKept, PhoneInv, OnboardingStep \/ ReadFails \/ BeginFails \/ AnswerUnsaved
  PROVE  ServiceKept
<1>1. CASE RegisterBegin
  <2>1. CASE NoPost
    BY <2>1, NothingMoves DEF NoPost
  <2>2. CASE ~NoPost
    <3>1. /\ RegisterIntent.deadline < MaxTime /\ Loaded(registration)
          /\ Post(RegisterIntent) \/ UNCHANGED posted
          /\ UNCHANGED <<time, accounts, holder, rows, members>>
      BY <1>1, <2>2 DEF RegisterBegin
    <3> QED
      BY <3>1, RegisterIntentFits, PostMoves, NothingMoves DEF serviceVars
  <2> QED
    BY <2>1, <2>2
<1>2. CASE EnrollDated
  <2>1. CASE NoPost
    BY <2>1, NothingMoves DEF NoPost
  <2>2. CASE ~NoPost
    <3> DEFINE i == [flow.intent EXCEPT !.deadline = time + Validity]
    <3>1. Post(i) /\ UNCHANGED <<time, accounts, holder, rows, members>>
      BY <1>2, <2>2 DEF EnrollDated
    <3>2. flow.intent \in Intents
      BY <1>2, InFlight DEF EnrollDated, NoFlow
    <3>3. time + Validity \in 0..MaxTime
      BY <1>2, OnboardAssumption DEF EnrollDated, ServiceTypes
    <3>4. i \in Intents
      BY <3>2, <3>3 DEF Intents
    <3> HIDE DEF i
    <3> QED
      BY <3>1, <3>4, PostMoves
  <2> QED
    BY <2>1, <2>2
<1>3. CASE Missing
  <2>1. flow.intent \in Intents
    BY <1>3, InFlight DEF Missing, CheckingAt, At, NoFlow
  <2>2. NoPost \/ (Post(flow.intent) /\ UNCHANGED <<time, accounts, holder, rows, members>>)
    BY <1>3 DEF Missing
  <2> QED
    BY <2>1, <2>2, NothingMoves, PostMoves DEF NoPost
<1>4. CASE RegisterAnswered \/ EnrollAnswered \/ AnswerUnsaved
  <2>1. flow.intent \in posted /\ Handle(flow.intent)
    BY <1>4 DEF RegisterAnswered, EnrollAnswered, AnswerUnsaved, Handle
  <2> QED
    BY <2>1, HandleMoves
<1>5. CASE UNCHANGED serviceVars
  BY <1>5, NothingMoves
<1> QED
  BY <1>1, <1>2, <1>3, <1>4, <1>5
  DEF OnboardingStep, RegisterUnanswered, RegisterUninvited, CheckRegistrationBegin, LookupOwner, LookupHandle, AskRegistration,
      EnrollBegin, LookupAccount, EnrollUnanswered, CheckEnrollmentBegin, ReadRoster, AskEnrollment, Landed,
      ReadFails, Unreachable, BeginFails

\* What the registry does disturbs nothing of the phone: a roster once seen is remembered.
LEMMA PhoneRests ==
  ASSUME PhoneInv, MembersGrow, UNCHANGED vaultVars PROVE PhoneInv'
<1>1. UNCHANGED <<identity, registration, enrollment, markVars, shown, loading, resetting, waiting, flow, drawn, install, made, saved>>
  BY DEF vaultVars, secureVars, historyVars
<1>2. identity # Nothing => identity.owner \in Owners
  BY DEF PhoneInv, PhoneTypes, Identities
<1>3. PhoneTypes' /\ MarksInv'
  BY <1>1 DEF PhoneInv, PhoneTypes, MarksInv, markVars, Reinstalled
<1>4. StatusIn(registration)' = StatusIn(registration) /\ StatusIn(enrollment)' = StatusIn(enrollment) /\ Confirmed' = Confirmed
  BY <1>1 DEF StatusIn, Confirmed
<1>5. Confirmed => identity # Nothing
  BY DEF PhoneInv, StoreInv, Confirmed, StatusIn
<1>6. StoreInv'
  BY <1>1, <1>2, <1>4, <1>5 DEF PhoneInv, StoreInv, MembersGrow, OfIdentity
<1>7. FlowInv'
  BY <1>1, <1>2, <1>4 DEF PhoneInv, FlowInv, OfIdentity, MembersGrow, RegisterFlow, CheckRegistrationFlow, EnrollFlow, SubmittedFlow
<1>8. LineInv'
  BY <1>1, <1>4 DEF PhoneInv, LineInv, Registering, Enrolling
<1>9. ShownInv' /\ ResetInv'
  BY <1>1, <1>4 DEF PhoneInv, ShownInv, ResetInv
<1> QED
  BY <1>3, <1>6, <1>7, <1>8, <1>9 DEF PhoneInv

-----------------------------------------------------------------------------
(* The invariant, and what it says of the phone.                           *)

LEMMA IdentityBegins == ASSUME Init PROVE IdentityInv
<1>1. /\ time = 0 /\ posted = {} /\ rows = [i \in {} |-> "dead"] /\ members = [o \in Owners |-> {}]
      /\ accounts = [o \in Owners |-> [live |-> o = 0, keys |-> {}, removed |-> {}, others |-> IF o = 0 THEN 1 ELSE 0, nonce |-> 0]]
  BY DEF Init, ServiceInit
<1>2. ServiceTypes /\ MembersKept
  BY <1>1, OnboardAssumption DEF ServiceTypes, MembersKept
<1>3. /\ identity = Nothing /\ registration = Nothing /\ enrollment = Nothing /\ keychainMark = FALSE /\ sandboxMark = FALSE
      /\ shown = Loading /\ loading = [NotLoading EXCEPT !.step = "identity"] /\ resetting = "none"
      /\ waiting = <<>> /\ flow = NoFlow /\ drawn = 0 /\ install = 0 /\ made = 0 /\ saved = {0}
  BY DEF Init, VaultInit
<1>4. PhoneTypes
  <2>1. drawn \in Nat /\ made \in 0..MaxIdentities /\ install \in 0..MaxInstalls /\ saved \subseteq Owners
    BY <1>3, OnboardAssumption, BoundsAssumption DEF Owners
  <2>2. /\ shown \in [status : Statuses, registration : RegistrationStatuses \cup {"none"},
                     enrollment : EnrollmentStatuses \cup {"none"}, error : Errors]
        /\ shown.error = "none" /\ loading \in [step : {"none", "identity", "records"}, backedUp : BOOLEAN]
    BY <1>3 DEF Loading, NotLoading, Statuses, Errors
  <2> QED
    BY <1>3, <2>1, <2>2 DEF PhoneTypes
<1>5. MarksInv /\ StoreInv /\ FlowInv /\ ResetInv
  BY <1>3 DEF MarksInv, StoreInv, FlowInv, ResetInv, Confirmed, StatusIn
<1>6. LineInv
  BY <1>3, AnEmptyLine DEF LineInv, NoFlow
<1>7. ShownInv
  BY <1>3 DEF ShownInv, Loading, NotLoading
<1> QED
  BY <1>2, <1>4, <1>5, <1>6, <1>7 DEF IdentityInv, PhoneInv

LEMMA VaultStepKeeps == ASSUME PhoneInv, VaultStep, members' = members PROVE PhoneInv'
  BY HydrateIdentityKeeps, HydrateRecordsKeeps, RetryLoadKeeps, CreateKeeps, RestoreKeeps, SetBackupStateKeeps,
     ResetBeginKeeps, DeleteStepKeeps, PollKeeps, TryAgainKeeps
  DEF VaultStep

LEMMA IdentityGoesOn == ASSUME IdentityInv, [Next]_vars PROVE IdentityInv'
<1>1. ServiceTypes /\ MembersKept /\ PhoneInv
  BY DEF IdentityInv
<1>2. CASE ServiceStep /\ UNCHANGED <<vaultVars, mishaps>>
  <2>1. ServiceKept
    BY <1>1, <1>2, ServiceStepMoves
  <2> QED
    BY <1>1, <1>2, <2>1, PhoneRests DEF IdentityInv, ServiceKept
<1>3. CASE VaultStep /\ UNCHANGED <<serviceVars, mishaps>>
  <2>1. ServiceKept /\ members' = members
    BY <1>1, <1>3, NothingMoves DEF serviceVars
  <2> QED
    BY <1>1, <1>3, <2>1, VaultStepKeeps DEF IdentityInv, ServiceKept
<1>4. CASE OnboardingStep
  <2>1. ServiceKept
    BY <1>1, <1>4, OnboardingMoves
  <2> QED
    BY <1>1, <1>4, <2>1, OnboardingKeeps DEF IdentityInv, ServiceKept
<1>5. CASE Mishap
  <2>1. CASE (OwnerRecovered \/ HandleGoes) /\ UNCHANGED vaultVars
    <3>1. HandleGoes => ServiceKept
      BY <1>1 DEF HandleGoes, ServiceTypes, MembersKept, ServiceKept, MembersGrow
    <3>2. ServiceKept
      BY <1>1, <2>1, <3>1, OwnerMoves
    <3> QED
      BY <1>1, <2>1, <3>2, PhoneRests DEF IdentityInv, ServiceKept
  <2>2. CASE (HydrateFails \/ WriteFails \/ DeleteFails \/ Kill \/ Reinstall) /\ UNCHANGED serviceVars
    <3>1. ServiceKept /\ members' = members
      BY <1>1, <2>2, NothingMoves DEF serviceVars
    <3>2. PhoneInv'
      BY <1>1, <2>2, <3>1, HydrateFailsKeeps, WriteFailsKeeps, DeleteFailsKeeps, AppStartsKeeps DEF Kill, Reinstall
    <3> QED
      BY <3>1, <3>2 DEF IdentityInv, ServiceKept
  <2>3. CASE ReadFails \/ BeginFails \/ AnswerUnsaved
    <3>1. ServiceKept
      BY <1>1, <2>3, OnboardingMoves
    <3> QED
      BY <1>1, <2>3, <3>1, FailuresKeep DEF IdentityInv, ServiceKept
  <2> QED
    BY <1>5, <2>1, <2>2, <2>3 DEF Mishap
<1>6. CASE UNCHANGED vars
  <2>1. ServiceKept
    BY <1>1, <1>6, NothingMoves DEF vars
  <2> QED
    BY <1>1, <1>6, <2>1, PhoneRests DEF IdentityInv, ServiceKept, vars
<1> QED
  BY <1>2, <1>3, <1>4, <1>5, <1>6 DEF Next

(* The phone's store, its screens, the line for the permit and a reset in  *)
(* progress agree at every moment.                                         *)
THEOREM IdentityInvariant == Spec => []IdentityInv
  BY IdentityBegins, IdentityGoesOn, PTL DEF Spec

\* Who stands in a line is an operation of the phone.
LEMMA LineIsTyped == ASSUME LineInv PROVE waiting \in Seq(UserFlows \cup Checks) /\ flow.op \in UserFlows \cup Checks \cup {"none"}
<1>1. ASSUME NEW u \in UserFlows \cup Checks, NEW c \in UserFlows \cup Checks, LineOf(u, c, waiting, flow.op)
      PROVE  waiting \in Seq(UserFlows \cup Checks) /\ flow.op \in UserFlows \cup Checks \cup {"none"}
  <2> DEFINE S == UserFlows \cup Checks
  <2>1. /\ <<>> \in Seq(S) /\ <<u>> \in Seq(S) /\ <<c>> \in Seq(S) /\ <<u, c>> \in Seq(S) /\ <<c, u>> \in Seq(S)
    OBVIOUS
  <2> HIDE DEF S
  <2> QED
    BY <1>1, <2>1 DEF LineOf, S
<1> QED
  BY <1>1 DEF LineInv, Registering, Enrolling, LineFits, UserFlows, Checks

LEMMA IdentityFacts ==
  ASSUME IdentityInv PROVE TypeOK /\ RecordsFitIdentity /\ ReadyWasMember /\ MarkersTellInstall
<1>1. TypeOK
  BY LineIsTyped DEF IdentityInv, ServiceTypes, PhoneInv, PhoneTypes, TypeOK, VaultTypeOK, Statuses
<1>2. RecordsFitIdentity
  BY DEF IdentityInv, PhoneInv, StoreInv, OfIdentity, RecordsFitIdentity
<1>3. ReadyWasMember
  BY DEF IdentityInv, PhoneInv, StoreInv, ShownInv, ReadyWasMember
<1>4. MarkersTellInstall
  BY DEF IdentityInv, PhoneInv, MarksInv, MarkersTellInstall
<1> QED
  BY <1>1, <1>2, <1>3, <1>4

\* What the phone keeps and shows is of its kind, and so are the API's intents.
THEOREM IdentityTypes == Spec => []TypeOK
  BY IdentityInvariant, IdentityFacts, PTL

(* A record never outlives the identity it was made for, nor is one written *)
(* for an identity that is gone: resetIdentity deletes the records first    *)
(* and begins only when no operation has the permit.                        *)
THEOREM RecordsAreItsOwn == Spec => []RecordsFitIdentity
  BY IdentityInvariant, IdentityFacts, PTL

(* The identity store shows an account only after the roster was seen to    *)
(* name this phone's key, or the API confirmed the registration that does.  *)
THEOREM ReadyIsMember == Spec => []ReadyWasMember
  BY IdentityInvariant, IdentityFacts, PTL

(* readInstallState locks the identity of an earlier install of the app and *)
(* never that of this one, wherever the writes of its markers were cut off. *)
THEOREM MarkersAreRight == Spec => []MarkersTellInstall
  BY IdentityInvariant, IdentityFacts, PTL
=============================================================================
