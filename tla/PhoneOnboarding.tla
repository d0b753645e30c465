-------------------------- MODULE PhoneOnboarding ---------------------------
(***************************************************************************)
(* How a phone registers a handle (local-registration-core.ts) and how it  *)
(* adds itself to the account of a recovery key (local-enrollment-core.ts).*)
(* Every wait for the registry or the API is a step of its own; a record   *)
(* is written in the step that decides what it says.  A request is posted  *)
(* in the step that saves its record: a phone killed in between is one     *)
(* whose request never arrives.                                            *)
(***************************************************************************)
EXTENDS PhoneVault

Post(i) == posted' = posted \cup {i}
NoPost == UNCHANGED serviceVars
Rest == <<identity, markVars, resetting, historyVars>>

\* An operation ends with a result, or with an error that shows nothing new.
SaveRegistration(i, status) ==
    /\ registration' = [intent |-> i, status |-> status]
    /\ Accept("registration", status) /\ Done
SaveEnrollment(i, status) ==
    /\ enrollment' = [intent |-> i, status |-> status]
    /\ Accept("enrollment", status) /\ Done
Return(field, status) == Accept(field, status) /\ Done /\ UNCHANGED <<registration, enrollment>>
Error == Done /\ UNCHANGED <<registration, enrollment, shown, loading>>

-----------------------------------------------------------------------------
(* startLocalRegistration.                                                 *)

At(op, step) == flow.op = op /\ flow.step = step
OpenRegistration == registration # Nothing /\ registration.status = "pending"

\* A lost request is sent again as it was: same nonce, same deadline, same digest.
RegisterIntent ==
    IF OpenRegistration THEN registration.intent
    ELSE [kind |-> "register", owner |-> identity.owner, key |-> identity.key, id |-> drawn, deadline |-> time + Validity]

RegisterBegin ==
    /\ Permit("register")
    /\ IF ~Loaded(registration) THEN Error /\ NoPost
       ELSE IF StatusIn(registration) \in {"submitted", "confirmed"}
       THEN Return("registration", registration.status) /\ NoPost
       ELSE IF OpenRegistration /\ time >= registration.intent.deadline
       THEN /\ Goto("register", "owner", registration.intent)
            /\ UNCHANGED <<registration, enrollment, shown, loading>> /\ NoPost
       ELSE /\ RegisterIntent.deadline < MaxTime /\ (OpenRegistration \/ drawn < MaxDrawn)
            /\ registration' = [intent |-> RegisterIntent, status |-> "pending"]
            /\ \/ Post(RegisterIntent) /\ Goto("register", "sent", RegisterIntent)
               \/ UNCHANGED posted /\ Goto("register", "uninvited", RegisterIntent)
            /\ UNCHANGED <<enrollment, shown, loading, time, accounts, holder, rows, members>>
    /\ drawn' = IF Loaded(registration) /\ StatusIn(registration) \in {"none", "failed"} THEN drawn + 1 ELSE drawn
    /\ UNCHANGED <<identity, markVars, resetting, install, made, saved, steppedBack>>

\* The answer: taken, or refused (4xx).
RegisterAnswered ==
    /\ At("register", "sent")
    /\ SaveRegistration(flow.intent, IF Verdict(flow.intent) = "refused" THEN "failed" ELSE "submitted")
    /\ Handle(flow.intent)
    /\ UNCHANGED <<enrollment, Rest, waiting>>
\* A code that admits nobody: refused, unless the API knows the intent.  The API is as it was, whenever
\* such a request arrives.
RegisterUninvited ==
    /\ At("register", "uninvited")
    /\ SaveRegistration(flow.intent, IF StatusOf(flow.intent) \in {"missing", "dead"} THEN "failed" ELSE "submitted")
    /\ UNCHANGED <<enrollment, serviceVars, Rest, waiting>>
\* No answer, or one of the API's own failures: the request may be stored or not.
RegisterUnanswered ==
    /\ At("register", "sent") \/ At("register", "uninvited")
    /\ Return("registration", "pending")
    /\ UNCHANGED <<serviceVars, Rest, waiting>>

-----------------------------------------------------------------------------
(* checkLocalRegistration and reconcileRegistration.                       *)

Reconciling(step) == flow.op \in {"register", "checkRegistration"} /\ flow.step = step
Unreachable == Error /\ UNCHANGED <<serviceVars, Rest, waiting>>

CheckRegistrationBegin ==
    /\ Permit("checkRegistration")
    /\ IF registration = Nothing \/ ~Loaded(registration) THEN Error
       ELSE IF registration.status \in {"submitted", "pending"}
       THEN Goto("checkRegistration", "owner", registration.intent) /\ UNCHANGED <<registration, enrollment, shown, loading>>
       ELSE Return("registration", registration.status)
    /\ UNCHANGED <<serviceVars, Rest>>

\* lookupOwner.
LookupOwner ==
    /\ Reconciling("owner")
    /\ IF accounts[flow.intent.owner].live
       THEN /\ SaveRegistration(flow.intent, IF flow.intent.key \in accounts[flow.intent.owner].keys
                                             THEN "confirmed" ELSE "failed")
            /\ UNCHANGED enrollment
       ELSE Goto(flow.op, "handle", flow.intent) /\ UNCHANGED <<registration, enrollment, shown, loading>>
    /\ UNCHANGED <<serviceVars, Rest, waiting>>
\* lookupHandle, then the phone's clock.
LookupHandle ==
    /\ Reconciling("handle")
    /\ IF holder \notin {NoOne, flow.intent.owner}
       THEN SaveRegistration(flow.intent, "failed") /\ UNCHANGED enrollment
       ELSE IF time < flow.intent.deadline
       THEN Return("registration", registration.status)
       ELSE Goto(flow.op, "ask", flow.intent) /\ UNCHANGED <<registration, enrollment, shown, loading>>
    /\ UNCHANGED <<serviceVars, Rest, waiting>>
\* getRegistration: 404 after the deadline is a failure.
VerdictOn(status) ==
    CASE status \in {"missing", "dead"} -> "failed" [] status = "confirmed" -> "confirmed" [] OTHER -> "submitted"
AskRegistration ==
    /\ Reconciling("ask")
    /\ SaveRegistration(flow.intent, VerdictOn(StatusOf(flow.intent)))
    /\ UNCHANGED <<enrollment, serviceVars, Rest, waiting>>

-----------------------------------------------------------------------------
(* startLocalEnrollment and submit.                                        *)

MutActive(i) == accounts[i.owner].live
Active(i) == accounts[i.owner].live /\ i.key \in accounts[i.owner].keys

EnrollBegin ==
    /\ Permit("enroll")
    /\ IF ~Loaded(enrollment) THEN Error
       ELSE IF StatusIn(enrollment) \in {"submitted", "confirmed"} THEN Return("enrollment", enrollment.status)
       ELSE /\ Goto("enroll", "account", [kind |-> "add", owner |-> identity.owner, key |-> identity.key,
                                         id |-> 0, deadline |-> 0])
            /\ UNCHANGED <<registration, enrollment, shown, loading>>
    /\ UNCHANGED <<serviceVars, Rest>>
\* lookupOwner: the nonce and the roster, as they are now.
LookupAccount ==
    /\ At("enroll", "account")
    /\ IF ~accounts[flow.intent.owner].live THEN Error
       ELSE /\ Goto("enroll", IF Active(flow.intent) THEN "member" ELSE IF Full(flow.intent.owner) THEN "full" ELSE "room",
                    [flow.intent EXCEPT !.id = accounts[flow.intent.owner].nonce])
            /\ UNCHANGED <<registration, enrollment, shown, loading>>
    /\ UNCHANGED <<serviceVars, Rest, waiting>>
\* chainTime, then the record is saved before its request; an earlier attempt may have landed after all.
EnrollDated ==
    /\ flow.op = "enroll" /\ flow.step \in {"member", "full", "room"} /\ time + Validity <= MaxTime
    /\ LET i == [flow.intent EXCEPT !.deadline = time + Validity]
       IN  \/ flow.step = "member" /\ SaveEnrollment(i, "confirmed") /\ NoPost
           \/ flow.step = "full" /\ SaveEnrollment(i, "failed") /\ NoPost
           \/ /\ flow.step = "room"
              /\ enrollment' = [intent |-> i, status |-> "submitted"]
              /\ Post(i) /\ Goto("enroll", "sent", i)
              /\ UNCHANGED <<shown, loading, time, accounts, holder, rows, members>>
    /\ UNCHANGED <<registration, Rest, waiting>>

\* Only 422 counts; taken, in flight or unreachable: the roster decides.
EnrollAnswered ==
    /\ flow.op \in {"enroll", "checkEnrollment"} /\ flow.step = "sent"
    /\ IF Verdict(flow.intent) = "refused"
       THEN SaveEnrollment(flow.intent, "failed") /\ UNCHANGED registration
       ELSE Return("enrollment", "submitted")
    /\ Handle(flow.intent)
    /\ UNCHANGED <<Rest, waiting>>
EnrollUnanswered ==
    /\ flow.op \in {"enroll", "checkEnrollment"} /\ flow.step = "sent"
    /\ Return("enrollment", "submitted")
    /\ UNCHANGED <<serviceVars, Rest, waiting>>

-----------------------------------------------------------------------------
(* checkLocalEnrollment.                                                   *)

CheckEnrollmentBegin ==
    /\ Permit("checkEnrollment")
    /\ IF enrollment = Nothing \/ ~Loaded(enrollment) THEN Error
       ELSE IF enrollment.status = "submitted"
       THEN Goto("checkEnrollment", "roster", enrollment.intent) /\ UNCHANGED <<registration, enrollment, shown, loading>>
       ELSE Return("enrollment", enrollment.status)
    /\ UNCHANGED <<serviceVars, Rest>>

CheckingAt(step) == At("checkEnrollment", step) /\ UNCHANGED <<registration, Rest, waiting>>
Proceed(step) == Goto("checkEnrollment", step, flow.intent) /\ UNCHANGED <<enrollment, shown, loading>>
Keep == Accept("enrollment", "submitted") /\ Done /\ UNCHANGED enrollment

ReadRoster ==
    /\ CheckingAt("roster")
    /\ IF ~accounts[flow.intent.owner].live THEN SaveEnrollment(flow.intent, "final")
       ELSE IF Active(flow.intent) THEN SaveEnrollment(flow.intent, "confirmed")
       ELSE Proceed("ask")
    /\ UNCHANGED serviceVars
AskEnrollment ==
    /\ CheckingAt("ask")
    /\ LET status == StatusOf(flow.intent)
       IN  CASE status = "dead"      -> SaveEnrollment(flow.intent, "failed")
             [] status = "confirmed" -> Proceed("landed")
             [] status = "missing"   -> Proceed("missing")
             [] OTHER                -> Keep
    /\ UNCHANGED serviceVars
\* It landed and the key is not there: removed, unless the roster read lags; so once it has lapsed, read again.
Landed ==
    /\ CheckingAt("landed")
    /\ IF time < flow.intent.deadline THEN Keep
       ELSE SaveEnrollment(flow.intent, IF Active(flow.intent) THEN "confirmed" ELSE "final")
    /\ UNCHANGED serviceVars
MutMissing ==
    /\ CheckingAt("missing")
    /\ Post(flow.intent) /\ Proceed("sent") /\ UNCHANGED <<time, accounts, holder, rows, members>>
\* The API never saw it: sent again while it can land.
Missing ==
    /\ CheckingAt("missing")
    /\ IF time < flow.intent.deadline
       THEN Post(flow.intent) /\ Proceed("sent") /\ UNCHANGED <<time, accounts, holder, rows, members>>
       ELSE SaveEnrollment(flow.intent, "failed") /\ NoPost
-----------------------------------------------------------------------------
(* A read or a write fails: the operation ends and shows nothing new.      *)

ReadFails ==
    /\ flow.step \in {"uninvited", "owner", "handle", "ask", "account", "member", "full", "room", "roster", "landed", "missing"}
    /\ Unreachable
BeginFails ==
    /\ \E op \in UserFlows \cup Checks : Permit(op)
    /\ Error /\ UNCHANGED <<serviceVars, Rest>>
\* The API has answered and the answer cannot be written down.
AnswerUnsaved ==
    /\ flow.step = "sent"
    /\ Error /\ Handle(flow.intent)
    /\ UNCHANGED <<Rest, waiting>>

OnboardingStep ==
    \/ RegisterBegin \/ RegisterAnswered \/ RegisterUninvited \/ RegisterUnanswered
    \/ CheckRegistrationBegin \/ LookupOwner \/ LookupHandle \/ AskRegistration
    \/ EnrollBegin \/ LookupAccount \/ EnrollDated \/ EnrollAnswered \/ EnrollUnanswered
    \/ CheckEnrollmentBegin \/ ReadRoster \/ AskEnrollment \/ Landed \/ Missing
=============================================================================
