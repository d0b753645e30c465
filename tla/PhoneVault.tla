----------------------------- MODULE PhoneVault -----------------------------
(***************************************************************************)
(* What a phone keeps of its identity and what its screens show of it: the *)
(* vault (identity-vault-core.ts), the records of a registration and of an *)
(* enrollment, the marks that tell a reinstalled app, and the identity     *)
(* store (identity-store-core.ts) the screens read.                        *)
(*                                                                         *)
(* A registration and an enrollment hold their own permit: `waiting` are   *)
(* the operations that ask for it and `flow` is the one that has it.  The  *)
(* two never have work at the same time, as they belong to other states of *)
(* the store.                                                              *)
(***************************************************************************)
EXTENDS OnboardService, Sequences

CONSTANTS MaxInstalls, MaxDrawn,   \* bounds: times the app is installed again, random nonces drawn
          Nothing         \* no identity, no record

VARIABLES identity, registration, enrollment,   \* the secure store, which outlives the app
          keychainMark, sandboxMark,            \* the install markers: the second one goes with the app
          shown,                                \* the identity store, and what the steps show ahead of it
          loading,                              \* hydrate in flight
          resetting,                            \* how far resetIdentity is
          waiting, flow,                        \* operations asked for, operation running
          drawn, install, made, saved, steppedBack   \* history, see below

secureVars  == <<identity, registration, enrollment>>
markVars    == <<keychainMark, sandboxMark>>
\* Random nonces drawn, installs, identities made, owners whose recovery key the
\* user has, owners given up at the code step.
historyVars == <<drawn, install, made, saved, steppedBack>>
vaultVars   == <<secureVars, markVars, shown, loading, resetting, waiting, flow, historyVars>>

Identities == [owner : Owners, key : Keys, backedUp : BOOLEAN, install : 0..MaxInstalls]
Records(S) == [intent : Intents, status : S]
RegistrationStatuses == {"pending", "submitted", "confirmed", "failed"}
\* final is a failure that cannot be retried: OWNER_CHANGED, REMOVED.
EnrollmentStatuses   == {"submitted", "confirmed", "failed", "final"}

UserFlows == {"register", "enroll"}
Checks    == {"checkRegistration", "checkEnrollment"}
NoFlow    == [op |-> "none", step |-> "none", intent |-> Nothing]
NotLoading == [step |-> "none", backedUp |-> FALSE]

VaultTypeOK ==
    /\ identity \in Identities \cup {Nothing}
    /\ registration \in Records(RegistrationStatuses) \cup {Nothing}
    /\ enrollment \in Records(EnrollmentStatuses) \cup {Nothing}
    /\ {keychainMark, sandboxMark} \subseteq BOOLEAN
    /\ shown.status \in {"loading", "absent", "unregistered", "enrolling", "backup", "ready", "resetting", "error"}
    /\ waiting \in Seq(UserFlows \cup Checks)
    /\ flow.op \in UserFlows \cup Checks \cup {"none"}

\* Nothing is neither an identity nor a record.
ASSUME NothingAssumption ==
    Nothing \notin Identities \cup Records(RegistrationStatuses \cup EnrollmentStatuses)

-----------------------------------------------------------------------------
(* What is shown.                                                          *)

StatusIn(record) == IF record = Nothing THEN "none" ELSE record.status

\* stateForIdentity.
StateFor(id, reg, enr) ==
    [status |-> IF id = Nothing THEN "absent"
                ELSE IF "confirmed" \notin {StatusIn(reg), StatusIn(enr)}
                THEN IF enr # Nothing \/ id.backedUp THEN "enrolling" ELSE "unregistered"
                ELSE IF id.backedUp THEN "ready" ELSE "backup",
     registration |-> StatusIn(reg), enrollment |-> StatusIn(enr), error |-> "none"]
Failed(error) == [status |-> "error", registration |-> "none", enrollment |-> "none", error |-> error]
Loading       == [status |-> "loading", registration |-> "none", enrollment |-> "none", error |-> "none"]

InHand    == {waiting[n] : n \in DOMAIN waiting} \cup {flow.op}
Busy      == UserFlows \cap InHand # {}
Checking  == Checks \cap InHand # {}

VaultInit ==
    /\ identity = Nothing /\ registration = Nothing /\ enrollment = Nothing
    /\ keychainMark = FALSE /\ sandboxMark = FALSE
    /\ shown = Loading
    /\ loading = [NotLoading EXCEPT !.step = "identity"]
    /\ resetting = "none"
    /\ waiting = <<>> /\ flow = NoFlow
    /\ drawn = 0 /\ install = 0 /\ made = 0 /\ saved = {0} /\ steppedBack = {}

-----------------------------------------------------------------------------
(* readInstallState and loadStoredLocalIdentity.                           *)

\* The keychain remembers an install whose sandbox is gone.
Reinstalled == keychainMark /\ ~sandboxMark
Stale       == Reinstalled /\ identity # Nothing

MutMarksAfterLoad == keychainMark' = TRUE /\ sandboxMark' = (sandboxMark \/ ~keychainMark)
MarksAfterLoad ==
    /\ keychainMark' = TRUE
    /\ sandboxMark' = (sandboxMark \/ ~keychainMark \/ identity = Nothing)

\* The stored records are checked against the identity they were made for.
Fits(record) == record # Nothing => record.intent.owner = identity.owner

Loaded(record) == identity # Nothing /\ ~Stale /\ Fits(record)

-----------------------------------------------------------------------------
(* hydrate: the identity first, then the records.                          *)

HydrateIdentity ==
    /\ loading.step = "identity"
    /\ \/ Stale /\ shown' = Failed("stale-install") /\ loading' = NotLoading /\ UNCHANGED markVars
       \/ ~Stale /\ MarksAfterLoad
          /\ IF identity = Nothing
             THEN shown' = StateFor(Nothing, Nothing, Nothing) /\ loading' = NotLoading
             ELSE loading' = [step |-> "records", backedUp |-> identity.backedUp] /\ UNCHANGED shown
    /\ UNCHANGED <<secureVars, resetting, waiting, flow, historyVars>>
HydrateFails ==
    /\ loading.step # "none" /\ loading' = NotLoading /\ shown' = Failed("read")
    /\ UNCHANGED <<secureVars, markVars, resetting, waiting, flow, historyVars>>
HydrateRecords ==
    /\ loading.step = "records" /\ loading' = NotLoading
    /\ shown' = IF Fits(registration) /\ Fits(enrollment)
                THEN StateFor([identity EXCEPT !.backedUp = loading.backedUp], registration, enrollment)
                ELSE Failed("decode")
    /\ UNCHANGED <<secureVars, markVars, resetting, waiting, flow, historyVars>>
\* "Try again" on the vault's error screen.
RetryLoad ==
    /\ shown.status = "error" /\ loading.step = "none"
    /\ loading' = [NotLoading EXCEPT !.step = "identity"]
    /\ UNCHANGED <<secureVars, markVars, shown, resetting, waiting, flow, historyVars>>

-----------------------------------------------------------------------------
(* writeIdentity, for createIdentity and restoreIdentity.                  *)

MayWrite == shown.status = "absent" /\ resetting = "none" /\ ~Busy /\ made < MaxIdentities

WriteIdentity(new, next) ==
    /\ MayWrite
    /\ loading' = NotLoading
    /\ MarksAfterLoad
    /\ IF identity = Nothing
       THEN /\ identity' = new /\ made' = made + 1
            /\ shown' = StateFor(new, Nothing, Nothing)
            /\ waiting' = Append(waiting, next)
       ELSE shown' = Failed("already-exists") /\ UNCHANGED <<identity, made, waiting>>
    /\ UNCHANGED <<registration, enrollment, resetting, flow, drawn, install, saved, steppedBack>>

WriteFails ==
    /\ MayWrite
    /\ loading' = NotLoading /\ shown' = Failed("write")
    /\ UNCHANGED <<secureVars, markVars, resetting, waiting, flow, historyVars>>

NewIdentity(owner, backedUp) == [owner |-> owner, key |-> made + 1, backedUp |-> backedUp, install |-> install]
Create == WriteIdentity(NewIdentity(made + 1, FALSE), "register")
\* findRecoveryAccount found the account of a recovery key the user has.
Restore(o) ==
    /\ o \in saved /\ accounts[o].live /\ ~Full(o)
    /\ WriteIdentity(NewIdentity(o, TRUE), "enroll")

\* setBackupState: the key is saved, or the user skips it; from the profile it is saved later.
SetBackupState(copied) ==
    /\ shown.status = "backup" \/ (shown.status = "ready" /\ copied /\ identity.owner \notin saved)
    /\ resetting = "none" /\ identity # Nothing
    /\ identity' = [identity EXCEPT !.backedUp = TRUE]
    /\ saved' = IF copied THEN saved \cup {identity.owner} ELSE saved
    /\ shown' = [shown EXCEPT !.status = "ready"]
    /\ UNCHANGED <<registration, enrollment, markVars, loading, resetting, waiting, flow, drawn, install, made, steppedBack>>

-----------------------------------------------------------------------------
(* resetIdentity: the identity goes last.                                  *)

\* A pending submission may still land, so that step keeps the identity.
MayStepBack    == shown.status = "unregistered" /\ ~Busy /\ shown.registration \in {"none", "failed"}
MutMayStartOver == shown.status = "enrolling" /\ ~Busy
MayStartOver   == shown.status = "enrolling" /\ ~Busy /\ shown.enrollment \in {"none", "failed", "final"}
MayReset       == shown.status = "ready" \/ shown.error \in {"decode", "delete", "stale-install"}

\* An operation whose turn has come reads its record at once: nobody gets to a reset before it.
Prompt == flow = NoFlow => waiting = <<>>

ResetBegin ==
    /\ resetting = "none" /\ Prompt /\ (MayStepBack \/ MayStartOver \/ MayReset)
    /\ resetting' = "registration" /\ loading' = NotLoading
    /\ shown' = [shown EXCEPT !.status = "resetting", !.error = "none"]
    /\ steppedBack' = IF MayStepBack THEN steppedBack \cup {identity.owner} ELSE steppedBack
    /\ UNCHANGED <<secureVars, markVars, waiting, flow, drawn, install, made, saved>>

DeleteStep ==
    /\ \/ resetting = "registration" /\ registration' = Nothing /\ resetting' = "enrollment"
          /\ UNCHANGED <<identity, enrollment, sandboxMark, shown>>
       \/ resetting = "enrollment" /\ enrollment' = Nothing /\ resetting' = "identity"
          /\ UNCHANGED <<identity, registration, sandboxMark, shown>>
       \/ resetting = "identity" /\ identity' = Nothing /\ resetting' = "mark"
          /\ UNCHANGED <<registration, enrollment, sandboxMark, shown>>
       \/ resetting = "mark" /\ sandboxMark' = TRUE /\ resetting' = "none"
          /\ shown' = StateFor(Nothing, Nothing, Nothing) /\ UNCHANGED secureVars
    /\ UNCHANGED <<keychainMark, loading, waiting, flow, historyVars>>
\* deleteLocalIdentity asks for the secure store first and writes the sandbox mark last; only a `delete`
\* can be reset again at once.
DeleteErrors == CASE resetting = "identity" -> {"delete", "availability"}
                  [] resetting = "mark"     -> {"install-state"}
                  [] OTHER                  -> {"delete"}
DeleteFails ==
    /\ resetting # "none" /\ resetting' = "none"
    /\ \E error \in DeleteErrors : shown' = Failed(error)
    /\ UNCHANGED <<secureVars, markVars, loading, waiting, flow, historyVars>>

-----------------------------------------------------------------------------
(* The app is killed, or deleted and installed again.                      *)

AppStarts ==
    /\ shown' = Loading /\ loading' = [NotLoading EXCEPT !.step = "identity"]
    /\ resetting' = "none" /\ waiting' = <<>> /\ flow' = NoFlow
    /\ UNCHANGED <<secureVars, keychainMark, drawn, made, saved, steppedBack>>
Kill == AppStarts /\ UNCHANGED <<sandboxMark, install>>
\* The sandbox goes with the app; the keychain stays.
Reinstall ==
    /\ install < MaxInstalls /\ install' = install + 1
    /\ sandboxMark' = FALSE /\ AppStarts

-----------------------------------------------------------------------------
(* The operations' permit, and what their results show.                    *)

\* The intervals of the two steps; one check at a time.
Poll ==
    /\ ~Checking
    /\ \/ /\ shown.status = "unregistered" /\ shown.registration \in {"pending", "submitted"}
          /\ waiting' = Append(waiting, "checkRegistration")
       \/ /\ shown.status = "enrolling" /\ shown.enrollment = "submitted"
          /\ waiting' = Append(waiting, "checkEnrollment")
    /\ UNCHANGED <<secureVars, markVars, shown, loading, resetting, flow, historyVars>>
\* The user tries again: another code, the same enrollment.
TryAgain ==
    /\ ~Busy
    /\ \/ /\ shown.status = "unregistered" /\ shown.registration \in {"none", "failed", "pending"}
          /\ waiting' = Append(waiting, "register")
       \/ /\ shown.status = "enrolling" /\ shown.enrollment \in {"none", "failed"}
          /\ waiting' = Append(waiting, "enroll")
    /\ UNCHANGED <<secureVars, markVars, shown, loading, resetting, flow, historyVars>>

\* accept: the result is shown, and a confirmed one has the store read everything again.
Accept(field, status) ==
    /\ shown' = IF shown.status \in {"unregistered", "enrolling"} THEN [shown EXCEPT ![field] = status] ELSE shown
    /\ loading' = IF status = "confirmed" /\ resetting = "none"
                  THEN [NotLoading EXCEPT !.step = "identity"] ELSE loading
\* An operation takes the permit.
Permit(op) == flow = NoFlow /\ waiting # <<>> /\ op = Head(waiting) /\ waiting' = Tail(waiting)
Goto(op, step, intent) == flow' = [op |-> op, step |-> step, intent |-> intent]
Done == flow' = NoFlow
=============================================================================
