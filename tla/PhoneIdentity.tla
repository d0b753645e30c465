--------------------------- MODULE PhoneIdentity ----------------------------
(***************************************************************************)
(* A phone from its first start to an account: it makes or restores an     *)
(* identity, registers a handle or joins an account, is told by others,    *)
(* killed, reset, installed again, next to the API and the registry.       *)
(* The phone's clock is the chain's.                                       *)
(***************************************************************************)
EXTENDS PhoneOnboarding

CONSTANT MaxMishaps   \* bound: what goes wrong, from outside or in the phone
ASSUME BoundsAssumption == {MaxInstalls, MaxDrawn, MaxMishaps} \subseteq Nat

VARIABLE mishaps

vars == <<serviceVars, vaultVars, mishaps>>

Init == ServiceInit /\ VaultInit /\ mishaps = 0

ServiceStep ==
    \/ (\E i \in posted : Handle(i)) \/ (\E i \in DOMAIN rows : Submit(i) \/ Mine(i) \/ Settle(i) \/ Reverted(i))
    \/ (\E o \in Owners : OthersAct(o)) \/ Tick
VaultStep ==
    \/ HydrateIdentity \/ HydrateRecords \/ RetryLoad
    \/ Create \/ (\E o \in Owners : Restore(o)) \/ (\E copied \in BOOLEAN : SetBackupState(copied))
    \/ ResetBegin \/ DeleteStep \/ Poll \/ TryAgain
Mishap ==
    \/ (OwnerRecovered \/ HandleGoes) /\ UNCHANGED vaultVars
    \/ (HydrateFails \/ WriteFails \/ DeleteFails \/ Kill \/ Reinstall) /\ UNCHANGED serviceVars
    \/ ReadFails \/ BeginFails \/ AnswerUnsaved

Next ==
    \/ ServiceStep /\ UNCHANGED <<vaultVars, mishaps>>
    \/ VaultStep /\ UNCHANGED <<serviceVars, mishaps>>
    \/ OnboardingStep /\ UNCHANGED mishaps
    \/ Mishap /\ mishaps < MaxMishaps /\ mishaps' = mishaps + 1

\* The app runs its timers and its requests, the API looks at an intent it is asked for, time passes.
\* Nothing makes the chain include a transaction.
Fairness ==
    /\ WF_vars((Poll \/ HydrateIdentity \/ HydrateRecords) /\ UNCHANGED <<serviceVars, mishaps>>)
    /\ WF_vars(OnboardingStep /\ UNCHANGED mishaps)
    /\ WF_rows(\E i \in DOMAIN rows : Settle(i))
    /\ WF_time(Tick)

Spec == Init /\ [][Next]_vars /\ Fairness

-----------------------------------------------------------------------------
TypeOK == VaultTypeOK /\ DOMAIN rows \subseteq Intents /\ \A i \in DOMAIN rows : rows[i] \in RowStates

(* A stored record was made for the stored identity, key and all: no       *)
(* operation in flight, crash or half-finished reset leaves one that the   *)
(* next identity of the same owner would take for its own.                 *)
RecordsFitIdentity ==
    identity # Nothing => \A record \in {registration, enrollment} \ {Nothing} :
                              <<record.intent.owner, record.intent.key>> = <<identity.owner, identity.key>>

(* A phone that shows its account has been on the account's roster.        *)
ReadyWasMember == shown.status \in {"backup", "ready"} => identity.key \in members[identity.owner]

(* The install markers tell whose identity it is: one of an earlier install *)
(* is locked, and one of this install never is.                            *)
MarkersTellInstall == identity # Nothing => (Reinstalled <=> identity.install # install)

(* Whoever waits for the registry is told: what was submitted is confirmed *)
(* or fails, whatever of it was lost.  The one wait without an end is that *)
(* for the receipt of an addition the relayer has sent                     *)
(* (local-enrollment-core.ts:347-375, device-action/enrollment.ts:293-318),*)
(* or may still send: the last moment of the model does not pass.          *)
Waits == \/ shown.status = "unregistered" /\ shown.registration \in {"pending", "submitted"}
         \/ shown.status = "enrolling" /\ shown.enrollment = "submitted"
AwaitsReceipt ==
    /\ shown.status = "enrolling" /\ shown.enrollment = "submitted"
    /\ enrollment # Nothing
    /\ RowIs(enrollment.intent, "submitted") \/ (RowIs(enrollment.intent, "ready") /\ time <= enrollment.intent.deadline)
WaitingEnds == []<>~Waits \/ <>[]AwaitsReceipt

(* A pending submission may still land on the registry, so the step keeps  *)
(* its identity (invite-step.tsx:370): who steps back gives up no account. *)
SteppedBackForGood == \A o \in steppedBack : ~accounts[o].live
=============================================================================
