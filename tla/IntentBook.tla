------------------------------ MODULE IntentBook ------------------------------
(***************************************************************************)
(* What the API promises to whoever asks about an intent, whichever        *)
(* process answers: an intent is open until it is answered for good,       *)
(* `confirmed` of what was executed and `over` of what never will be; of   *)
(* intents that exclude each other one is open at a time; an admission     *)
(* code is claimed by one registration and free again when that is over.   *)
(* No requests, relayer, nonces, transactions or confirmed block.          *)
(***************************************************************************)
CONSTANTS Registrations, Actions, Codes, NoIntent,
          Rivals  \* for each intent, those it excludes

Intents == Registrations \cup Actions

VARIABLES
  answer,    \* what is said of each intent
  outcome,   \* what became of it on the chain
  claimedBy  \* the registration each code is claimed by

bookVars == <<answer, outcome, claimedBy>>

Init ==
  /\ answer = [i \in Intents |-> "none"]
  /\ outcome = [i \in Intents |-> "none"]
  /\ claimedBy = [c \in Codes |-> NoIntent]

Open(i) ==
  /\ answer[i] = "none" /\ \A j \in Rivals[i] : answer[j] # "open"
  /\ answer' = [answer EXCEPT ![i] = "open"]
  /\ UNCHANGED outcome

OpenRegistration(i, c) ==
  /\ claimedBy[c] = NoIntent
  /\ claimedBy' = [claimedBy EXCEPT ![c] = i]
  /\ Open(i)

OpenAction(a) == Open(a) /\ UNCHANGED claimedBy

(* Nothing is executed twice, nor with success once it is over; of rival   *)
(* registrations one succeeds.                                             *)
Succeed(i) ==
  /\ answer[i] = "open" /\ outcome[i] = "none"
  /\ i \in Registrations => \A j \in Rivals[i] : outcome[j] # "ok"
  /\ outcome' = [outcome EXCEPT ![i] = "ok"]
  /\ UNCHANGED <<answer, claimedBy>>

Revert(i) ==
  /\ answer[i] \in {"open", "over"} /\ outcome[i] = "none"
  /\ outcome' = [outcome EXCEPT ![i] = "reverted"]
  /\ UNCHANGED <<answer, claimedBy>>

Confirm(i) ==
  /\ answer[i] = "open" /\ outcome[i] = "ok"
  /\ answer' = [answer EXCEPT ![i] = "confirmed"]
  /\ UNCHANGED <<outcome, claimedBy>>

Close(i) ==
  /\ answer[i] = "open" /\ outcome[i] # "ok"
  /\ answer' = [answer EXCEPT ![i] = "over"]
  /\ claimedBy' = [c \in Codes |-> IF claimedBy[c] = i THEN NoIntent ELSE claimedBy[c]]
  /\ UNCHANGED outcome

(* Requests, and most of what is done about them, change no answer.        *)
Ask == UNCHANGED bookVars

Next ==
  \/ Ask
  \/ \E i \in Registrations, c \in Codes : OpenRegistration(i, c)
  \/ \E a \in Actions : OpenAction(a)
  \/ \E i \in Intents : Succeed(i) \/ Revert(i) \/ Confirm(i) \/ Close(i)

Spec == Init /\ [][Next]_bookVars
=============================================================================
