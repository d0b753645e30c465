----------------------------- MODULE Enrollment -----------------------------
(***************************************************************************)
(* The API's submissions to the chain: registrations                       *)
(* (api/src/registration) and device actions (api/src/device-action), both *)
(* signed by one relayer key.  Requests run in several processes at one    *)
(* time; what they share is the database (intents, admission codes, the    *)
(* relayer's next nonce) and the chain.  Each of them may die, or fail, at *)
(* any of its steps, and nothing but another request goes on from there.   *)
(*                                                                         *)
(* The chain is the environment: `latest` is its head and `settled` the    *)
(* confirmed block the API reads at.  The device actions are those of one  *)
(* account that nobody else acts for, and owners are not rotated.          *)
(***************************************************************************)
EXTENDS Integers, FiniteSets

CONSTANTS Registrations, Actions,     \* the intents, by digest
          Handle, Owner,              \* of a registration
          AccountNonce,               \* of a device action
          Deadline,
          Codes, NoCode, NoIntent,
          Requests,                   \* requests that may run at one time
          MaxStored, MaxTime          \* bounds of the model

Intents == Registrations \cup Actions

ASSUME EnrollmentAssumption ==
    /\ IsFiniteSet(Intents) /\ Registrations \cap Actions = {} /\ NoIntent \notin Intents /\ NoCode \notin Codes
    /\ AccountNonce \in [Actions -> Nat] /\ Deadline \in [Intents -> Nat] /\ MaxStored \in Nat /\ MaxTime \in Nat
    /\ DOMAIN Handle = Registrations /\ DOMAIN Owner = Registrations

VARIABLES row,           \* the intents in the database
          claimedBy,     \* the intent an admission code is claimed by
          consumed,      \* codes that are used up
          nextNonce,     \* registrationRelayerState
          latest,        \* the chain's head: its time, and what became of each intent
          settled,       \* the same of the confirmed block
          known,         \* intents whose transaction the node has
          mined,         \* the relayer key's transactions on the chain
          requests

dbVars    == <<row, claimedBy, consumed, nextNonce>>
chainVars == <<latest, settled, known, mined>>
vars      == <<row, claimedBy, consumed, nextNonce, latest, settled, known, mined, requests>>

NoTx  == -1
NoRow == [status |-> "none", tx |-> NoTx, code |-> NoCode]
Idle  == [pc |-> "idle", intent |-> NoIntent, code |-> NoCode, seen |-> "none", failing |-> FALSE,
          blocked |-> NoIntent, tried |-> {}]

Active == {"ready", "submitted"}
Times  == 0..MaxTime
Blocks == [time : Times, result : [Intents -> {"none", "ok", "reverted"}]]

TypeOK ==
    /\ row \in [Intents -> [status : {"none", "ready", "submitted", "confirmed", "failed", "reverted", "expired"},
                            tx : Nat \cup {NoTx}, code : Codes \cup {NoCode}]]
    /\ \A i \in Intents : row[i].status = "submitted" => row[i].tx # NoTx
    /\ claimedBy \in [Codes -> Registrations \cup {NoIntent}]
    /\ consumed \subseteq Codes
    /\ \A c \in Codes : claimedBy[c] # NoIntent => row[claimedBy[c]].status \in Active \cup {"confirmed"}
    /\ nextNonce \in Nat /\ mined \in Nat
    /\ latest \in Blocks /\ settled \in Blocks
    /\ known \subseteq Intents
    /\ requests \in [Requests ->
         [pc : {"idle", "create", "check", "prepare", "broadcast", "receipt", "confirm", "fail", "revert", "expire"},
          intent : Intents \cup {NoIntent}, code : Codes \cup {NoCode}, seen : {"none"} \cup Active,
          failing : BOOLEAN, blocked : Intents \cup {NoIntent}, tried : SUBSET Intents]]

\* The relayer key may have been used before this database.
Init ==
    /\ row = [i \in Intents |-> NoRow]
    /\ claimedBy = [c \in Codes |-> NoIntent] /\ consumed = {}
    /\ nextNonce = 0
    /\ mined \in {0, 1}
    /\ latest = [time |-> 0, result |-> [i \in Intents |-> "none"]]
    /\ settled = latest
    /\ known = {}
    /\ requests = [q \in Requests |-> Idle]

(***************************************************************************)
(* The chain.                                                              *)
(***************************************************************************)
Ok(block, i) == block.result[i] = "ok"

\* The handle, or the owner, has an account.
Taken(block, i) ==
    \E j \in Registrations : Ok(block, j) /\ (Handle[j] = Handle[i] \/ Owner[j] = Owner[i])

NextAccountNonce(block) == Cardinality({a \in Actions : Ok(block, a)})

Executable(i) ==
    /\ latest.time <= Deadline[i]
    /\ i \in Registrations => ~Taken(latest, i)
    /\ i \in Actions => AccountNonce[i] = NextAccountNonce(latest)

\* A transaction is executed when it is the next of its key.
Execute(i) ==
    /\ i \in known /\ row[i].tx = mined
    /\ mined' = mined + 1
    /\ latest' = [latest EXCEPT !.result[i] = IF Executable(i) THEN "ok" ELSE "reverted"]
    /\ UNCHANGED <<dbVars, settled, known, requests>>

Tick ==
    /\ latest.time < MaxTime
    /\ latest' = [latest EXCEPT !.time = @ + 1]
    /\ UNCHANGED <<dbVars, settled, known, mined, requests>>

Settle ==
    /\ settled # latest
    /\ settled' = latest
    /\ UNCHANGED <<dbVars, latest, known, mined, requests>>

\* What the node may say is the relayer's next nonce, with the transactions it has not mined.
PendingNonces ==
    {n \in mined..(mined + Cardinality(known)) :
        \A m \in mined..(n - 1) : \E i \in known : row[i].tx = m}

(***************************************************************************)
(* A request, from one database or network call to the next.               *)
(***************************************************************************)
At(q, pc) == requests[q].pc = pc
Goes(q, pc) == requests' = [requests EXCEPT ![q].pc = pc]
End(q) == requests' = [requests EXCEPT ![q] = Idle]

\* A stored intent goes on from the status it was read with.
Resume(q, i, pc) == requests' = [requests EXCEPT ![q] = [@ EXCEPT !.pc = pc, !.intent = i, !.seen = row[i].status]]

\* POST /registrations: a replay of a stored intent, or the checks before a new one is stored.
Register(q, i, c) ==
    /\ At(q, "idle")
    /\ \/ row[i].status = "ready" /\ Resume(q, i, "check")
       \/ row[i].status = "submitted" /\ Resume(q, i, "broadcast")
       \/ /\ row[i].status = "none"
          /\ Deadline[i] > latest.time
          /\ claimedBy[c] = NoIntent
          /\ ~Ok(settled, i) /\ ~Taken(settled, i)
          /\ requests' = [requests EXCEPT ![q] = [Idle EXCEPT !.pc = "create", !.intent = i, !.code = c]]
    /\ UNCHANGED <<dbVars, chainVars>>

\* POST /device-actions.
SubmitAction(q, a) ==
    /\ At(q, "idle")
    /\ \/ row[a].status \in Active /\ Resume(q, a, "check")
       \/ /\ row[a].status = "none"
          /\ latest.time <= Deadline[a]
          /\ NextAccountNonce(settled) = AccountNonce[a]
          /\ requests' = [requests EXCEPT ![q] = [Idle EXCEPT !.pc = "create", !.intent = a]]
    /\ UNCHANGED <<dbVars, chainVars>>

\* GET of a digest: reconcile.
Reconcile(q, i) ==
    /\ At(q, "idle")
    /\ row[i].status \in Active
    /\ Resume(q, i, "check")
    /\ UNCHANGED <<dbVars, chainVars>>

\* The RPC or the database fails, or the process dies.
Drop(q) ==
    /\ ~At(q, "idle")
    /\ End(q)
    /\ UNCHANGED <<dbVars, chainVars>>

Insert(i, c) ==
    /\ Cardinality({j \in Intents : row[j].status # "none"}) < MaxStored
    /\ row' = [row EXCEPT ![i] = [NoRow EXCEPT !.status = "ready", !.code = c]]

\* The unique indexes on active intents.
Rivals ==
    [i \in Intents |->
       IF i \in Actions THEN Actions \ {i}
       ELSE {j \in Registrations \ {i} : Handle[j] = Handle[i] \/ Owner[j] = Owner[i]}]

Blockers(i) == {j \in Rivals[i] : row[j].status \in Active}

\* The intent in the way is reconciled, then the new one is stored again.
Unblock(q, j) ==
    requests' = [requests EXCEPT ![q].pc = "check", ![q].intent = j, ![q].seen = row[j].status,
                                 ![q].blocked = requests[q].intent, ![q].tried = @ \cup {j}]

MutCodeFree(i, c) == c \notin consumed
CodeFree(i, c) == c \notin consumed /\ claimedBy[c] \in {NoIntent, i}

CreateRegistration(q) ==
    LET i == requests[q].intent
        c == requests[q].code
        tried == requests[q].tried
    IN
    /\ At(q, "create") /\ i \in Registrations
    /\ \/ /\ row[i].status # "none"
          /\ \/ row[i].status = "ready" /\ Resume(q, i, "prepare")
             \/ row[i].status = "submitted" /\ Resume(q, i, "broadcast")
             \/ row[i].status \notin Active /\ End(q)
          /\ UNCHANGED <<row, claimedBy>>
       \/ /\ row[i].status = "none"
          /\ CodeFree(i, c) /\ Deadline[i] > latest.time
          /\ \/ /\ Blockers(i) = {}
                /\ Insert(i, c)
                /\ claimedBy' = [claimedBy EXCEPT ![c] = i]
                /\ requests' = [requests EXCEPT ![q].pc = "prepare", ![q].seen = "ready"]
             \/ /\ \E j \in Blockers(i) \ tried : Cardinality(tried) < 2 /\ Unblock(q, j)
                /\ UNCHANGED <<row, claimedBy>>
    /\ UNCHANGED <<consumed, nextNonce, chainVars>>

CreateAction(q) ==
    LET a == requests[q].intent IN
    /\ At(q, "create") /\ a \in Actions
    /\ \/ /\ row[a].status # "none"
          /\ IF row[a].status \in Active THEN Resume(q, a, "check") ELSE End(q)
          /\ UNCHANGED row
       \/ /\ row[a].status = "none" /\ Blockers(a) = {}
          /\ Insert(a, NoCode)
          /\ requests' = [requests EXCEPT ![q].pc = "check", ![q].seen = "ready"]
       \/ /\ row[a].status = "none" /\ requests[q].tried = {}
          /\ \E b \in Blockers(a) : Unblock(q, b)
          /\ UNCHANGED row
    /\ UNCHANGED <<claimedBy, consumed, nextNonce, chainVars>>

\* Once the blocker is done with, the new intent is stored again.
After(q) ==
    LET waiting == requests[q].blocked IN
    requests' = [requests EXCEPT ![q] =
        IF waiting = NoIntent THEN Idle
        ELSE [@ EXCEPT !.pc = "create", !.intent = waiting, !.blocked = NoIntent, !.seen = "none",
                       !.failing = FALSE]]

MutPassed(block, i) == block.time >= Deadline[i]
\* ExpiredIntent of the contract: at the deadline itself an intent is still executed.
Passed(block, i) == block.time > Deadline[i]

\* handleProbe: the handle, the owner and the registration nonce at the confirmed block.
CheckRegistration(q) ==
    LET i == requests[q].intent
        submitted == requests[q].seen = "submitted"
        lost == ~Ok(settled, i) /\ (Taken(settled, i) \/ Passed(settled, i))
    IN
    /\ At(q, "check") /\ i \in Registrations
    /\ requests' = [requests EXCEPT
         ![q].pc = IF Ok(settled, i) THEN "confirm"
                   ELSE IF submitted THEN "broadcast"
                   ELSE IF lost THEN "fail" ELSE "prepare",
         ![q].failing = lost /\ submitted]
    /\ UNCHANGED <<dbVars, chainVars>>

\* What the receipt of an action says, once it has its confirmations.
Receipt(q, a, otherwise) ==
    Goes(q, CASE settled.result[a] = "ok" -> "confirm"
              [] settled.result[a] = "reverted" -> "revert"
              [] OTHER -> otherwise)

\* reconcileActive of an action: its receipt, or its deadline at the head of the chain.
CheckAction(q) ==
    LET a == requests[q].intent IN
    /\ At(q, "check") /\ a \in Actions
    /\ IF requests[q].seen = "submitted" THEN Receipt(q, a, "broadcast")
       ELSE Goes(q, IF Passed(latest, a) THEN "expire" ELSE "prepare")
    /\ UNCHANGED <<dbVars, chainVars>>

MutTxNonce(pending) == pending
\* The next nonce of the database, unless the chain is ahead of it.
TxNonce(pending) == IF pending > nextNonce THEN pending ELSE nextNonce

\* prepareSubmission, under the lock of the relayer's row: the signed transaction is stored.
Prepare(q) ==
    LET i == requests[q].intent IN
    /\ At(q, "prepare")
    /\ \/ /\ row[i].status = "ready"
          /\ \E pending \in PendingNonces :
               /\ row' = [row EXCEPT ![i].status = "submitted", ![i].tx = TxNonce(pending)]
               /\ nextNonce' = TxNonce(pending) + 1
          /\ Goes(q, "broadcast")
       \/ /\ row[i].status = "submitted"
          /\ Goes(q, "broadcast")
          /\ UNCHANGED <<row, nextNonce>>
       \/ /\ row[i].status \notin Active
          /\ IF i \in Actions /\ row[i].status = "confirmed" THEN After(q) ELSE End(q)
          /\ UNCHANGED <<row, nextNonce>>
    /\ UNCHANGED <<claimedBy, consumed, chainVars>>

Broadcast(q) ==
    LET i == requests[q].intent IN
    /\ At(q, "broadcast")
    /\ known' = known \cup {i}
    /\ IF i \in Actions THEN Goes(q, "receipt")
       ELSE IF requests[q].failing THEN Goes(q, "fail") ELSE End(q)
    /\ UNCHANGED <<dbVars, latest, settled, mined>>

\* An action looks for its receipt again after the broadcast.
LookAgain(q) ==
    /\ At(q, "receipt")
    /\ \/ settled.result[requests[q].intent] = "none" /\ End(q)
       \/ settled.result[requests[q].intent] # "none" /\ Receipt(q, requests[q].intent, "idle")
    /\ UNCHANGED <<dbVars, chainVars>>

\* markConfirmed.  A registration that blocked another one and is confirmed goes on blocking it.
Confirm(q) ==
    LET i == requests[q].intent IN
    /\ At(q, "confirm")
    /\ IF row[i].status \in Active
       THEN /\ row' = [row EXCEPT ![i].status = "confirmed"]
            /\ consumed' = consumed \cup {c \in Codes : c = row[i].code /\ claimedBy[c] = i}
       ELSE UNCHANGED <<row, consumed>>
    /\ IF i \in Actions /\ row'[i].status = "confirmed" THEN After(q) ELSE End(q)
    /\ UNCHANGED <<claimedBy, nextNonce, chainVars>>

\* The code a registration claims, and has not used up, can be used again.
Freed(i) == [c \in Codes |-> IF claimedBy[c] = i /\ c \notin consumed THEN NoIntent ELSE claimedBy[c]]

\* markFailed.
Fail(q) ==
    LET i == requests[q].intent IN
    /\ At(q, "fail")
    /\ IF row[i].status \in Active
       THEN /\ row' = [row EXCEPT ![i].status = "failed"]
            /\ claimedBy' = Freed(i)
       ELSE UNCHANGED <<row, claimedBy>>
    /\ IF row'[i].status = "failed" THEN After(q) ELSE End(q)
    /\ UNCHANGED <<consumed, nextNonce, chainVars>>

\* markTerminal of an action, from the one status it may have.
Close(q, pc, from, to) ==
    LET a == requests[q].intent IN
    /\ At(q, pc)
    /\ IF row[a].status = from THEN row' = [row EXCEPT ![a].status = to] ELSE UNCHANGED row
    /\ IF row'[a].status = to THEN After(q) ELSE End(q)
    /\ UNCHANGED <<claimedBy, consumed, nextNonce, chainVars>>

Revert(q) == Close(q, "revert", "submitted", "reverted")
Expire(q) == Close(q, "expire", "ready", "expired")

RequestStep(q) ==
    \/ CreateRegistration(q) \/ CreateAction(q) \/ CheckRegistration(q) \/ CheckAction(q)
    \/ Prepare(q) \/ Broadcast(q) \/ LookAgain(q)
    \/ Confirm(q) \/ Fail(q) \/ Revert(q) \/ Expire(q)

Next ==
    \/ \E i \in Intents : Execute(i)
    \/ Tick \/ Settle
    \/ \E q \in Requests :
         \/ \E i \in Registrations, c \in Codes : Register(q, i, c)
         \/ \E a \in Actions : SubmitAction(q, a)
         \/ \E i \in Intents : Reconcile(q, i)
         \/ RequestStep(q) \/ Drop(q)

Spec == Init /\ [][Next]_vars

(***************************************************************************)
(* Properties.                                                             *)
(***************************************************************************)
Prepared == {i \in Intents : row[i].tx # NoTx}

\* Every transaction of the relayer has a nonce of its own, and none is left out between them,
\* whichever processes prepare them at a time (docs/research/cli-device-linking-plan.md:87
\* "Registration and device actions must share durable allocation of the relayer wallet's transaction
\* nonce, including across API processes").
NoncesAreShared ==
    /\ \A i, j \in Prepared : row[i].tx = row[j].tx => i = j
    /\ \A i \in Prepared, n \in 0..nextNonce :
          row[i].tx < n /\ n < nextNonce => \E j \in Prepared : row[j].tx = n

\* What the API calls final has happened, or can happen no more: clients give the handle, the code and
\* the approval slot of a failed intent to another one
\* (device-action/enrollment.ts:316-317 "clients trust this terminal status").
StatusTellsOutcome ==
    \A i \in Intents :
        /\ row[i].status = "confirmed" => Ok(settled, i)
        /\ row[i].status \in {"failed", "reverted", "expired"} => ~Ok(latest, i)

\* An admission code admits one account, although a failed registration gives it back
\* (registration/store.ts:222-246 and 513-530).
CodeAdmitsOne ==
    /\ \A i, j \in Registrations : Ok(latest, i) /\ Ok(latest, j) /\ row[i].code = row[j].code => i = j
    /\ \A i \in Registrations : row[i].status = "confirmed" => row[i].code \in consumed

Answer ==
    [none |-> "none", ready |-> "open", submitted |-> "open", confirmed |-> "confirmed",
     failed |-> "over", reverted |-> "over", expired |-> "over"]

Book == INSTANCE IntentBook WITH
    answer  <- [i \in Intents |-> Answer[row[i].status]],
    outcome <- latest.result

\* The API's processes together keep the book a client relies on: one of the intents that exclude each
\* other is open at a time, an answer is final and is what became of the intent on the chain, nothing is
\* executed once it is over, and its code goes to one registration at a time
\* (device-action/enrollment.ts:316-317 "clients trust this terminal status").
ImplementsBook == Book!Spec

\* A transaction that was signed and never reached the node is sent again by whoever asks for its
\* intent (docs/research/cli-device-linking-plan.md:87 "after a crash, reconcile or rebroadcast that
\* same transaction", :89 "so an abandoned lower nonce cannot permanently block a removal");
\* otherwise its nonce is missing and no later transaction of the relayer is executed.
SignedIsSent == \A i \in Prepared \ known : row[i].status \in Active
=============================================================================
