--------------------------- MODULE OnboardService ---------------------------
(***************************************************************************)
(* The registry and the API as a phone meets them while it registers a     *)
(* handle or adds itself to an account.  Registry.tla and Enrollment.tla   *)
(* have the details: here are the verdict on a request, the status the API *)
(* gives an intent, and when the registry executes one.                    *)
(*                                                                         *)
(* Everyone here asks for the same handle.  An intent is its own digest.   *)
(* Owner 0 has an account with another device from the start; owner n > 0  *)
(* is the recovery key made with the n-th identity of the phone.           *)
(***************************************************************************)
EXTENDS Naturals, FiniteSets

CONSTANTS MaxIdentities,      \* identities the phone ever makes
          MaxDevices,         \* devices of an account
          Validity,           \* deadline of an intent, from its signing
          MaxTime, MaxNonce,  \* bounds: the last time, the actions of an account
          NoOne, Outsider     \* nobody, somebody else

ASSUME OnboardAssumption ==
    /\ {MaxIdentities, MaxDevices, Validity} \subseteq Nat \ {0}
    /\ MaxTime \in Nat /\ MaxNonce \in Nat

Keys   == 1..MaxIdentities
Owners == 0..MaxIdentities

VARIABLES time, accounts,
          holder,      \* who holds the handle
          posted,      \* requests still on their way, each by its intent
          rows,        \* the API's intents
          members      \* history: keys that were ever on an owner's roster

serviceVars == <<time, accounts, holder, posted, rows, members>>

\* `id` is the random nonce of a registration, the account's nonce of an addition.
Intents  == [kind : {"register", "add"}, owner : Owners, key : Keys, id : Nat, deadline : 0..MaxTime]
Accounts == [live : BOOLEAN, keys : SUBSET Keys, removed : SUBSET Keys, others : 0..MaxDevices, nonce : 0..MaxNonce]

\* submitted has a transaction; mined is one the registry has executed and the API does not know of yet;
\* dead is `failed`, `reverted` or `expired`.
RowStates == {"ready", "submitted", "mined", "confirmed", "dead"}

ServiceInit ==
    /\ time = 0
    /\ accounts = [o \in Owners |-> [live |-> o = 0, keys |-> {}, removed |-> {},
                                     others |-> IF o = 0 THEN 1 ELSE 0, nonce |-> 0]]
    /\ holder = NoOne
    /\ posted = {}
    /\ rows = [i \in {} |-> "dead"]
    /\ members = [o \in Owners |-> {}]

-----------------------------------------------------------------------------
(* The registry.                                                           *)

Full(o) == Cardinality(accounts[o].keys) + accounts[o].others >= MaxDevices

\* register, addDevice; ExpiredIntent is block.timestamp > deadline.
Executable(i) ==
    /\ time <= i.deadline
    /\ IF i.kind = "register"
       THEN holder = NoOne /\ ~accounts[i.owner].live
       ELSE /\ accounts[i.owner].live /\ accounts[i.owner].nonce = i.id /\ ~Full(i.owner)
            /\ i.key \notin accounts[i.owner].keys \cup accounts[i.owner].removed

SetRow(i, state)  == rows' = [j \in DOMAIN rows \cup {i} |-> IF j = i THEN state ELSE rows[j]]
RowIs(i, state)   == i \in DOMAIN rows /\ rows[i] = state

Mine(i) ==
    /\ RowIs(i, "submitted") /\ Executable(i) /\ SetRow(i, "mined")
    /\ accounts' = [accounts EXCEPT ![i.owner].live = TRUE, ![i.owner].keys = @ \cup {i.key},
                      ![i.owner].nonce = IF i.kind = "add" THEN @ + 1 ELSE @]
    /\ holder' = IF i.kind = "register" THEN i.owner ELSE holder
    /\ members' = [members EXCEPT ![i.owner] = @ \cup {i.key}]
    /\ UNCHANGED <<time, posted>>

\* Other devices of the account: they remove this phone, or add another device.
OthersAct(o) ==
    /\ accounts[o].live /\ accounts[o].others > 0 /\ accounts[o].nonce < MaxNonce
    /\ \/ \E k \in accounts[o].keys :
            accounts' = [accounts EXCEPT ![o].keys = @ \ {k}, ![o].removed = @ \cup {k}, ![o].nonce = @ + 1]
       \/ ~Full(o) /\ accounts' = [accounts EXCEPT ![o].others = @ + 1, ![o].nonce = @ + 1]
    /\ UNCHANGED <<time, holder, posted, rows, members>>
\* The account goes to another recovery key.
OwnerRecovered ==
    /\ accounts[0].live /\ accounts' = [accounts EXCEPT ![0].live = FALSE]
    /\ UNCHANGED <<time, holder, posted, rows, members>>
HandleGoes ==
    /\ holder = NoOne /\ holder' = Outsider
    /\ UNCHANGED <<time, accounts, posted, rows, members>>
Tick ==
    /\ time < MaxTime /\ time' = time + 1
    /\ UNCHANGED <<accounts, holder, posted, rows, members>>

-----------------------------------------------------------------------------
(* The API.                                                                *)

Live(i) == rows[i] \in {"ready", "submitted", "mined"}

\* register, of a request with an invitation: a known digest skips the checks.
RegisterVerdict(i) ==
    IF i \in DOMAIN rows
    THEN IF rows[i] = "dead" THEN "refused" ELSE "known"
    ELSE IF /\ i.deadline > time
            /\ holder = NoOne /\ ~accounts[i.owner].live
            /\ \A j \in DOMAIN rows : j.kind = "register" => ~Live(j)
         THEN "stored" ELSE "refused"

\* submit: 422 for the roster and the deadline, 409 for a dead digest or another action in flight.
AddVerdict(i) ==
    IF i \in DOMAIN rows
    THEN IF rows[i] = "dead" THEN "conflict" ELSE "known"
    ELSE IF ~Executable(i) THEN "refused"
    ELSE IF \E j \in DOMAIN rows : j.kind = "add" /\ j.owner = i.owner /\ rows[j] \in {"ready", "submitted"}
         THEN "conflict" ELSE "stored"

Verdict(i) == IF i.kind = "register" THEN RegisterVerdict(i) ELSE AddVerdict(i)

\* The API handles a request; who waits for the answer is the phone's affair.
Handle(i) ==
    /\ i \in posted /\ posted' = posted \ {i}
    /\ IF Verdict(i) = "stored" THEN SetRow(i, "ready") ELSE UNCHANGED rows
    /\ UNCHANGED <<time, accounts, holder, members>>

\* resumeSubmission: the intent gets a transaction, and the relayer's next nonce.
Submit(i) ==
    /\ RowIs(i, "ready") /\ time <= i.deadline /\ SetRow(i, "submitted")
    /\ UNCHANGED <<time, accounts, holder, posted, members>>

\* Whoever asks for the intent has the API look: its transaction is final, or the intent lapsed.  What
\* ends a registration is the registry's state, at any time; what ends an addition that was submitted is
\* the receipt of its transaction only.
Lapsed(i) ==
    IF i.kind = "register" THEN rows[i] \in {"ready", "submitted"} /\ ~Executable(i)
    ELSE rows[i] = "ready" /\ time > i.deadline
Settle(i) ==
    /\ \/ RowIs(i, "mined") /\ SetRow(i, "confirmed")
       \/ Lapsed(i) /\ SetRow(i, "dead")
    /\ UNCHANGED <<time, accounts, holder, posted, members>>

\* The transaction is included, reverts, and the API has its receipt.  Behind a nonce the relayer lost
\* it is never included.
Reverted(i) ==
    /\ RowIs(i, "submitted") /\ ~Executable(i) /\ SetRow(i, "dead")
    /\ UNCHANGED <<time, accounts, holder, posted, members>>

\* GET /registrations/:digest and /device-actions/:digest.
StatusOf(i) == IF i \notin DOMAIN rows THEN "missing"
               ELSE IF Live(i) THEN "active" ELSE rows[i]
=============================================================================
