---------------------------- MODULE ActionService ----------------------------
(***************************************************************************)
(* What the phone and the CLI see of one account while a device is linked  *)
(* or removed: the registry's account and the API's device actions.        *)
(* Registry.tla and Enrollment.tla have the details; here are the statuses *)
(* the API gives an approval, which approvals it takes, and when the       *)
(* registry executes one.                                                  *)
(*                                                                         *)
(* An approval is the intent itself: the same operation, key, nonce and    *)
(* deadline make the same digest.  No client tells `ready` from            *)
(* `submitted`, or `expired` from `reverted`: they are `active` and        *)
(* `failed`.  The nodes never go back; at most one of the two is behind,   *)
(* by one change of the account.                                           *)
(***************************************************************************)
EXTENDS Integers, FiniteSets

CONSTANTS Keys, NoKey,        \* device keys the CLI may come to have
          NoApproval,
          Horizon,            \* DEVICE_ACTION_DEADLINE_SECONDS
          MaxTime, MaxNonce   \* bounds: the chain's last time, the actions of the account

ASSUME ServiceAssumption ==
    /\ Horizon \in Nat /\ MaxTime \in Nat /\ MaxNonce \in Nat
    /\ NoKey \notin Keys

VARIABLES account,       \* the chain's head: time, account nonce, active and removed keys
          rows,          \* the API's device actions
          posted,        \* approvals ever posted: a copy may still be on its way
          phoneView, cliView   \* the account as the phone's and the CLI's node show it

serviceVars == <<account, rows, posted, phoneView, cliView>>

Approvals == [op : {"add", "remove"}, key : Keys, nonce : 0..MaxNonce, deadline : 0..(MaxTime + Horizon)]
ASSUME NothingAssumption == NoApproval \notin Approvals

Accounts  == [time : 0..MaxTime, nonce : 0..MaxNonce, active : SUBSET Keys, removed : SUBSET Keys]

\* mined: the transaction is final and the API has not looked yet.
RowStates == {"active", "mined", "confirmed", "failed"}
Statuses  == {"active", "confirmed", "failed"}
Terminal  == {"confirmed", "failed"}

ServiceTypeOK ==
    /\ {account, phoneView, cliView} \subseteq Accounts
    /\ account.active \cap account.removed = {}
    /\ DOMAIN rows \subseteq posted /\ posted \subseteq Approvals
    /\ \A d \in DOMAIN rows : rows[d] \in RowStates

ServiceInit ==
    /\ account = [time |-> 0, nonce |-> 0, active |-> {}, removed |-> {}]
    /\ phoneView = account /\ cliView = account
    /\ rows = [d \in {} |-> "active"]
    /\ posted = {}

-----------------------------------------------------------------------------
(* The registry.                                                           *)

\* Contract `ExpiredIntent` is block.timestamp > deadline.
Expired(d) == account.time > d.deadline

\* _assertNonceAndDeadline, _addActiveDevice and _removeActiveDevice; there is room for the key.
Executable(d) ==
    /\ ~Expired(d)
    /\ d.nonce = account.nonce
    /\ IF d.op = "add" THEN d.key \notin account.active \cup account.removed
                       ELSE d.key \in account.active

\* The head moves; a node shows it at once, or goes on showing the head before it.
Becomes(next) ==
    /\ account' = next
    /\ \/ phoneView' \in {account, next} /\ cliView' = next
       \/ cliView' \in {account, next} /\ phoneView' = next
Spend(active, removed) ==
    /\ account.nonce < MaxNonce
    /\ Becomes([account EXCEPT !.nonce = @ + 1, !.active = active, !.removed = removed])

SetRow(d, state) == rows' = [e \in DOMAIN rows \cup {d} |-> IF e = d THEN state ELSE rows[e]]
IsAt(d, state)   == d \in DOMAIN rows /\ rows[d] = state

Mine(d) ==
    /\ IsAt(d, "active") /\ Executable(d)
    /\ IF d.op = "add" THEN Spend(account.active \cup {d.key}, account.removed)
                       ELSE Spend(account.active \ {d.key}, account.removed \cup {d.key})
    /\ SetRow(d, "mined")
    /\ UNCHANGED posted

\* Another device of the account removes the key.  What else it may do only spends a nonce.
OthersAct ==
    /\ \E k \in account.active : Spend(account.active \ {k}, account.removed \cup {k})
    /\ UNCHANGED <<rows, posted>>
Tick ==
    /\ account.time < MaxTime
    /\ Becomes([account EXCEPT !.time = @ + 1])
    /\ UNCHANGED <<rows, posted>>
NodesCatchUp ==
    /\ phoneView' = account /\ cliView' = account
    /\ UNCHANGED <<account, rows, posted>>

-----------------------------------------------------------------------------
(* The API.                                                                *)

\* submit: checked against the chain's account, one action in flight.
Accepts(d) ==
    /\ d \in posted /\ d \notin DOMAIN rows
    /\ d.deadline <= account.time + Horizon
    /\ Executable(d)
    /\ \A e \in DOMAIN rows : rows[e] \in Terminal
Arrive(d) ==
    /\ Accepts(d)
    /\ SetRow(d, "active")
    /\ UNCHANGED <<account, posted, phoneView, cliView>>

\* A request that goes on with an action finds its transaction final, or the action too old.
\* What the registry refuses once, it refuses always: the transaction's revert is not a step.
Resolve(d) ==
    /\ \/ IsAt(d, "mined") /\ SetRow(d, "confirmed")
       \/ IsAt(d, "active") /\ ~Executable(d) /\ SetRow(d, "failed")
    /\ UNCHANGED <<account, posted, phoneView, cliView>>

\* GET /device-actions/:digest.
Answer(d) == IF d \notin DOMAIN rows THEN "missing"
             ELSE IF rows[d] \in Terminal THEN rows[d] ELSE "active"

ServiceStep ==
    \/ OthersAct \/ Tick \/ NodesCatchUp
    \/ \E d \in posted : Arrive(d)
    \/ \E d \in DOMAIN rows : Mine(d) \/ Resolve(d)

-----------------------------------------------------------------------------
(* What a client makes of it (packages/protocol/src/membership.ts).        *)

Unknown == -1     \* a time that could not be read

MutExpiredFor(d, time) == time >= d.deadline
\* deviceActionDeadlineExpired.
ExpiredFor(d, time) == time > d.deadline

\* enrollmentMembership of a key, as a view of the account shows it.
Membership(key, view, historicallyAdded) ==
    CASE key \in view.active                           -> "linked"
      [] key \notin view.active /\ historicallyAdded   -> "removed"
      [] OTHER                                         -> "pending"

\* occupiesApprovalSlot: by what the API has answered now, the status known before or since.
Occupies(d, answer, status, time, membership) ==
    /\ status \notin Terminal
    /\ ~(answer = "missing" /\ status = "none" /\ time # Unknown /\ ExpiredFor(d, time))
    /\ IF d.op = "remove" THEN membership # "removed" ELSE membership = "pending"

\* enrollmentPollComplete.
PollComplete(d, status, membership) ==
    \/ status = "failed"
    \/ IF d.op = "remove" THEN membership = "removed" ELSE membership \in {"linked", "removed"}
=============================================================================
