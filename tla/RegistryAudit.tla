----------------------------- MODULE RegistryAudit -----------------------------
(***************************************************************************)
(* The registry with a memory of who owned each account at each            *)
(* ownerVersion and at which version it was last recovered, so that what   *)
(* recovery is for can be stated; and the registry as an implementation of *)
(* IdentityLedger.                                                         *)
(***************************************************************************)
EXTENDS Registry

VARIABLES
  ownerAt,    \* history: the owner at each ownerVersion of each account
  recoveredTo \* history: the ownerVersion the last recoverOwner created

auditVars == <<vars, ownerAt, recoveredTo>>

AuditInit ==
  /\ Init
  /\ ownerAt = [q \in Qids |-> [v \in 0..MaxOwnerVersion |-> NoAddress]]
  /\ recoveredTo = [q \in Qids |-> 0]

RecordOwners ==
  ownerAt' = [q \in Qids |-> [v \in 0..MaxOwnerVersion |->
                IF v = accounts'[q].ownerVersion THEN accounts'[q].owner ELSE ownerAt[q][v]]]

AuditNext ==
  \/ \E i \in SignedIntents :
       /\ Submit(i)
       /\ RecordOwners
       /\ recoveredTo' = IF i.op = "recoverOwner"
                         THEN [recoveredTo EXCEPT ![i.qid] = accounts'[i.qid].ownerVersion]
                         ELSE recoveredTo
  \/ Administer /\ UNCHANGED <<ownerAt, recoveredTo>>
  \/ MineBlock /\ UNCHANGED <<ownerAt, recoveredTo>>

AuditSpec == AuditInit /\ [][AuditNext]_auditVars

(* Every device on an account was vouched for by the account's owner at    *)
(* some moment since the last completed recovery: nothing an owner         *)
(* enrolled before being recovered away, and nothing such an owner signs   *)
(* for later, is on the roster (recoverOwner, lines 338-380: "the          *)
(* compromised owner cannot addDevice again").                             *)
RosterVouched ==
  \A q \in Qids : \A k \in DevicesOf(q) :
    \E v \in recoveredTo[q]..accounts[q].ownerVersion : \E i \in SignedIntents :
      /\ i.op \in {"register", "addDevice"}
      /\ i.deviceKey = k
      /\ ownerAt[q][v] # NoAddress
      /\ SignedBy(ownerAt[q][v], i)

Ledger == INSTANCE IdentityLedger WITH
  issued <- nextQid - 1,
  owner <- [q \in Qids |-> accounts[q].owner],
  handle <- [q \in Qids |-> accounts[q].handle],
  nonce <- [q \in Qids |-> accounts[q].nonce],
  devices <- [q \in Qids |-> DevicesOf(q)],
  retired <- deviceKeyRemoved

(* The arrays, indices and reverse maps of the contract implement the      *)
(* ledger of owners, handles and device sets its clients rely on.          *)
ImplementsLedger == Ledger!Spec
=============================================================================
