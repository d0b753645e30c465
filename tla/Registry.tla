------------------------------- MODULE Registry -------------------------------
(***************************************************************************)
(* The identity registry contract, contracts/src/QOPIdentityRegistry.sol:  *)
(* the mappings it stores and the eight transactions that change them.     *)
(*                                                                         *)
(* Anyone may submit an intent; what authorises it is a signature over it. *)
(* An owner may sign at any time and a signature never expires by itself,  *)
(* so `Signatures` is the set of all signatures that are ever made: a      *)
(* behaviour in which a signature is made late is one in which the intent  *)
(* is submitted late.                                                      *)
(***************************************************************************)
EXTENDS Integers, Sequences

CONSTANTS
  Addresses,          \* the Ethereum addresses that can sign
  NoAddress,          \* address(0)
  DeviceKeys,         \* ed25519 device keys (bytes32)
  NoDeviceKey,        \* bytes32(0)
  Handles,            \* handles _validateHandle accepts
  BadHandle,          \* any string it rejects
  RegistrationNonces, \* client-chosen bytes32 nonces of registration intents
  ZeroNonce,          \* bytes32(0)
  RegistrationAdmin,  \* the immutable registrationAdmin
  FirstSigner,        \* the constructor's registrationSigner_
  Signatures,         \* every (signer, intent) pair that is ever signed
  MaxActiveDevices,   \* MAX_ACTIVE_DEVICES, 4 in the code
  MaxOwnerVersion,    \* type(uint32).max in the code
  MaxQid,             \* bound: accounts ever registered
  MaxNonce,           \* bound: actions per account
  MaxTime             \* bound: the last block timestamp

Qids == 1..MaxQid
Deadlines == 0..MaxTime

RegisterIntents ==
  [op : {"register"}, handle : Handles \cup {BadHandle},
   owner : Addresses \cup {NoAddress}, deviceKey : DeviceKeys \cup {NoDeviceKey},
   nonce : RegistrationNonces \cup {ZeroNonce}, deadline : Deadlines]
OwnerIntents ==
  [op : {"rotateOwner", "recoverOwner"}, qid : Qids,
   newOwner : Addresses \cup {NoAddress}, nonce : 0..MaxNonce, deadline : Deadlines]
DeviceIntents ==
  [op : {"addDevice", "removeDevice"}, qid : Qids,
   deviceKey : DeviceKeys \cup {NoDeviceKey}, nonce : 0..MaxNonce, deadline : Deadlines]
WipeIntents ==
  [op : {"wipeDevices"}, qid : Qids, nonce : 0..MaxNonce, deadline : Deadlines]
Intents == RegisterIntents \cup OwnerIntents \cup DeviceIntents \cup WipeIntents

ASSUME ConstantsAssumption ==
  /\ NoAddress \notin Addresses
  /\ NoDeviceKey \notin DeviceKeys
  /\ BadHandle \notin Handles
  /\ ZeroNonce \notin RegistrationNonces
  /\ FirstSigner \in Addresses
  /\ Signatures \subseteq [signer : Addresses, intent : Intents]
  /\ MaxActiveDevices \in Nat \ {0}
  /\ MaxOwnerVersion \in Nat
  /\ MaxQid \in Nat
  /\ MaxNonce \in Nat
  /\ MaxTime \in Nat

VARIABLES
  registrationSigner, registrationOpen, nextQid,
  accounts,             \* _accounts: owner NoAddress means no such account
  activeDevices,        \* _activeDevices: the array of each account
  activeDeviceIndex,    \* _activeDeviceIndex: 1-based position, 0 for none
  qidByHandle, qidByOwner, qidByDeviceKey,
  deviceKeyRemoved, registrationNonceUsed,
  blockTimestamp

adminVars == <<registrationSigner, registrationOpen>>
directory == <<nextQid, qidByHandle, registrationNonceUsed>>
roster == <<activeDevices, activeDeviceIndex, qidByDeviceKey, deviceKeyRemoved>>
vars == <<adminVars, directory, roster, accounts, qidByOwner, blockTimestamp>>

NoAccount == [owner |-> NoAddress, ownerVersion |-> 0, nonce |-> 0, handle |-> BadHandle]

AccountRecords ==
  [owner : Addresses \cup {NoAddress}, ownerVersion : 0..MaxOwnerVersion,
   nonce : 0..(MaxNonce + 1), handle : Handles \cup {BadHandle}]

RosterTypeOK ==
  /\ activeDevices \in [Qids -> Seq(DeviceKeys)]
  /\ \A q \in Qids : Len(activeDevices[q]) <= MaxActiveDevices
  /\ activeDeviceIndex \in [Qids -> [DeviceKeys -> 0..MaxActiveDevices]]
  /\ qidByDeviceKey \in [DeviceKeys -> 0..MaxQid]
  /\ deviceKeyRemoved \in SUBSET DeviceKeys

DirectoryTypeOK ==
  /\ nextQid \in 1..(MaxQid + 1)
  /\ accounts \in [Qids -> AccountRecords]
  /\ qidByHandle \in [Handles -> 0..MaxQid]
  /\ qidByOwner \in [Addresses -> 0..MaxQid]
  /\ registrationNonceUsed \in SUBSET RegistrationNonces

(* The types of the contract's storage. What is not by construction: at    *)
(* most MAX_ACTIVE_DEVICES devices (line 285), an ownerVersion that fits a *)
(* uint32 (lines 248 and 356).                                             *)
TypeOK ==
  /\ RosterTypeOK
  /\ DirectoryTypeOK
  /\ registrationSigner \in Addresses \cup {NoAddress}
  /\ registrationOpen \in BOOLEAN
  /\ blockTimestamp \in 0..MaxTime

-----------------------------------------------------------------------------

Init ==
  /\ registrationSigner = FirstSigner
  /\ registrationOpen = FALSE
  /\ nextQid = 1
  /\ accounts = [q \in Qids |-> NoAccount]
  /\ activeDevices = [q \in Qids |-> <<>>]
  /\ activeDeviceIndex = [q \in Qids |-> [k \in DeviceKeys |-> 0]]
  /\ qidByHandle = [h \in Handles |-> 0]
  /\ qidByOwner = [a \in Addresses |-> 0]
  /\ qidByDeviceKey = [k \in DeviceKeys |-> 0]
  /\ deviceKeyRemoved = {}
  /\ registrationNonceUsed = {}
  /\ blockTimestamp = 0

-----------------------------------------------------------------------------
(* What the transactions share. *)

(* The intents somebody holds a signature of, and may therefore submit. *)
SignedIntents == {s.intent : s \in Signatures}
SignaturePairs == {<<s.signer, s.intent>> : s \in Signatures}

SignedBy(a, i) == <<a, i>> \in SignaturePairs

InTime(i) == blockTimestamp <= i.deadline

(* _account, _validateDeadline, _validateNonce and the owner's signature. *)
Authorised(i) ==
  /\ accounts[i.qid].owner # NoAddress
  /\ InTime(i)
  /\ i.nonce = accounts[i.qid].nonce
  /\ SignedBy(accounts[i.qid].owner, i)

MutDeviceKeyAvailable(k) == qidByDeviceKey[k] = 0

DeviceKeyAvailable(k) == k \notin deviceKeyRemoved /\ qidByDeviceKey[k] = 0

AddActiveDevice(q, k) ==
  /\ activeDevices' = [activeDevices EXCEPT ![q] = Append(@, k)]
  /\ activeDeviceIndex' = [activeDeviceIndex EXCEPT ![q][k] = Len(activeDevices[q]) + 1]
  /\ qidByDeviceKey' = [qidByDeviceKey EXCEPT ![k] = q]
  /\ UNCHANGED deviceKeyRemoved

MutRemoveActiveDevice(q, k) ==
  LET devices == activeDevices[q]
      moved == devices[Len(devices)]
      hole == activeDeviceIndex[q][k]
  IN /\ activeDevices' = [activeDevices EXCEPT ![q] =
                            [j \in 1..(Len(devices) - 1) |->
                               IF j = hole THEN moved ELSE devices[j]]]
     /\ activeDeviceIndex' = [activeDeviceIndex EXCEPT ![q] = [@ EXCEPT ![k] = 0]]
     /\ qidByDeviceKey' = [qidByDeviceKey EXCEPT ![k] = 0]
     /\ deviceKeyRemoved' = deviceKeyRemoved \cup {k}

(* Swap with the last device, shrink the array, forget the key for good. *)
RemoveActiveDevice(q, k) ==
  LET devices == activeDevices[q]
      moved == devices[Len(devices)]
      hole == activeDeviceIndex[q][k]
  IN /\ activeDevices' = [activeDevices EXCEPT ![q] =
                            [j \in 1..(Len(devices) - 1) |->
                               IF j = hole THEN moved ELSE devices[j]]]
     /\ activeDeviceIndex' = [activeDeviceIndex EXCEPT ![q] =
                                [d \in DeviceKeys |->
                                   IF d = k THEN 0
                                   ELSE IF d = moved THEN hole ELSE @[d]]]
     /\ qidByDeviceKey' = [qidByDeviceKey EXCEPT ![k] = 0]
     /\ deviceKeyRemoved' = deviceKeyRemoved \cup {k}

DevicesOf(q) == {activeDevices[q][j] : j \in 1..Len(activeDevices[q])}

MutWipeActiveDevices(q) ==
  /\ activeDeviceIndex' = [activeDeviceIndex EXCEPT ![q] =
                             [d \in DeviceKeys |-> IF d \in DevicesOf(q) THEN 0 ELSE @[d]]]
  /\ qidByDeviceKey' = [d \in DeviceKeys |-> IF d \in DevicesOf(q) THEN 0 ELSE qidByDeviceKey[d]]
  /\ activeDevices' = [activeDevices EXCEPT ![q] = <<>>]
  /\ UNCHANGED deviceKeyRemoved

WipeActiveDevices(q) ==
  /\ activeDeviceIndex' = [activeDeviceIndex EXCEPT ![q] =
                             [d \in DeviceKeys |-> IF d \in DevicesOf(q) THEN 0 ELSE @[d]]]
  /\ qidByDeviceKey' = [d \in DeviceKeys |-> IF d \in DevicesOf(q) THEN 0 ELSE qidByDeviceKey[d]]
  /\ deviceKeyRemoved' = deviceKeyRemoved \cup DevicesOf(q)
  /\ activeDevices' = [activeDevices EXCEPT ![q] = <<>>]

MutBumpNonce(q) == UNCHANGED accounts

BumpNonce(q) == accounts' = [accounts EXCEPT ![q].nonce = @ + 1]

MutReplaceOwner(q, a) ==
  /\ accounts' = [accounts EXCEPT ![q].owner = a, ![q].ownerVersion = @ + 1,
                                     ![q].nonce = @ + 1]
  /\ qidByOwner' = [qidByOwner EXCEPT ![a] = q]

(* The owner change rotateOwner and recoverOwner have in common. *)
ReplaceOwner(q, a) ==
  /\ accounts' = [accounts EXCEPT ![q].owner = a, ![q].ownerVersion = @ + 1,
                                     ![q].nonce = @ + 1]
  /\ qidByOwner' = [b \in Addresses |->
                      IF b = a THEN q
                      ELSE IF b = accounts[q].owner THEN 0 ELSE qidByOwner[b]]

MayReplaceOwner(i) ==
  /\ Authorised(i)
  /\ i.newOwner # NoAddress
  /\ qidByOwner[i.newOwner] = 0
  /\ accounts[i.qid].ownerVersion # MaxOwnerVersion
  /\ SignedBy(i.newOwner, i)

-----------------------------------------------------------------------------
(* The administrator's transactions. *)

SetRegistrationSigner(caller, newSigner) ==
  /\ ~registrationOpen
  /\ caller = RegistrationAdmin
  /\ registrationSigner' = newSigner
  /\ UNCHANGED <<registrationOpen, directory, roster, accounts, qidByOwner, blockTimestamp>>

OpenRegistration(caller) ==
  /\ ~registrationOpen
  /\ caller = RegistrationAdmin
  /\ registrationOpen' = TRUE
  /\ registrationSigner' = NoAddress
  /\ UNCHANGED <<directory, roster, accounts, qidByOwner, blockTimestamp>>

-----------------------------------------------------------------------------
(* The transactions that carry a signed intent. *)

HandleFree(h) == qidByHandle[h] = 0

(* While registration is closed the current registration signer must have  *)
(* signed the same intent as the owner.                                    *)
Admitted(i) == registrationOpen \/ SignedBy(registrationSigner, i)

Register(i) ==
  /\ i.op = "register"
  /\ nextQid <= MaxQid
  /\ i.handle # BadHandle
  /\ InTime(i)
  /\ i.owner # NoAddress /\ i.deviceKey # NoDeviceKey /\ i.nonce # ZeroNonce
  /\ i.nonce \notin registrationNonceUsed
  /\ qidByOwner[i.owner] = 0
  /\ HandleFree(i.handle)
  /\ DeviceKeyAvailable(i.deviceKey)
  /\ SignedBy(i.owner, i)
  /\ Admitted(i)
  /\ nextQid' = nextQid + 1
  /\ registrationNonceUsed' = registrationNonceUsed \cup {i.nonce}
  /\ qidByHandle' = [qidByHandle EXCEPT ![i.handle] = nextQid]
  /\ qidByOwner' = [qidByOwner EXCEPT ![i.owner] = nextQid]
  /\ accounts' = [accounts EXCEPT ![nextQid] =
                    [owner |-> i.owner, ownerVersion |-> 0, nonce |-> 0, handle |-> i.handle]]
  /\ AddActiveDevice(nextQid, i.deviceKey)
  /\ UNCHANGED <<adminVars, blockTimestamp>>

RotateOwner(i) ==
  /\ i.op = "rotateOwner"
  /\ MayReplaceOwner(i)
  /\ ReplaceOwner(i.qid, i.newOwner)
  /\ UNCHANGED <<adminVars, directory, roster, blockTimestamp>>

HasRoom(q) == Len(activeDevices[q]) < MaxActiveDevices

AddDevice(i) ==
  /\ i.op = "addDevice"
  /\ Authorised(i)
  /\ i.deviceKey # NoDeviceKey
  /\ activeDeviceIndex[i.qid][i.deviceKey] = 0
  /\ HasRoom(i.qid)
  /\ DeviceKeyAvailable(i.deviceKey)
  /\ AddActiveDevice(i.qid, i.deviceKey)
  /\ BumpNonce(i.qid)
  /\ UNCHANGED <<adminVars, directory, qidByOwner, blockTimestamp>>

RemoveDevice(i) ==
  /\ i.op = "removeDevice"
  /\ Authorised(i)
  /\ i.deviceKey # NoDeviceKey
  /\ activeDeviceIndex[i.qid][i.deviceKey] # 0
  /\ RemoveActiveDevice(i.qid, i.deviceKey)
  /\ BumpNonce(i.qid)
  /\ UNCHANGED <<adminVars, directory, qidByOwner, blockTimestamp>>

WipeDevices(i) ==
  /\ i.op = "wipeDevices"
  /\ Authorised(i)
  /\ WipeActiveDevices(i.qid)
  /\ BumpNonce(i.qid)
  /\ UNCHANGED <<adminVars, directory, qidByOwner, blockTimestamp>>

MutRecoverOwner(i) ==
  /\ i.op = "recoverOwner"
  /\ MayReplaceOwner(i)
  /\ ReplaceOwner(i.qid, i.newOwner)
  /\ UNCHANGED <<adminVars, directory, roster, blockTimestamp>>

RecoverOwner(i) ==
  /\ i.op = "recoverOwner"
  /\ MayReplaceOwner(i)
  /\ ReplaceOwner(i.qid, i.newOwner)
  /\ WipeActiveDevices(i.qid)
  /\ UNCHANGED <<adminVars, directory, blockTimestamp>>

MineBlock ==
  /\ blockTimestamp < MaxTime
  /\ blockTimestamp' = blockTimestamp + 1
  /\ UNCHANGED <<adminVars, directory, roster, accounts, qidByOwner>>

Submit(i) ==
  \/ Register(i) \/ RotateOwner(i) \/ RecoverOwner(i)
  \/ AddDevice(i) \/ RemoveDevice(i) \/ WipeDevices(i)

Administer ==
  \E caller \in Addresses :
    \/ \E newSigner \in Addresses : SetRegistrationSigner(caller, newSigner)
    \/ OpenRegistration(caller)

Next == (\E i \in SignedIntents : Submit(i)) \/ Administer \/ MineBlock

Spec == Init /\ [][Next]_vars
-----------------------------------------------------------------------------
(* The array, the index map and the reverse map describe one roster: a     *)
(* device is at the position its index says, and a key belongs to account  *)
(* q exactly when q's index knows it. The swap-and-pop of                  *)
(* _removeActiveDevice (lines 468-483) is what could break it.             *)
RosterConsistent ==
  /\ \A q \in Qids : \A j \in 1..Len(activeDevices[q]) :
       activeDeviceIndex[q][activeDevices[q][j]] = j
  /\ \A q \in Qids, k \in DeviceKeys :
       activeDeviceIndex[q][k] # 0 =>
         /\ activeDeviceIndex[q][k] <= Len(activeDevices[q])
         /\ activeDevices[q][activeDeviceIndex[q][k]] = k
  /\ \A q \in Qids, k \in DeviceKeys :
       qidByDeviceKey[k] = q <=> activeDeviceIndex[q][k] # 0

(* A key once removed or wiped is on no account's roster, whichever order  *)
(* of removals, wipes, recoveries and registrations led here               *)
(* ("Removed keys cannot be re-added", line 92).                           *)
RemovedKeysStayOut ==
  \A k \in deviceKeyRemoved :
    /\ qidByDeviceKey[k] = 0
    /\ \A q \in Qids : k \notin DevicesOf(q)

(* Owner and handle lookups agree with the accounts: one owner, one        *)
(* account; one handle, one account; and nothing at a qid not yet issued.  *)
(* A rotation that forgot the previous owner, or a second registration of  *)
(* a handle, would break it.                                               *)
DirectoryConsistent ==
  /\ \A q \in Qids :
       IF q < nextQid
       THEN /\ accounts[q].owner # NoAddress /\ qidByOwner[accounts[q].owner] = q
            /\ accounts[q].handle # BadHandle /\ qidByHandle[accounts[q].handle] = q
       ELSE accounts[q] = NoAccount /\ activeDevices[q] = <<>>
  /\ \A a \in Addresses :
       qidByOwner[a] # 0 => qidByOwner[a] < nextQid /\ accounts[qidByOwner[a]].owner = a
  /\ \A h \in Handles :
       qidByHandle[h] # 0 => qidByHandle[h] < nextQid /\ accounts[qidByHandle[h]].handle = h

(* Every change of an account's owner or devices spends exactly one nonce, *)
(* and no step gives one back: of several intents signed for one nonce at  *)
(* most one ever takes effect, and a relayed intent never takes effect     *)
(* twice. The handle never changes.                                        *)
AccountActionsSerialized ==
  [][\A q \in Qids : q < nextQid =>
       /\ accounts'[q].handle = accounts[q].handle
       /\ \/ accounts'[q].nonce = accounts[q].nonce + 1
          \/ accounts'[q] = accounts[q] /\ activeDevices'[q] = activeDevices[q]]_vars
=============================================================================
