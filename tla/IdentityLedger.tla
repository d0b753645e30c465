---------------------------- MODULE IdentityLedger ----------------------------
(***************************************************************************)
(* What the identity registry promises to the phone, the CLI and the API:  *)
(* an account is an owner, a permanent handle and a set of devices; device *)
(* keys belong to one account and are never used again once they leave it. *)
(* No arrays, indices or reverse maps.                                     *)
(***************************************************************************)
EXTENDS Integers, FiniteSets

CONSTANTS Addresses, NoAddress, DeviceKeys, Handles, BadHandle, MaxActiveDevices, MaxQid

Qids == 1..MaxQid

VARIABLES issued, owner, handle, nonce, devices, retired

vars == <<issued, owner, handle, nonce, devices, retired>>

Init ==
  /\ issued = 0
  /\ owner = [q \in Qids |-> NoAddress]
  /\ handle = [q \in Qids |-> BadHandle]
  /\ nonce = [q \in Qids |-> 0]
  /\ devices = [q \in Qids |-> {}]
  /\ retired = {}

Owned(a) == \E q \in Qids : owner[q] = a

(* A key no account has or ever had. *)
Fresh(k) == k \notin retired /\ \A q \in Qids : k \notin devices[q]

Spend(q) == nonce' = [nonce EXCEPT ![q] = @ + 1]

(* Accounts are numbered in the order they register. *)
Register(a, h, k) ==
  /\ issued < MaxQid
  /\ ~Owned(a) /\ Fresh(k) /\ \A q \in Qids : handle[q] # h
  /\ issued' = issued + 1
  /\ owner' = [owner EXCEPT ![issued + 1] = a]
  /\ handle' = [handle EXCEPT ![issued + 1] = h]
  /\ devices' = [devices EXCEPT ![issued + 1] = {k}]
  /\ UNCHANGED <<nonce, retired>>

Enroll(q, k) ==
  /\ Fresh(k)
  /\ Cardinality(devices[q]) < MaxActiveDevices
  /\ devices' = [devices EXCEPT ![q] = @ \cup {k}]
  /\ Spend(q)
  /\ UNCHANGED <<issued, owner, handle, retired>>

(* Some or all of an account's devices leave it, never to return. *)
Retire(q, gone) ==
  /\ devices' = [devices EXCEPT ![q] = @ \ gone]
  /\ retired' = retired \cup gone

RemoveDevice(q, k) ==
  k \in devices[q] /\ Retire(q, {k}) /\ Spend(q) /\ UNCHANGED <<issued, owner, handle>>

WipeDevices(q) ==
  Retire(q, devices[q]) /\ Spend(q) /\ UNCHANGED <<issued, owner, handle>>

NewOwner(q, a) ==
  /\ ~Owned(a)
  /\ owner' = [owner EXCEPT ![q] = a]
  /\ Spend(q)
  /\ UNCHANGED <<issued, handle>>

RotateOwner(q, a) == NewOwner(q, a) /\ UNCHANGED <<devices, retired>>

RecoverOwner(q, a) == NewOwner(q, a) /\ Retire(q, devices[q])

Next ==
  \/ \E a \in Addresses, h \in Handles, k \in DeviceKeys : Register(a, h, k)
  \/ \E q \in 1..issued :
       \/ \E k \in DeviceKeys : Enroll(q, k) \/ RemoveDevice(q, k)
       \/ \E a \in Addresses : RotateOwner(q, a) \/ RecoverOwner(q, a)
       \/ WipeDevices(q)

Spec == Init /\ [][Next]_vars
=============================================================================
