------------------------------- MODULE MCRegistry -------------------------------
(* Two owners that sign everything, a third address that accepts ownership *)
(* but signs nothing else, a registration signer.                          *)
EXTENDS RegistryAudit, TLC

CONSTANTS alice, bob, carol, signer

MCDeadline(i) == IF i.op = "wipeDevices" THEN i.deadline = 0 ELSE i.deadline = MaxTime

(* Handle, owner, key and nonce of a registration go together. *)
MCRegistrations ==
  {i \in RegisterIntents :
     i.deviceKey # NoDeviceKey /\ i.nonce # ZeroNonce /\ i.owner \in {alice, bob, carol}}

MCSignatures ==
  {[signer |-> a, intent |-> i] :
     a \in {alice, bob},
     i \in {j \in OwnerIntents \cup DeviceIntents \cup WipeIntents : MCDeadline(j)}}
  \cup {[signer |-> a, intent |-> i] : a \in {alice, bob, signer}, i \in MCRegistrations}
  \cup {[signer |-> carol, intent |-> i] :
          i \in {j \in OwnerIntents : j.newOwner = carol /\ MCDeadline(j)}}

MCAddresses == {alice, bob, carol, signer}
MCSymmetry == Permutations(DeviceKeys)
=============================================================================
