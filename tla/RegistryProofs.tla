----------------------------- MODULE RegistryProofs --------------------------
(***************************************************************************)
(* The registry's roster and directory are consistent in every reachable   *)
(* state, for any number of accounts, devices and signatures.              *)
(***************************************************************************)
EXTENDS RegistryAudit, FiniteSetTheorems, TLAPS

(* DirectoryConsistent without the rosters of the qids not yet issued. *)
LookupsAgree ==
  /\ \A q \in Qids :
       IF q < nextQid
       THEN /\ accounts[q].owner # NoAddress /\ qidByOwner[accounts[q].owner] = q
            /\ accounts[q].handle # BadHandle /\ qidByHandle[accounts[q].handle] = q
       ELSE accounts[q] = NoAccount
  /\ \A a \in Addresses :
       qidByOwner[a] # 0 => qidByOwner[a] < nextQid /\ accounts[qidByOwner[a]].owner = a
  /\ \A h \in Handles :
       qidByHandle[h] # 0 => qidByHandle[h] < nextQid /\ accounts[qidByHandle[h]].handle = h

UnissuedAreEmpty == \A q \in Qids : q >= nextQid => activeDevices[q] = <<>>

RegistryInv ==
  TypeOK /\ RosterConsistent /\ RemovedKeysStayOut /\ DirectoryConsistent

(* A submitted intent has the fields of its kind. *)
LEMMA IntentTypes ==
  ASSUME NEW i \in SignedIntents
  PROVE  /\ i.op = "register" => i \in RegisterIntents
         /\ i.op \in {"rotateOwner", "recoverOwner"} => i \in OwnerIntents
         /\ i.op \in {"addDevice", "removeDevice"} => i \in DeviceIntents
         /\ i.op = "wipeDevices" => i \in WipeIntents
<1>1. i \in Intents
  BY ConstantsAssumption DEF SignedIntents
<1> QED
  BY <1>1 DEF Intents, RegisterIntents, OwnerIntents, DeviceIntents, WipeIntents

(* A key that no account has is in no array and at no index. *)
LEMMA UnownedKeyIsNowhere ==
  ASSUME RosterTypeOK, RosterConsistent, NEW k \in DeviceKeys, qidByDeviceKey[k] = 0
  PROVE  \A q \in Qids : activeDeviceIndex[q][k] = 0 /\ k \notin DevicesOf(q)
<1> TAKE q \in Qids
<1>1. qidByDeviceKey[k] # q
  BY ConstantsAssumption DEF Qids
<1>2. activeDeviceIndex[q][k] = 0
  BY <1>1 DEF RosterConsistent, RosterTypeOK
<1>3. ASSUME NEW j \in 1..Len(activeDevices[q]), activeDevices[q][j] = k
      PROVE  FALSE
  BY <1>2, <1>3 DEF RosterConsistent
<1> QED
  BY <1>2, <1>3 DEF DevicesOf

(* Once the reverse map is clear of the removed keys, so are the arrays.   *)
LEMMA NextRosterExcludesRemoved ==
  ASSUME RosterTypeOK', RosterConsistent', \A d \in deviceKeyRemoved' : qidByDeviceKey'[d] = 0
  PROVE  RemovedKeysStayOut'
<1> SUFFICES ASSUME NEW d \in deviceKeyRemoved', NEW p \in Qids,
                    NEW j \in 1..Len(activeDevices'[p]), activeDevices'[p][j] = d
             PROVE  FALSE
  BY DEF RemovedKeysStayOut, DevicesOf
<1>1. activeDeviceIndex'[p][d] = j /\ d \in DeviceKeys
  BY DEF RosterConsistent, RosterTypeOK
<1>2. qidByDeviceKey'[d] = p
  BY <1>1 DEF RosterConsistent
<1> QED
  BY <1>2, ConstantsAssumption DEF Qids

(* Appending an unowned key keeps array, index and reverse map in step.    *)
LEMMA AddKeepsRoster ==
  ASSUME RosterTypeOK, RosterConsistent, RemovedKeysStayOut,
         NEW q \in Qids, NEW k \in DeviceKeys,
         DeviceKeyAvailable(k), HasRoom(q), AddActiveDevice(q, k)
  PROVE  RosterTypeOK' /\ RosterConsistent' /\ RemovedKeysStayOut'
<1> DEFINE n == Len(activeDevices[q]) + 1
<1>0. n \in 1..MaxActiveDevices /\ activeDevices[q] \in Seq(DeviceKeys)
  BY ConstantsAssumption DEF RosterTypeOK, HasRoom
<1>1. \A p \in Qids : activeDeviceIndex[p][k] = 0 /\ k \notin DevicesOf(p)
  BY UnownedKeyIsNowhere DEF DeviceKeyAvailable
<1>2. activeDevices' = [activeDevices EXCEPT ![q] = Append(activeDevices[q], k)]
  BY DEF AddActiveDevice
<1>3. activeDeviceIndex' = [activeDeviceIndex EXCEPT ![q][k] = n]
  BY DEF AddActiveDevice
<1>4. qidByDeviceKey' = [qidByDeviceKey EXCEPT ![k] = q] /\ deviceKeyRemoved' = deviceKeyRemoved
  BY DEF AddActiveDevice
<1>5. RosterTypeOK'
  BY <1>0, <1>2, <1>3, <1>4, ConstantsAssumption DEF RosterTypeOK, Qids
<1>6. RosterConsistent'
  <2>1. ASSUME NEW p \in Qids, NEW j \in 1..Len(activeDevices'[p])
        PROVE  activeDeviceIndex'[p][activeDevices'[p][j]] = j
    <3>1. CASE p # q
      BY <3>1, <1>2, <1>3 DEF RosterConsistent, RosterTypeOK
    <3>2. CASE p = q /\ j = n
      BY <3>2, <1>0, <1>2, <1>3 DEF RosterTypeOK
    <3>3. CASE p = q /\ j # n
      <4>1. j \in 1..Len(activeDevices[q]) /\ activeDevices'[q][j] = activeDevices[q][j]
        BY <3>3, <1>0, <1>2 DEF RosterTypeOK
      <4>2. activeDevices[q][j] # k /\ activeDevices[q][j] \in DeviceKeys
        BY <4>1, <1>0, <1>1 DEF DevicesOf
      <4> QED
        BY <3>3, <4>1, <4>2, <1>3 DEF RosterConsistent, RosterTypeOK
    <3> QED
      BY <3>1, <3>2, <3>3
  <2>2. ASSUME NEW p \in Qids, NEW d \in DeviceKeys, activeDeviceIndex'[p][d] # 0
        PROVE  /\ activeDeviceIndex'[p][d] <= Len(activeDevices'[p])
               /\ activeDevices'[p][activeDeviceIndex'[p][d]] = d
    <3>1. CASE p # q
      BY <3>1, <2>2, <1>2, <1>3 DEF RosterConsistent, RosterTypeOK
    <3>2. CASE p = q /\ d = k
      BY <3>2, <1>0, <1>2, <1>3 DEF RosterTypeOK
    <3>3. CASE p = q /\ d # k
      <4>1. activeDeviceIndex'[p][d] = activeDeviceIndex[q][d]
        BY <3>3, <1>3 DEF RosterTypeOK
      <4>2. activeDeviceIndex[q][d] \in 1..Len(activeDevices[q])
        BY <2>2, <4>1, <1>0 DEF RosterConsistent, RosterTypeOK
      <4> QED
        BY <2>2, <3>3, <4>1, <4>2, <1>0, <1>2 DEF RosterConsistent, RosterTypeOK
    <3> QED
      BY <3>1, <3>2, <3>3
  <2>3. ASSUME NEW p \in Qids, NEW d \in DeviceKeys
        PROVE  qidByDeviceKey'[d] = p <=> activeDeviceIndex'[p][d] # 0
    <3>1. CASE d # k
      BY <3>1, <1>3, <1>4 DEF RosterConsistent, RosterTypeOK
    <3>2. CASE d = k
      BY <3>2, <1>0, <1>1, <1>3, <1>4 DEF RosterTypeOK
    <3> QED
      BY <3>1, <3>2
  <2> QED
    BY <2>1, <2>2, <2>3 DEF RosterConsistent
<1>7. \A d \in deviceKeyRemoved' : qidByDeviceKey'[d] = 0
  BY <1>4 DEF DeviceKeyAvailable, RemovedKeysStayOut, RosterTypeOK
<1> QED
  BY <1>5, <1>6, <1>7, NextRosterExcludesRemoved

(* Removing by swap-and-pop keeps them in step: the moved key takes over    *)
(* the removed key's position.                                             *)
LEMMA RemoveKeepsRoster ==
  ASSUME RosterTypeOK, RosterConsistent, RemovedKeysStayOut,
         NEW q \in Qids, NEW k \in DeviceKeys,
         activeDeviceIndex[q][k] # 0, RemoveActiveDevice(q, k)
  PROVE  RosterTypeOK' /\ RosterConsistent' /\ RemovedKeysStayOut'
<1> DEFINE devices == activeDevices[q]
           n == Len(devices)
           hole == activeDeviceIndex[q][k]
           moved == devices[n]
<1>0. /\ devices \in Seq(DeviceKeys) /\ n \in 1..MaxActiveDevices
      /\ hole \in 1..n /\ devices[hole] = k /\ moved \in DeviceKeys
  BY ConstantsAssumption DEF RosterTypeOK, RosterConsistent
<1>1. \A j \in 1..n : devices[j] \in DeviceKeys /\ activeDeviceIndex[q][devices[j]] = j
  BY <1>0 DEF RosterTypeOK, RosterConsistent
<1>2. activeDevices' = [activeDevices EXCEPT ![q] =
                          [j \in 1..(n - 1) |-> IF j = hole THEN moved ELSE devices[j]]]
  BY DEF RemoveActiveDevice
<1>3. activeDeviceIndex' = [activeDeviceIndex EXCEPT ![q] =
                              [d \in DeviceKeys |->
                                 IF d = k THEN 0
                                 ELSE IF d = moved THEN hole ELSE activeDeviceIndex[q][d]]]
  BY DEF RemoveActiveDevice
<1>4. /\ qidByDeviceKey' = [qidByDeviceKey EXCEPT ![k] = 0]
      /\ deviceKeyRemoved' = deviceKeyRemoved \cup {k}
  BY DEF RemoveActiveDevice
<1>5. /\ activeDevices'[q] \in Seq(DeviceKeys) /\ Len(activeDevices'[q]) = n - 1
      /\ \A j \in 1..(n - 1) :
           activeDevices'[q][j] = IF j = hole THEN moved ELSE devices[j]
  <2>1. activeDevices'[q] = [j \in 1..(n - 1) |-> IF j = hole THEN moved ELSE devices[j]]
    BY <1>2 DEF RosterTypeOK
  <2>2. n - 1 \in Nat
    BY <1>0
  <2>3. \A j \in 1..(n - 1) : (IF j = hole THEN moved ELSE devices[j]) \in DeviceKeys
    BY <1>0, <1>1
  <2> QED
    BY <2>1, <2>2, <2>3
<1>6. RosterTypeOK'
  <2>1. activeDevices' \in [Qids -> Seq(DeviceKeys)]
    BY <1>2, <1>5 DEF RosterTypeOK
  <2>2. ASSUME NEW p \in Qids PROVE Len(activeDevices'[p]) <= MaxActiveDevices
    <3>1. CASE p = q
      BY <3>1, <1>0, <1>5, ConstantsAssumption
    <3>2. CASE p # q
      BY <3>2, <1>2 DEF RosterTypeOK
    <3> QED
      BY <3>1, <3>2
  <2>3. activeDeviceIndex' \in [Qids -> [DeviceKeys -> 0..MaxActiveDevices]]
    <3>1. hole \in 0..MaxActiveDevices /\ 0 \in 0..MaxActiveDevices
      BY <1>0, ConstantsAssumption
    <3> QED
      BY <3>1, <1>3 DEF RosterTypeOK
  <2>4. qidByDeviceKey' \in [DeviceKeys -> 0..MaxQid] /\ deviceKeyRemoved' \subseteq DeviceKeys
    BY <1>4, ConstantsAssumption DEF RosterTypeOK
  <2> QED
    BY <2>1, <2>2, <2>3, <2>4 DEF RosterTypeOK
<1>7. RosterConsistent'
  <2>1. ASSUME NEW p \in Qids, NEW j \in 1..Len(activeDevices'[p])
        PROVE  activeDeviceIndex'[p][activeDevices'[p][j]] = j
    <3>1. CASE p # q
      BY <3>1, <1>2, <1>3 DEF RosterConsistent, RosterTypeOK
    <3>2. CASE p = q
      <4>1. j \in 1..(n - 1)
        BY <3>2, <1>5
      <4>2. activeDevices'[p][j] = IF j = hole THEN moved ELSE devices[j]
        BY <3>2, <4>1, <1>5
      <4>3. activeDeviceIndex'[p] = [d \in DeviceKeys |->
                                 IF d = k THEN 0
                                 ELSE IF d = moved THEN hole ELSE activeDeviceIndex[q][d]]
        BY <3>2, <1>3 DEF RosterTypeOK
      <4>4. CASE j = hole
        <5>1. moved # k
          BY <4>1, <4>4, <1>0, <1>1
        <5> QED
          BY <4>2, <4>3, <4>4, <5>1, <1>0
      <4>5. CASE j # hole
        <5>1. devices[j] # k /\ devices[j] # moved /\ devices[j] \in DeviceKeys
          BY <4>1, <4>5, <1>0, <1>1
        <5> QED
          BY <4>1, <4>2, <4>3, <4>5, <5>1, <1>1, <1>0
      <4> QED
        BY <4>4, <4>5
    <3> QED
      BY <3>1, <3>2
  <2>2. ASSUME NEW p \in Qids, NEW d \in DeviceKeys, activeDeviceIndex'[p][d] # 0
        PROVE  /\ activeDeviceIndex'[p][d] <= Len(activeDevices'[p])
               /\ activeDevices'[p][activeDeviceIndex'[p][d]] = d
    <3>1. CASE p # q
      BY <3>1, <2>2, <1>2, <1>3 DEF RosterConsistent, RosterTypeOK
    <3>2. CASE p = q
      <4>1. activeDeviceIndex'[p][d] = IF d = k THEN 0
                                 ELSE IF d = moved THEN hole ELSE activeDeviceIndex[q][d]
        BY <3>2, <1>3 DEF RosterTypeOK
      <4>2. d # k
        BY <2>2, <4>1
      <4>3. CASE d = moved
        <5>1. activeDeviceIndex'[p][d] = hole /\ hole \in 1..(n - 1)
          BY <4>1, <4>2, <4>3, <1>0, <1>1
        <5> QED
          BY <5>1, <4>3, <3>2, <1>5
      <4>4. CASE d # moved
        <5>1. activeDeviceIndex'[p][d] = activeDeviceIndex[q][d]
          BY <4>1, <4>2, <4>4
        <5>2. activeDeviceIndex[q][d] \in 1..n /\ devices[activeDeviceIndex[q][d]] = d
          BY <5>1, <2>2, <1>0 DEF RosterConsistent, RosterTypeOK
        <5>3. activeDeviceIndex[q][d] # hole /\ activeDeviceIndex[q][d] # n
          BY <5>2, <4>2, <4>4, <1>0
        <5>4. activeDeviceIndex[q][d] \in 1..(n - 1)
          BY <5>2, <5>3, <1>0
        <5>5. activeDevices'[q][activeDeviceIndex[q][d]] = d
          BY <5>2, <5>3, <5>4, <1>5
        <5> QED
          BY <5>1, <5>4, <5>5, <3>2, <1>0, <1>5
      <4> QED
        BY <4>3, <4>4
    <3> QED
      BY <3>1, <3>2
  <2>3. ASSUME NEW p \in Qids, NEW d \in DeviceKeys
        PROVE  qidByDeviceKey'[d] = p <=> activeDeviceIndex'[p][d] # 0
    <3>1. activeDeviceIndex'[p][d] # 0 <=> (activeDeviceIndex[p][d] # 0 /\ ~(p = q /\ d = k))
      <4>1. CASE p # q
        BY <4>1, <1>3 DEF RosterTypeOK
      <4>2. CASE p = q
        <5>1. activeDeviceIndex[q][moved] = n
          BY <1>0, <1>1
        <5> QED
          BY <4>2, <5>1, <1>0, <1>3 DEF RosterTypeOK
      <4> QED
        BY <4>1, <4>2
    <3>2. qidByDeviceKey[k] = q
      BY DEF RosterConsistent
    <3>3. CASE d = k
      <4>1. activeDeviceIndex[p][k] # 0 => p = q
        BY <3>2 DEF RosterConsistent
      <4>2. qidByDeviceKey'[d] # p
        BY <3>3, <1>4, ConstantsAssumption DEF RosterTypeOK, Qids
      <4> QED
        BY <3>1, <3>3, <4>1, <4>2
    <3>4. CASE d # k
      BY <3>1, <3>4, <1>4 DEF RosterConsistent, RosterTypeOK
    <3> QED
      BY <3>3, <3>4
  <2> QED
    BY <2>1, <2>2, <2>3 DEF RosterConsistent
<1>8. \A d \in deviceKeyRemoved' : qidByDeviceKey'[d] = 0
  BY <1>4 DEF RemovedKeysStayOut, RosterTypeOK
<1> QED
  BY <1>6, <1>7, <1>8, NextRosterExcludesRemoved

(* Wiping empties one roster and leaves the others alone. *)
LEMMA WipeKeepsRoster ==
  ASSUME RosterTypeOK, RosterConsistent, RemovedKeysStayOut,
         NEW q \in Qids, WipeActiveDevices(q)
  PROVE  RosterTypeOK' /\ RosterConsistent' /\ RemovedKeysStayOut'
<1>1. \A d \in DeviceKeys : d \in DevicesOf(q) <=> activeDeviceIndex[q][d] # 0
  <2> TAKE d \in DeviceKeys
  <2>1. ASSUME activeDeviceIndex[q][d] # 0 PROVE d \in DevicesOf(q)
    BY <2>1 DEF RosterConsistent, RosterTypeOK, DevicesOf
  <2>2. ASSUME d \in DevicesOf(q) PROVE activeDeviceIndex[q][d] # 0
    BY <2>2 DEF RosterConsistent, RosterTypeOK, DevicesOf
  <2> QED
    BY <2>1, <2>2
<1>2. activeDevices' = [activeDevices EXCEPT ![q] = << >>]
  BY DEF WipeActiveDevices
<1>3. activeDeviceIndex' = [activeDeviceIndex EXCEPT ![q] =
                 [d \in DeviceKeys |-> IF d \in DevicesOf(q) THEN 0 ELSE activeDeviceIndex[q][d]]]
  BY DEF WipeActiveDevices
<1>4. /\ qidByDeviceKey' = [d \in DeviceKeys |-> IF d \in DevicesOf(q) THEN 0 ELSE qidByDeviceKey[d]]
      /\ deviceKeyRemoved' = deviceKeyRemoved \cup DevicesOf(q)
  BY DEF WipeActiveDevices
<1>5. DevicesOf(q) \subseteq DeviceKeys
  BY DEF DevicesOf, RosterTypeOK
<1>6. \A p \in Qids, d \in DeviceKeys :
        activeDeviceIndex'[p][d] = IF p = q THEN 0 ELSE activeDeviceIndex[p][d]
  BY <1>1, <1>3 DEF RosterTypeOK
<1>7. RosterTypeOK'
  <2>1. activeDevices' \in [Qids -> Seq(DeviceKeys)]
        /\ \A p \in Qids : Len(activeDevices'[p]) <= MaxActiveDevices
    BY <1>2, ConstantsAssumption DEF RosterTypeOK
  <2>2. activeDeviceIndex' \in [Qids -> [DeviceKeys -> 0..MaxActiveDevices]]
    BY <1>3, ConstantsAssumption DEF RosterTypeOK
  <2>3. qidByDeviceKey' \in [DeviceKeys -> 0..MaxQid] /\ deviceKeyRemoved' \subseteq DeviceKeys
    BY <1>4, <1>5, ConstantsAssumption DEF RosterTypeOK
  <2> QED
    BY <2>1, <2>2, <2>3 DEF RosterTypeOK
<1>8. RosterConsistent'
  <2>1. ASSUME NEW p \in Qids, NEW j \in 1..Len(activeDevices'[p])
        PROVE  activeDeviceIndex'[p][activeDevices'[p][j]] = j
    BY <1>2, <1>6 DEF RosterConsistent, RosterTypeOK
  <2>2. ASSUME NEW p \in Qids, NEW d \in DeviceKeys, activeDeviceIndex'[p][d] # 0
        PROVE  /\ activeDeviceIndex'[p][d] <= Len(activeDevices'[p])
               /\ activeDevices'[p][activeDeviceIndex'[p][d]] = d
    BY <2>2, <1>2, <1>6 DEF RosterConsistent, RosterTypeOK
  <2>3. ASSUME NEW p \in Qids, NEW d \in DeviceKeys
        PROVE  qidByDeviceKey'[d] = p <=> activeDeviceIndex'[p][d] # 0
    <3>1. qidByDeviceKey[d] = p <=> activeDeviceIndex[p][d] # 0
      BY DEF RosterConsistent
    <3>2. d \in DevicesOf(q) <=> qidByDeviceKey[d] = q
      BY <1>1 DEF RosterConsistent
    <3>3. p # 0
      BY ConstantsAssumption DEF Qids
    <3> QED
      BY <3>1, <3>2, <3>3, <1>4, <1>6
  <2> QED
    BY <2>1, <2>2, <2>3 DEF RosterConsistent
<1>9. \A d \in deviceKeyRemoved' : qidByDeviceKey'[d] = 0
  BY <1>4, <1>5 DEF RemovedKeysStayOut, RosterTypeOK
<1> QED
  BY <1>7, <1>8, <1>9, NextRosterExcludesRemoved
-----------------------------------------------------------------------------
(* Owners, handles and accounts stay in step.                              *)

(* Replacing the owner moves the one entry of the owner index.             *)
LEMMA ReplaceOwnerKeepsDirectory ==
  ASSUME DirectoryTypeOK, LookupsAgree, NEW i \in OwnerIntents, MayReplaceOwner(i),
         ReplaceOwner(i.qid, i.newOwner), UNCHANGED directory
  PROVE  i.qid < nextQid /\ DirectoryTypeOK' /\ LookupsAgree'
<1> DEFINE q0 == i.qid
           a0 == i.newOwner
           old == accounts[q0]
<1>1. /\ q0 \in Qids /\ a0 \in Addresses /\ i.nonce = old.nonce /\ i.nonce \in 0..MaxNonce
      /\ old.owner # NoAddress /\ qidByOwner[a0] = 0 /\ old.ownerVersion # MaxOwnerVersion
  BY DEF OwnerIntents, MayReplaceOwner, Authorised
<1>2. old \in AccountRecords /\ old.owner \in Addresses
  BY <1>1 DEF DirectoryTypeOK, AccountRecords
<1>3. q0 < nextQid /\ qidByOwner[old.owner] = q0 /\ old.owner # a0
  <2>1. NoAccount.owner = NoAddress
    BY DEF NoAccount
  <2>2. q0 < nextQid
    BY <1>1, <2>1 DEF LookupsAgree
  <2>3. q0 # 0
    BY <1>1, ConstantsAssumption DEF Qids
  <2> QED
    BY <1>1, <2>2, <2>3 DEF LookupsAgree
<1>4. /\ accounts'[q0].owner = a0 /\ accounts'[q0].ownerVersion = old.ownerVersion + 1
      /\ accounts'[q0].nonce = old.nonce + 1 /\ accounts'[q0].handle = old.handle
      /\ accounts'[q0] \in AccountRecords
      /\ \A q \in Qids : q # q0 => accounts'[q] = accounts[q]
      /\ accounts' \in [Qids -> AccountRecords]
  <2>1. accounts' = [accounts EXCEPT ![q0].owner = a0, ![q0].ownerVersion = @ + 1,
                                     ![q0].nonce = @ + 1]
    BY DEF ReplaceOwner
  <2>2. /\ accounts'[q0].owner = a0 /\ accounts'[q0].ownerVersion = old.ownerVersion + 1
        /\ accounts'[q0].nonce = old.nonce + 1 /\ accounts'[q0].handle = old.handle
        /\ \A q \in Qids : q # q0 => accounts'[q] = accounts[q]
    BY <2>1, <1>1, <1>2 DEF DirectoryTypeOK, AccountRecords
  <2>3. accounts' \in [Qids -> AccountRecords]
    <3>1. /\ old.ownerVersion + 1 \in 0..MaxOwnerVersion /\ old.nonce + 1 \in 0..(MaxNonce + 1)
      BY <1>1, <1>2, ConstantsAssumption DEF AccountRecords
    <3> QED
      BY <2>1, <3>1, <1>1, <1>2 DEF DirectoryTypeOK, AccountRecords
  <2> QED
    BY <2>2, <2>3, <1>1
<1>5. qidByOwner' = [b \in Addresses |->
                       IF b = a0 THEN q0 ELSE IF b = old.owner THEN 0 ELSE qidByOwner[b]]
  BY DEF ReplaceOwner
<1>6. UNCHANGED <<nextQid, qidByHandle, registrationNonceUsed>>
  BY DEF directory
<1>7. DirectoryTypeOK'
  <2>1. qidByOwner' \in [Addresses -> 0..MaxQid]
    BY <1>1, <1>5, ConstantsAssumption DEF DirectoryTypeOK, Qids
  <2> QED
    BY <2>1, <1>4, <1>6 DEF DirectoryTypeOK
<1>8. ASSUME NEW q \in Qids
      PROVE  IF q < nextQid
              THEN /\ accounts'[q].owner # NoAddress /\ qidByOwner'[accounts'[q].owner] = q
                   /\ accounts'[q].handle # BadHandle /\ qidByHandle'[accounts'[q].handle] = q
              ELSE accounts'[q] = NoAccount
  <2>1. CASE q = q0
    BY <2>1, <1>1, <1>3, <1>4, <1>5, <1>6, ConstantsAssumption DEF LookupsAgree
  <2>2. CASE q # q0 /\ q < nextQid
    <3>1. accounts[q].owner \in Addresses /\ qidByOwner[accounts[q].owner] = q
      BY <2>2 DEF LookupsAgree, DirectoryTypeOK, AccountRecords
    <3>2. accounts[q].owner # a0 /\ accounts[q].owner # old.owner
      BY <2>2, <3>1, <1>1, <1>3, ConstantsAssumption DEF Qids
    <3> QED
      BY <2>2, <3>1, <3>2, <1>4, <1>5, <1>6 DEF LookupsAgree
  <2>3. CASE q # q0 /\ ~(q < nextQid)
    BY <2>3, <1>4 DEF LookupsAgree
  <2> QED
    BY <2>1, <2>2, <2>3
<1>9. ASSUME NEW a \in Addresses, qidByOwner'[a] # 0
      PROVE  qidByOwner'[a] < nextQid /\ accounts'[qidByOwner'[a]].owner = a
  <2>1. CASE a = a0
    BY <2>1, <1>1, <1>3, <1>4, <1>5
  <2>2. CASE a # a0
    <3>1. a # old.owner /\ qidByOwner'[a] = qidByOwner[a]
      BY <1>5, <1>9, <2>2
    <3>2. qidByOwner[a] < nextQid /\ accounts[qidByOwner[a]].owner = a /\ qidByOwner[a] \in Qids
      BY <1>9, <3>1, ConstantsAssumption DEF LookupsAgree, DirectoryTypeOK, Qids
    <3>3. qidByOwner[a] # q0
      BY <3>1, <3>2
    <3> QED
      BY <3>1, <3>2, <3>3, <1>4
  <2> QED
    BY <2>1, <2>2
<1>10. ASSUME NEW h \in Handles, qidByHandle'[h] # 0
       PROVE  qidByHandle'[h] < nextQid /\ accounts'[qidByHandle'[h]].handle = h
  <2>1. /\ qidByHandle'[h] = qidByHandle[h] /\ qidByHandle[h] \in Qids
        /\ qidByHandle[h] < nextQid /\ accounts[qidByHandle[h]].handle = h
    BY <1>6, <1>10, ConstantsAssumption DEF LookupsAgree, DirectoryTypeOK, Qids
  <2> QED
    BY <2>1, <1>4
<1>11. LookupsAgree'
  BY <1>6, <1>8, <1>9, <1>10 DEF LookupsAgree
<1> QED
  BY <1>3, <1>7, <1>11

(* Spending a nonce touches neither owners nor handles.                    *)
LEMMA BumpKeepsDirectory ==
  ASSUME DirectoryTypeOK, LookupsAgree, NEW q \in Qids, accounts[q].owner # NoAddress,
         accounts[q].nonce <= MaxNonce, BumpNonce(q), UNCHANGED <<directory, qidByOwner>>
  PROVE  q < nextQid /\ DirectoryTypeOK' /\ LookupsAgree'
<1>1. q < nextQid
  BY DEF LookupsAgree, NoAccount
<1>2. /\ accounts' \in [Qids -> AccountRecords]
      /\ \A p \in Qids : /\ accounts'[p].owner = accounts[p].owner
                         /\ accounts'[p].handle = accounts[p].handle
                         /\ p # q => accounts'[p] = accounts[p]
  BY ConstantsAssumption DEF BumpNonce, DirectoryTypeOK, AccountRecords
<1>3. UNCHANGED <<nextQid, qidByHandle, registrationNonceUsed, qidByOwner>>
  BY DEF directory
<1>4. DirectoryTypeOK'
  BY <1>2, <1>3 DEF DirectoryTypeOK
<1>5. LookupsAgree'
  <2>1. \A a \in Addresses : qidByOwner[a] # 0 => qidByOwner[a] \in Qids
    BY ConstantsAssumption DEF DirectoryTypeOK, Qids
  <2>2. \A h \in Handles : qidByHandle[h] # 0 => qidByHandle[h] \in Qids
    BY ConstantsAssumption DEF DirectoryTypeOK, Qids
  <2> QED
    BY <1>1, <1>2, <1>3, <2>1, <2>2 DEF LookupsAgree
<1> QED
  BY <1>1, <1>4, <1>5

(* A registration adds one owner, one handle and one account, all new.     *)
LEMMA RegisterKeepsDirectory ==
  ASSUME DirectoryTypeOK, LookupsAgree, NEW i \in RegisterIntents, Register(i)
  PROVE  nextQid \in Qids /\ i.deviceKey \in DeviceKeys /\ DirectoryTypeOK' /\ LookupsAgree'
<1> DEFINE new == [owner |-> i.owner, ownerVersion |-> 0, nonce |-> 0, handle |-> i.handle]
<1>1. /\ nextQid \in Qids /\ i.owner \in Addresses /\ i.handle \in Handles
      /\ i.deviceKey \in DeviceKeys /\ i.nonce \in RegistrationNonces
      /\ qidByOwner[i.owner] = 0 /\ qidByHandle[i.handle] = 0
  BY ConstantsAssumption DEF Register, RegisterIntents, DirectoryTypeOK, Qids, HandleFree
<1>2. new \in AccountRecords
  BY <1>1, ConstantsAssumption DEF AccountRecords
<1>3. /\ nextQid' = nextQid + 1
      /\ registrationNonceUsed' = registrationNonceUsed \cup {i.nonce}
      /\ qidByHandle' = [qidByHandle EXCEPT ![i.handle] = nextQid]
      /\ qidByOwner' = [qidByOwner EXCEPT ![i.owner] = nextQid]
      /\ accounts' = [accounts EXCEPT ![nextQid] = new]
  BY DEF Register
<1>4. DirectoryTypeOK'
  BY <1>1, <1>2, <1>3, ConstantsAssumption DEF DirectoryTypeOK, Qids
<1>5. new.owner = i.owner /\ new.handle = i.handle
  OBVIOUS
<1> HIDE DEF new
<1>6. ASSUME NEW q \in Qids
      PROVE  IF q < nextQid'
             THEN /\ accounts'[q].owner # NoAddress /\ qidByOwner'[accounts'[q].owner] = q
                  /\ accounts'[q].handle # BadHandle /\ qidByHandle'[accounts'[q].handle] = q
             ELSE accounts'[q] = NoAccount
  <2>1. CASE q = nextQid
    BY <2>1, <1>1, <1>3, <1>5, ConstantsAssumption DEF DirectoryTypeOK
  <2>2. CASE q < nextQid
    <3>1. /\ accounts[q].owner \in Addresses /\ qidByOwner[accounts[q].owner] = q
          /\ accounts[q].handle \in Handles /\ qidByHandle[accounts[q].handle] = q
      BY <2>2 DEF LookupsAgree, DirectoryTypeOK, AccountRecords
    <3>2. accounts[q].owner # i.owner /\ accounts[q].handle # i.handle
      BY <3>1, <1>1, ConstantsAssumption DEF Qids
    <3> QED
      BY <2>2, <3>1, <3>2, <1>1, <1>3, ConstantsAssumption DEF DirectoryTypeOK, Qids
  <2>3. CASE q > nextQid
    BY <2>3, <1>1, <1>3 DEF LookupsAgree, DirectoryTypeOK, Qids
  <2> QED
    BY <2>1, <2>2, <2>3, <1>1 DEF Qids
<1>7. ASSUME NEW a \in Addresses, qidByOwner'[a] # 0
      PROVE  qidByOwner'[a] < nextQid' /\ accounts'[qidByOwner'[a]].owner = a
  <2>1. CASE a = i.owner
    BY <2>1, <1>1, <1>3, <1>5 DEF DirectoryTypeOK, Qids
  <2>2. CASE a # i.owner
    <3>1. qidByOwner'[a] = qidByOwner[a] /\ qidByOwner[a] \in Qids /\ qidByOwner[a] < nextQid
      BY <2>2, <1>7, <1>3, ConstantsAssumption DEF LookupsAgree, DirectoryTypeOK, Qids
    <3> QED
      BY <3>1, <1>1, <1>3, <1>7 DEF LookupsAgree, DirectoryTypeOK, Qids
  <2> QED
    BY <2>1, <2>2
<1>8. ASSUME NEW h \in Handles, qidByHandle'[h] # 0
      PROVE  qidByHandle'[h] < nextQid' /\ accounts'[qidByHandle'[h]].handle = h
  <2>1. CASE h = i.handle
    BY <2>1, <1>1, <1>3, <1>5 DEF DirectoryTypeOK, Qids
  <2>2. CASE h # i.handle
    <3>1. qidByHandle'[h] = qidByHandle[h] /\ qidByHandle[h] \in Qids /\ qidByHandle[h] < nextQid
      BY <2>2, <1>8, <1>3, ConstantsAssumption DEF LookupsAgree, DirectoryTypeOK, Qids
    <3> QED
      BY <3>1, <1>1, <1>3, <1>8 DEF LookupsAgree, DirectoryTypeOK, Qids
  <2> QED
    BY <2>1, <2>2
<1>9. LookupsAgree'
  BY <1>6, <1>7, <1>8 DEF LookupsAgree
<1> QED
  BY <1>1, <1>4, <1>9
-----------------------------------------------------------------------------
(* The inductive invariant, one lemma per kind of step.                    *)

LEMMA DirectorySplits ==
  ASSUME DirectoryTypeOK
  PROVE  DirectoryConsistent <=> LookupsAgree /\ UnissuedAreEmpty
BY DEF DirectoryConsistent, LookupsAgree, UnissuedAreEmpty, DirectoryTypeOK, Qids

LEMMA DirectorySplitsNext ==
  ASSUME DirectoryTypeOK'
  PROVE  DirectoryConsistent' <=> LookupsAgree' /\ UnissuedAreEmpty'
BY DEF DirectoryConsistent, LookupsAgree, UnissuedAreEmpty, DirectoryTypeOK, Qids

(* Who may act on account q: it exists and its nonce is not past the bound. *)
LEMMA AuthorisedAccount ==
  ASSUME RegistryInv, NEW i \in OwnerIntents \cup DeviceIntents \cup WipeIntents, Authorised(i)
  PROVE  /\ i.qid \in Qids /\ accounts[i.qid].owner # NoAddress
         /\ accounts[i.qid].nonce <= MaxNonce
BY ConstantsAssumption DEF Authorised, OwnerIntents, DeviceIntents, WipeIntents

(* Changing the roster of an issued account leaves the unissued ones empty. *)
LEMMA UnissuedStayEmpty ==
  ASSUME RegistryInv, NEW q \in Qids, q < nextQid, DirectoryTypeOK', LookupsAgree',
         nextQid' = nextQid, \A p \in Qids : p # q => activeDevices'[p] = activeDevices[p]
  PROVE  DirectoryConsistent'
<1>1. UnissuedAreEmpty
  BY DirectorySplits DEF RegistryInv, TypeOK
<1>2. nextQid \in Nat
  BY ConstantsAssumption DEF RegistryInv, TypeOK, DirectoryTypeOK
<1>3. ASSUME NEW p \in Qids, p >= nextQid' PROVE activeDevices'[p] = <<>>
  <2>1. p # q /\ p >= nextQid
    BY <1>2, <1>3 DEF Qids
  <2> QED
    BY <1>1, <2>1 DEF UnissuedAreEmpty
<1>4. UnissuedAreEmpty'
  BY <1>3 DEF UnissuedAreEmpty
<1> QED
  BY <1>4, DirectorySplitsNext

LEMMA RegisterStep ==
  ASSUME RegistryInv, NEW i \in SignedIntents, Register(i)
  PROVE  RegistryInv'
<1>1. i \in RegisterIntents
  BY IntentTypes DEF Register
<1>2. RosterTypeOK /\ DirectoryTypeOK /\ LookupsAgree /\ UnissuedAreEmpty
  BY DirectorySplits DEF RegistryInv, TypeOK
<1>3. nextQid \in Qids /\ i.deviceKey \in DeviceKeys /\ DirectoryTypeOK' /\ LookupsAgree'
  BY <1>1, <1>2, RegisterKeepsDirectory
<1>4. activeDevices[nextQid] = <<>>
  BY <1>2, <1>3 DEF UnissuedAreEmpty, DirectoryTypeOK, Qids
<1>5. HasRoom(nextQid) /\ DeviceKeyAvailable(i.deviceKey) /\ AddActiveDevice(nextQid, i.deviceKey)
  BY <1>4, ConstantsAssumption DEF HasRoom, Register
<1>6. RosterTypeOK' /\ RosterConsistent' /\ RemovedKeysStayOut'
  BY <1>2, <1>3, <1>5, AddKeepsRoster DEF RegistryInv
<1>7. UnissuedAreEmpty'
  <2>1. nextQid' = nextQid + 1
    BY DEF Register
  <2>2. \A p \in Qids : p # nextQid => activeDevices'[p] = activeDevices[p]
    BY <1>2, <1>5 DEF AddActiveDevice, RosterTypeOK
  <2> QED
    BY <1>2, <2>1, <2>2 DEF UnissuedAreEmpty, DirectoryTypeOK, Qids
<1>8. UNCHANGED <<registrationSigner, registrationOpen, blockTimestamp>>
  BY DEF Register, adminVars
<1> QED
  BY <1>3, <1>6, <1>7, <1>8, DirectorySplitsNext DEF RegistryInv, TypeOK

LEMMA OwnerStep ==
  ASSUME RegistryInv, NEW i \in SignedIntents, RotateOwner(i) \/ RecoverOwner(i)
  PROVE  RegistryInv'
<1>1. i \in OwnerIntents /\ MayReplaceOwner(i) /\ ReplaceOwner(i.qid, i.newOwner)
  BY IntentTypes DEF RotateOwner, RecoverOwner
<1>2. RosterTypeOK /\ DirectoryTypeOK /\ LookupsAgree
  BY DirectorySplits DEF RegistryInv, TypeOK
<1>3. UNCHANGED directory /\ UNCHANGED <<registrationSigner, registrationOpen, blockTimestamp>>
  BY DEF RotateOwner, RecoverOwner, adminVars
<1>4. i.qid \in Qids /\ i.qid < nextQid /\ DirectoryTypeOK' /\ LookupsAgree'
  BY <1>1, <1>2, <1>3, ReplaceOwnerKeepsDirectory DEF OwnerIntents
<1>5. /\ RosterTypeOK' /\ RosterConsistent' /\ RemovedKeysStayOut'
      /\ \A p \in Qids : p # i.qid => activeDevices'[p] = activeDevices[p]
  <2>1. CASE RotateOwner(i)
    BY <2>1 DEF RotateOwner, roster, RegistryInv, TypeOK, RosterTypeOK, RosterConsistent,
                RemovedKeysStayOut, DevicesOf
  <2>2. CASE RecoverOwner(i)
    <3>1. WipeActiveDevices(i.qid)
      BY <2>2 DEF RecoverOwner
    <3> QED
      BY <3>1, <1>2, <1>4, WipeKeepsRoster DEF RegistryInv, WipeActiveDevices, RosterTypeOK
  <2> QED
    BY <2>1, <2>2
<1>6. nextQid' = nextQid
  BY <1>3 DEF directory
<1>7. DirectoryConsistent'
  BY <1>4, <1>5, <1>6, UnissuedStayEmpty
<1> QED
  BY <1>3, <1>4, <1>5, <1>7 DEF RegistryInv, TypeOK

LEMMA DeviceStep ==
  ASSUME RegistryInv, NEW i \in SignedIntents, AddDevice(i) \/ RemoveDevice(i) \/ WipeDevices(i)
  PROVE  RegistryInv'
<1>1. i \in DeviceIntents \cup WipeIntents /\ Authorised(i) /\ BumpNonce(i.qid)
  BY IntentTypes DEF AddDevice, RemoveDevice, WipeDevices
<1>2. RosterTypeOK /\ DirectoryTypeOK /\ LookupsAgree
  BY DirectorySplits DEF RegistryInv, TypeOK
<1>3. UNCHANGED <<directory, qidByOwner>> /\ UNCHANGED <<registrationSigner, registrationOpen, blockTimestamp>>
  BY DEF AddDevice, RemoveDevice, WipeDevices, adminVars
<1>4. i.qid \in Qids /\ i.qid < nextQid /\ DirectoryTypeOK' /\ LookupsAgree'
  BY <1>1, <1>2, <1>3, AuthorisedAccount, BumpKeepsDirectory
<1>5. /\ RosterTypeOK' /\ RosterConsistent' /\ RemovedKeysStayOut'
      /\ \A p \in Qids : p # i.qid => activeDevices'[p] = activeDevices[p]
  <2>1. CASE AddDevice(i)
    <3>1. /\ i.deviceKey \in DeviceKeys /\ HasRoom(i.qid) /\ DeviceKeyAvailable(i.deviceKey)
          /\ AddActiveDevice(i.qid, i.deviceKey)
      BY <2>1, IntentTypes DEF AddDevice, DeviceIntents
    <3> QED
      BY <3>1, <1>2, <1>4, AddKeepsRoster DEF RegistryInv, AddActiveDevice, RosterTypeOK
  <2>2. CASE RemoveDevice(i)
    <3>1. /\ i.deviceKey \in DeviceKeys /\ activeDeviceIndex[i.qid][i.deviceKey] # 0
          /\ RemoveActiveDevice(i.qid, i.deviceKey)
      BY <2>2, IntentTypes DEF RemoveDevice, DeviceIntents
    <3> QED
      BY <3>1, <1>2, <1>4, RemoveKeepsRoster DEF RegistryInv, RemoveActiveDevice, RosterTypeOK
  <2>3. CASE WipeDevices(i)
    <3>1. WipeActiveDevices(i.qid)
      BY <2>3 DEF WipeDevices
    <3> QED
      BY <3>1, <1>2, <1>4, WipeKeepsRoster DEF RegistryInv, WipeActiveDevices, RosterTypeOK
  <2> QED
    BY <2>1, <2>2, <2>3
<1>6. nextQid' = nextQid
  BY <1>3 DEF directory
<1>7. DirectoryConsistent'
  BY <1>4, <1>5, <1>6, UnissuedStayEmpty
<1> QED
  BY <1>3, <1>4, <1>5, <1>7 DEF RegistryInv, TypeOK

(* A step that changes neither roster nor directory.                       *)
LEMMA OtherStep ==
  ASSUME RegistryInv, UNCHANGED <<directory, roster, accounts, qidByOwner>>,
         registrationSigner' \in Addresses \cup {NoAddress}, registrationOpen' \in BOOLEAN,
         blockTimestamp' \in 0..MaxTime
  PROVE  RegistryInv'
BY DEF RegistryInv, TypeOK, RosterTypeOK, DirectoryTypeOK, RosterConsistent, RemovedKeysStayOut,
       DirectoryConsistent, DevicesOf, directory, roster

LEMMA InitEstablishes == Init => RegistryInv
<1> SUFFICES ASSUME Init PROVE RegistryInv
  OBVIOUS
<1>1. RosterTypeOK /\ RosterConsistent /\ RemovedKeysStayOut
  BY ConstantsAssumption DEF Init, RosterTypeOK, RosterConsistent, RemovedKeysStayOut, Qids
<1>2. DirectoryTypeOK /\ DirectoryConsistent
  BY ConstantsAssumption DEF Init, DirectoryTypeOK, DirectoryConsistent, NoAccount, AccountRecords, Qids
<1>3. /\ registrationSigner \in Addresses \cup {NoAddress} /\ registrationOpen \in BOOLEAN
      /\ blockTimestamp \in 0..MaxTime
  <2>1. registrationSigner \in Addresses \cup {NoAddress}
    BY ConstantsAssumption DEF Init
  <2>2. registrationOpen \in BOOLEAN
    BY DEF Init
  <2>3. blockTimestamp \in 0..MaxTime
    BY ConstantsAssumption DEF Init
  <2> QED
    BY <2>1, <2>2, <2>3
<1> QED
  BY <1>1, <1>2, <1>3 DEF RegistryInv, TypeOK

LEMMA NextPreserves == RegistryInv /\ [Next]_vars => RegistryInv'
<1> SUFFICES ASSUME RegistryInv, [Next]_vars PROVE RegistryInv'
  OBVIOUS
<1>1. CASE \E i \in SignedIntents : Submit(i)
  <2>1. PICK i \in SignedIntents : Submit(i)
    BY <1>1
  <2> QED
    BY <2>1, RegisterStep, OwnerStep, DeviceStep DEF Submit
<1>2. CASE Administer
  <2>1. PICK caller \in Addresses :
          (\E s \in Addresses : SetRegistrationSigner(caller, s)) \/ OpenRegistration(caller)
    BY <1>2 DEF Administer
  <2>2. CASE \E s \in Addresses : SetRegistrationSigner(caller, s)
    BY <2>2, OtherStep DEF SetRegistrationSigner, RegistryInv, TypeOK
  <2>3. CASE OpenRegistration(caller)
    BY <2>3, OtherStep DEF OpenRegistration, RegistryInv, TypeOK
  <2> QED
    BY <2>1, <2>2, <2>3
<1>3. CASE MineBlock
  BY <1>3, OtherStep, ConstantsAssumption DEF MineBlock, adminVars, RegistryInv, TypeOK
<1>4. CASE UNCHANGED vars
  BY <1>4, OtherStep DEF vars, adminVars, RegistryInv, TypeOK
<1> QED
  BY <1>1, <1>2, <1>3, <1>4 DEF Next

THEOREM InvariantHolds == Spec => []RegistryInv
BY InitEstablishes, NextPreserves, PTL DEF Spec


(* The array, index map and reverse map of every account agree, whatever   *)
(* intents are signed and in whatever order they are submitted.            *)
THEOREM RosterStaysConsistent == Spec => [](TypeOK /\ RosterConsistent)
<1>1. RegistryInv => TypeOK /\ RosterConsistent
  BY DEF RegistryInv
<1> QED
  BY <1>1, InvariantHolds, PTL

(* No removed key is ever active again.                                    *)
THEOREM RemovedKeysNeverReturn == Spec => []RemovedKeysStayOut
<1>1. RegistryInv => RemovedKeysStayOut
  BY DEF RegistryInv
<1> QED
  BY <1>1, InvariantHolds, PTL

(* Owner and handle lookups agree with the accounts.                       *)
THEOREM DirectoryStaysConsistent == Spec => []DirectoryConsistent
<1>1. RegistryInv => DirectoryConsistent
  BY DEF RegistryInv
<1> QED
  BY <1>1, InvariantHolds, PTL

(* Owner and devices of an account change only by spending one nonce.      *)
THEOREM ActionsAreSerialized == Spec => AccountActionsSerialized
<1> DEFINE Serial == \A q \in Qids : q < nextQid =>
       /\ accounts'[q].handle = accounts[q].handle
       /\ \/ accounts'[q].nonce = accounts[q].nonce + 1
          \/ accounts'[q] = accounts[q] /\ activeDevices'[q] = activeDevices[q]
<1>1. ASSUME RegistryInv, NEW i \in SignedIntents, Submit(i) PROVE Serial
  <2> SUFFICES ASSUME NEW q \in Qids, q < nextQid
               PROVE  /\ accounts'[q].handle = accounts[q].handle
                      /\ \/ accounts'[q].nonce = accounts[q].nonce + 1
                         \/ accounts'[q] = accounts[q] /\ activeDevices'[q] = activeDevices[q]
    OBVIOUS
  <2>0. accounts \in [Qids -> AccountRecords] /\ activeDevices \in [Qids -> Seq(DeviceKeys)]
        /\ nextQid \in Int
    BY <1>1, ConstantsAssumption DEF RegistryInv, TypeOK, DirectoryTypeOK, RosterTypeOK
  <2>1. CASE Register(i)
    BY <2>0, <2>1 DEF Register, AddActiveDevice, Qids
  <2>2. CASE RotateOwner(i) \/ RecoverOwner(i)
    <3>1. ReplaceOwner(i.qid, i.newOwner) /\ i.qid \in Qids
      BY <2>2, IntentTypes DEF RotateOwner, RecoverOwner, OwnerIntents
    <3>2. q # i.qid => activeDevices'[q] = activeDevices[q]
      BY <2>0, <2>2 DEF RotateOwner, RecoverOwner, WipeActiveDevices, roster
    <3> QED
      BY <2>0, <3>1, <3>2 DEF ReplaceOwner, AccountRecords
  <2>3. CASE AddDevice(i) \/ RemoveDevice(i) \/ WipeDevices(i)
    <3>1. BumpNonce(i.qid)
      BY <2>3 DEF AddDevice, RemoveDevice, WipeDevices
    <3>2. i.qid \in Qids
      BY <2>3, IntentTypes DEF AddDevice, RemoveDevice, WipeDevices, DeviceIntents, WipeIntents
    <3>3. q # i.qid => activeDevices'[q] = activeDevices[q]
      BY <2>0, <2>3 DEF AddDevice, RemoveDevice, WipeDevices,
                        AddActiveDevice, RemoveActiveDevice, WipeActiveDevices
    <3> QED
      BY <2>0, <3>1, <3>2, <3>3 DEF BumpNonce, AccountRecords
  <2> QED
    BY <1>1, <2>1, <2>2, <2>3 DEF Submit
<1>2. ASSUME Administer \/ MineBlock PROVE Serial
  BY <1>2 DEF Administer, SetRegistrationSigner, OpenRegistration, MineBlock, roster
<1>3. RegistryInv /\ [Next]_vars => [Serial]_vars
  BY <1>1, <1>2 DEF Next
<1> QED
  BY <1>3, InvariantHolds, PTL DEF Spec, AccountActionsSerialized

(***************************************************************************)
(* The registry implements IdentityLedger, for any number of accounts,     *)
(* devices and signatures: its arrays, index maps and reverse maps behave  *)
(* like one set of devices for every account.                              *)
(*                                                                         *)
(* What makes the steps map is RegistryInv: while the roster is            *)
(* consistent, the array of an account and the reverse map name the same   *)
(* keys, and the reverse map is what a transaction changes key by key.     *)
(*                                                                         *)
(* And every device of every account was vouched for by an owner the       *)
(* account has had since it was last recovered.                            *)
(***************************************************************************)

\* The keys whose entry in the reverse map is the account.
Holding(q) == {k \in DeviceKeys : qidByDeviceKey[k] = q}

\* An account's array and the reverse map name the same keys.
LEMMA ArrayIsReverseMap ==
    ASSUME RosterTypeOK, RosterConsistent
    PROVE  \A q \in Qids : DevicesOf(q) = Holding(q)
<1> TAKE q \in Qids
<1>1. ASSUME NEW k \in DevicesOf(q) PROVE k \in Holding(q)
  <2>1. PICK j \in 1..Len(activeDevices[q]) : activeDevices[q][j] = k
    BY DEF DevicesOf
  <2>2. k \in DeviceKeys /\ activeDeviceIndex[q][k] # 0
    BY <2>1 DEF RosterTypeOK, RosterConsistent
  <2> QED
    BY <2>2 DEF RosterConsistent, Holding
<1>2. ASSUME NEW k \in Holding(q) PROVE k \in DevicesOf(q)
  <2>1. k \in DeviceKeys /\ activeDeviceIndex[q][k] # 0
    BY DEF RosterConsistent, Holding
  <2>2. activeDeviceIndex[q][k] \in 1..Len(activeDevices[q])
    BY <2>1 DEF RosterConsistent, RosterTypeOK
  <2> QED
    BY <2>1, <2>2 DEF RosterConsistent, DevicesOf
<1> QED
  BY <1>1, <1>2

\* The same in the next state.
LEMMA ArrayIsReverseMapNext ==
    ASSUME RosterTypeOK', RosterConsistent'
    PROVE  \A q \in Qids : DevicesOf(q)' = Holding(q)'
<1> TAKE q \in Qids
<1>1. ASSUME NEW k \in DevicesOf(q)' PROVE k \in Holding(q)'
  <2>1. PICK j \in 1..Len(activeDevices'[q]) : activeDevices'[q][j] = k
    BY DEF DevicesOf
  <2>2. k \in DeviceKeys /\ activeDeviceIndex'[q][k] # 0
    BY <2>1 DEF RosterTypeOK, RosterConsistent
  <2> QED
    BY <2>2 DEF RosterConsistent, Holding
<1>2. ASSUME NEW k \in Holding(q)' PROVE k \in DevicesOf(q)'
  <2>1. k \in DeviceKeys /\ activeDeviceIndex'[q][k] # 0
    BY DEF RosterConsistent, Holding
  <2>2. activeDeviceIndex'[q][k] \in 1..Len(activeDevices'[q])
    BY <2>1 DEF RosterConsistent, RosterTypeOK
  <2> QED
    BY <2>1, <2>2 DEF RosterConsistent, DevicesOf
<1> QED
  BY <1>1, <1>2

\* An account has no more devices than places in its array.
LEMMA NoMoreThanPlaces ==
    ASSUME RosterTypeOK, NEW q \in Qids
    PROVE  Cardinality(DevicesOf(q)) \in Nat /\ Cardinality(DevicesOf(q)) <= Len(activeDevices[q])
<1> DEFINE n == Len(activeDevices[q])
<1>1. n \in Nat /\ activeDevices[q] \in Seq(DeviceKeys)
  BY DEF RosterTypeOK
<1> DEFINE f == [j \in 1..n |-> activeDevices[q][j]]
<1>2. f \in Surjection(1..n, DevicesOf(q))
  BY <1>1 DEF Surjection, DevicesOf
<1>3. IsFiniteSet(1..n) /\ Cardinality(1..n) = n
  BY <1>1, FS_Interval
<1>4. IsFiniteSet(DevicesOf(q)) /\ Cardinality(DevicesOf(q)) <= n
  BY <1>2, <1>3, FS_Surjection
<1> QED
  BY <1>4, FS_CardinalityType

\* The ledger's module has its own instance of FiniteSets.
LEMMA LedgerCounts == \A S : Ledger!Cardinality(S) = Cardinality(S)
  BY DEF Ledger!Cardinality, Cardinality

-----------------------------------------------------------------------------
\* What the roster's helpers do to the sets of devices.

\* A key that is added joins its account's devices and no other's.
LEMMA AddMapsTo ==
    ASSUME RegistryInv, RegistryInv', NEW q \in Qids, NEW k \in DeviceKeys, DeviceKeyAvailable(k), AddActiveDevice(q, k)
    PROVE  [p \in Qids |-> DevicesOf(p)]' = [[p \in Qids |-> DevicesOf(p)] EXCEPT ![q] = @ \cup {k}]
<1>1. /\ \A p \in Qids : DevicesOf(p) = Holding(p)
      /\ \A p \in Qids : DevicesOf(p)' = Holding(p)'
  BY ArrayIsReverseMap, ArrayIsReverseMapNext DEF RegistryInv, TypeOK
<1>2. /\ qidByDeviceKey \in [DeviceKeys -> 0..MaxQid]
      /\ qidByDeviceKey' = [qidByDeviceKey EXCEPT ![k] = q]
      /\ qidByDeviceKey[k] = 0
  BY DEF RegistryInv, TypeOK, RosterTypeOK, AddActiveDevice, DeviceKeyAvailable
<1>3. \A p \in Qids : Holding(p)' = IF p = q THEN Holding(p) \cup {k} ELSE Holding(p)
  BY <1>2, ConstantsAssumption DEF Holding, Qids
<1> QED
  BY <1>1, <1>3

\* A key that is removed leaves its account's devices and no other's.
LEMMA RemoveMapsTo ==
    ASSUME RegistryInv, RegistryInv', NEW q \in Qids, NEW k \in DeviceKeys,
           activeDeviceIndex[q][k] # 0, RemoveActiveDevice(q, k)
    PROVE  /\ k \in DevicesOf(q)
           /\ [p \in Qids |-> DevicesOf(p)]' = [[p \in Qids |-> DevicesOf(p)] EXCEPT ![q] = @ \ {k}]
<1>1. /\ \A p \in Qids : DevicesOf(p) = Holding(p)
      /\ \A p \in Qids : DevicesOf(p)' = Holding(p)'
  BY ArrayIsReverseMap, ArrayIsReverseMapNext DEF RegistryInv, TypeOK
<1>2. /\ qidByDeviceKey \in [DeviceKeys -> 0..MaxQid]
      /\ qidByDeviceKey' = [qidByDeviceKey EXCEPT ![k] = 0]
      /\ qidByDeviceKey[k] = q
  BY DEF RegistryInv, TypeOK, RosterTypeOK, RosterConsistent, RemoveActiveDevice
<1>3. \A p \in Qids : Holding(p)' = IF p = q THEN Holding(p) \ {k} ELSE Holding(p)
  BY <1>2, ConstantsAssumption DEF Holding, Qids
<1>4. k \in Holding(q)
  BY <1>2 DEF Holding
<1> QED
  BY <1>1, <1>3, <1>4

\* A wipe empties its account's devices and no other's.
LEMMA WipeMapsTo ==
    ASSUME RegistryInv, RegistryInv', NEW q \in Qids, WipeActiveDevices(q)
    PROVE  [p \in Qids |-> DevicesOf(p)]' = [[p \in Qids |-> DevicesOf(p)] EXCEPT ![q] = {}]
<1>1. /\ \A p \in Qids : DevicesOf(p) = Holding(p)
      /\ \A p \in Qids : DevicesOf(p)' = Holding(p)'
  BY ArrayIsReverseMap, ArrayIsReverseMapNext DEF RegistryInv, TypeOK
<1>2. /\ qidByDeviceKey \in [DeviceKeys -> 0..MaxQid]
      /\ qidByDeviceKey' = [d \in DeviceKeys |-> IF d \in Holding(q) THEN 0 ELSE qidByDeviceKey[d]]
  BY <1>1 DEF RegistryInv, TypeOK, RosterTypeOK, WipeActiveDevices
<1>3. \A p \in Qids : Holding(p)' = IF p = q THEN {} ELSE Holding(p)
  BY <1>2, ConstantsAssumption DEF Holding, Qids
<1> QED
  BY <1>1, <1>3

-----------------------------------------------------------------------------
\* What the lookups say of owners, handles and keys.

\* An address without an entry owns nothing, a free handle is nobody's, an available key is fresh.
LEMMA LookupsTell ==
    ASSUME RegistryInv
    PROVE  /\ \A a \in Addresses : qidByOwner[a] = 0 => ~Ledger!Owned(a)
           /\ \A h \in Handles : HandleFree(h) => \A q \in Qids : accounts[q].handle # h
           /\ \A k \in DeviceKeys : DeviceKeyAvailable(k) => Ledger!Fresh(k)
<1>1. ASSUME NEW a \in Addresses, qidByOwner[a] = 0 PROVE \A q \in Qids : accounts[q].owner # a
  BY <1>1, ConstantsAssumption DEF RegistryInv, DirectoryConsistent, NoAccount, Qids
<1>2. ASSUME NEW h \in Handles, HandleFree(h) PROVE \A q \in Qids : accounts[q].handle # h
  BY <1>2, ConstantsAssumption DEF RegistryInv, DirectoryConsistent, NoAccount, Qids, HandleFree
<1>3. ASSUME NEW k \in DeviceKeys, DeviceKeyAvailable(k)
      PROVE  k \notin deviceKeyRemoved /\ \A q \in Qids : k \notin DevicesOf(q)
  BY <1>3, UnownedKeyIsNowhere DEF DeviceKeyAvailable, RegistryInv, TypeOK
<1> QED
  BY <1>1, <1>2, <1>3 DEF Ledger!Owned, Ledger!Fresh, Ledger!Qids, Qids

\* An account that may act is issued.
LEMMA ActingIsIssued ==
    ASSUME RegistryInv, NEW q \in Qids, accounts[q].owner # NoAddress
    PROVE  q \in 1..(nextQid - 1)
  BY ConstantsAssumption DEF RegistryInv, DirectoryConsistent, NoAccount, Qids, TypeOK, DirectoryTypeOK

\* Spending a nonce and nothing else of the account.
LEMMA BumpMapsTo ==
    ASSUME RegistryInv, NEW q \in Qids, BumpNonce(q)
    PROVE  /\ [p \in Qids |-> accounts[p].nonce]' = [[p \in Qids |-> accounts[p].nonce] EXCEPT ![q] = @ + 1]
           /\ [p \in Qids |-> accounts[p].owner]' = [p \in Qids |-> accounts[p].owner]
           /\ [p \in Qids |-> accounts[p].handle]' = [p \in Qids |-> accounts[p].handle]
<1>1. accounts \in [Qids -> AccountRecords]
  BY DEF RegistryInv, TypeOK, DirectoryTypeOK
<1>2. /\ \A p \in Qids : accounts'[p].nonce = IF p = q THEN accounts[p].nonce + 1 ELSE accounts[p].nonce
      /\ \A p \in Qids : accounts'[p].owner = accounts[p].owner /\ accounts'[p].handle = accounts[p].handle
  BY <1>1 DEF BumpNonce, AccountRecords
<1> QED
  BY <1>2

\* A new owner, and a nonce spent.
LEMMA OwnerMapsTo ==
    ASSUME RegistryInv, NEW q \in Qids, NEW a \in Addresses, ReplaceOwner(q, a)
    PROVE  /\ [p \in Qids |-> accounts[p].nonce]' = [[p \in Qids |-> accounts[p].nonce] EXCEPT ![q] = @ + 1]
           /\ [p \in Qids |-> accounts[p].owner]' = [[p \in Qids |-> accounts[p].owner] EXCEPT ![q] = a]
           /\ [p \in Qids |-> accounts[p].handle]' = [p \in Qids |-> accounts[p].handle]
<1>1. accounts \in [Qids -> AccountRecords]
  BY DEF RegistryInv, TypeOK, DirectoryTypeOK
<1>2. /\ \A p \in Qids : accounts'[p].nonce = IF p = q THEN accounts[p].nonce + 1 ELSE accounts[p].nonce
      /\ \A p \in Qids : accounts'[p].owner = IF p = q THEN a ELSE accounts[p].owner
      /\ \A p \in Qids : accounts'[p].handle = accounts[p].handle
  BY <1>1 DEF ReplaceOwner, AccountRecords
<1> QED
  BY <1>2

-----------------------------------------------------------------------------
\* Every transaction is a step of the ledger.

\* register.
LEMMA RegisterImplements ==
    ASSUME RegistryInv, RegistryInv', NEW i \in SignedIntents, Register(i)
    PROVE  Ledger!Next
<1>1. i \in RegisterIntents
  BY IntentTypes DEF Register
<1>2. /\ i.owner \in Addresses /\ i.handle \in Handles /\ i.deviceKey \in DeviceKeys
      /\ nextQid \in Qids /\ nextQid' = nextQid + 1
      /\ qidByOwner[i.owner] = 0 /\ HandleFree(i.handle) /\ DeviceKeyAvailable(i.deviceKey)
  BY <1>1, ConstantsAssumption DEF Register, RegisterIntents, RegistryInv, TypeOK, DirectoryTypeOK, Qids
<1>3. ~Ledger!Owned(i.owner) /\ Ledger!Fresh(i.deviceKey) /\ \A q \in Qids : accounts[q].handle # i.handle
  BY <1>2, LookupsTell
<1>4. accounts \in [Qids -> AccountRecords]
  BY DEF RegistryInv, TypeOK, DirectoryTypeOK
<1>5. accounts' = [accounts EXCEPT ![nextQid] =
                     [owner |-> i.owner, ownerVersion |-> 0, nonce |-> 0, handle |-> i.handle]]
  BY DEF Register
<1>6. accounts[nextQid] = NoAccount /\ activeDevices[nextQid] = <<>>
  BY <1>2, ConstantsAssumption DEF RegistryInv, DirectoryConsistent, Qids
<1>7. /\ \A q \in Qids : accounts'[q].owner = IF q = nextQid THEN i.owner ELSE accounts[q].owner
      /\ \A q \in Qids : accounts'[q].handle = IF q = nextQid THEN i.handle ELSE accounts[q].handle
      /\ \A q \in Qids : accounts'[q].nonce = accounts[q].nonce
  BY <1>2, <1>4, <1>5, <1>6 DEF NoAccount
<1>8. /\ [q \in Qids |-> accounts[q].owner]' = [[q \in Qids |-> accounts[q].owner] EXCEPT ![nextQid] = i.owner]
      /\ [q \in Qids |-> accounts[q].handle]' = [[q \in Qids |-> accounts[q].handle] EXCEPT ![nextQid] = i.handle]
      /\ [q \in Qids |-> accounts[q].nonce]' = [q \in Qids |-> accounts[q].nonce]
  BY <1>2, <1>7
<1>9. DevicesOf(nextQid) = {}
  BY <1>6 DEF DevicesOf
<1>10. [q \in Qids |-> DevicesOf(q)]' = [[q \in Qids |-> DevicesOf(q)] EXCEPT ![nextQid] = {i.deviceKey}]
  <2>1. [q \in Qids |-> DevicesOf(q)]' = [[q \in Qids |-> DevicesOf(q)] EXCEPT ![nextQid] = @ \cup {i.deviceKey}]
    BY <1>2, AddMapsTo DEF Register
  <2> QED
    BY <1>2, <1>9, <2>1
<1>11. deviceKeyRemoved' = deviceKeyRemoved
  BY DEF Register, AddActiveDevice
<1>12. /\ nextQid - 1 < MaxQid /\ nextQid' - 1 = (nextQid - 1) + 1 /\ (nextQid - 1) + 1 = nextQid
  BY <1>2, ConstantsAssumption DEF Qids
<1>13. Ledger!Register(i.owner, i.handle, i.deviceKey)
  BY <1>3, <1>8, <1>10, <1>11, <1>12 DEF Ledger!Register, Ledger!Qids, Qids
<1> QED
  BY <1>2, <1>13 DEF Ledger!Next

\* addDevice, removeDevice and wipeDevices.
LEMMA DeviceImplements ==
    ASSUME RegistryInv, RegistryInv', NEW i \in SignedIntents, AddDevice(i) \/ RemoveDevice(i) \/ WipeDevices(i)
    PROVE  Ledger!Next
<1>1. /\ i \in DeviceIntents \cup WipeIntents /\ Authorised(i) /\ BumpNonce(i.qid)
      /\ nextQid' = nextQid
  BY IntentTypes DEF AddDevice, RemoveDevice, WipeDevices, directory
<1>2. i.qid \in Qids /\ i.qid \in 1..(nextQid - 1)
  BY <1>1, AuthorisedAccount, ActingIsIssued
<1> DEFINE q == i.qid
<1>3. /\ [p \in Qids |-> accounts[p].nonce]' = [[p \in Qids |-> accounts[p].nonce] EXCEPT ![q] = @ + 1]
      /\ [p \in Qids |-> accounts[p].owner]' = [p \in Qids |-> accounts[p].owner]
      /\ [p \in Qids |-> accounts[p].handle]' = [p \in Qids |-> accounts[p].handle]
  BY <1>1, <1>2, BumpMapsTo
<1>4. Ledger!Spend(q)
  BY <1>3 DEF Ledger!Spend
<1>5. CASE AddDevice(i)
  <2>1. i.deviceKey \in DeviceKeys /\ DeviceKeyAvailable(i.deviceKey)
    BY <1>5, IntentTypes DEF AddDevice, DeviceIntents
  <2>2. Ledger!Fresh(i.deviceKey)
    BY <2>1, LookupsTell
  <2>3. Ledger!Cardinality([p \in Qids |-> DevicesOf(p)][q]) < MaxActiveDevices
    <3>1. Len(activeDevices[q]) < MaxActiveDevices /\ Len(activeDevices[q]) \in Nat /\ MaxActiveDevices \in Nat
      BY <1>2, <1>5, ConstantsAssumption DEF AddDevice, HasRoom, RegistryInv, TypeOK, RosterTypeOK
    <3>2. Cardinality(DevicesOf(q)) \in Nat /\ Cardinality(DevicesOf(q)) <= Len(activeDevices[q])
      BY <1>2, NoMoreThanPlaces DEF RegistryInv, TypeOK
    <3>3. Cardinality(DevicesOf(q)) < MaxActiveDevices
      BY <3>1, <3>2
    <3>4. [p \in Qids |-> DevicesOf(p)][q] = DevicesOf(q)
      BY <1>2
    <3> QED
      BY <3>3, <3>4, LedgerCounts, Zenon
  <2>4. [p \in Qids |-> DevicesOf(p)]' = [[p \in Qids |-> DevicesOf(p)] EXCEPT ![q] = @ \cup {i.deviceKey}]
    BY <1>2, <1>5, <2>1, AddMapsTo DEF AddDevice
  <2>5. deviceKeyRemoved' = deviceKeyRemoved
    BY <1>5 DEF AddDevice, AddActiveDevice
  <2>6. Ledger!Enroll(q, i.deviceKey)
    BY <1>1, <1>2, <1>3, <1>4, <2>2, <2>3, <2>4, <2>5 DEF Ledger!Enroll, Ledger!Qids, Qids
  <2> QED
    BY <1>2, <2>1, <2>6 DEF Ledger!Next
<1>6. CASE RemoveDevice(i)
  <2>1. i.deviceKey \in DeviceKeys
    BY <1>6, IntentTypes DEF RemoveDevice, DeviceIntents
  <2>2. /\ i.deviceKey \in DevicesOf(q)
        /\ [p \in Qids |-> DevicesOf(p)]' = [[p \in Qids |-> DevicesOf(p)] EXCEPT ![q] = @ \ {i.deviceKey}]
    BY <1>2, <1>6, <2>1, RemoveMapsTo DEF RemoveDevice
  <2>3. deviceKeyRemoved' = deviceKeyRemoved \cup {i.deviceKey}
    BY <1>6 DEF RemoveDevice, RemoveActiveDevice
  <2>4. Ledger!RemoveDevice(q, i.deviceKey)
    BY <1>1, <1>2, <1>3, <1>4, <2>2, <2>3 DEF Ledger!RemoveDevice, Ledger!Retire, Ledger!Qids, Qids
  <2> QED
    BY <1>2, <2>1, <2>4 DEF Ledger!Next
<1>7. CASE WipeDevices(i)
  <2>1. [p \in Qids |-> DevicesOf(p)]' = [[p \in Qids |-> DevicesOf(p)] EXCEPT ![q] = {}]
    BY <1>2, <1>7, WipeMapsTo DEF WipeDevices
  <2>2. deviceKeyRemoved' = deviceKeyRemoved \cup DevicesOf(q)
    BY <1>7 DEF WipeDevices, WipeActiveDevices
  <2>3. Ledger!WipeDevices(q)
    BY <1>1, <1>2, <1>3, <1>4, <2>1, <2>2 DEF Ledger!WipeDevices, Ledger!Retire, Ledger!Qids, Qids
  <2> QED
    BY <1>2, <2>3 DEF Ledger!Next
<1> QED
  BY <1>5, <1>6, <1>7

\* rotateOwner and recoverOwner.
LEMMA OwnerImplements ==
    ASSUME RegistryInv, RegistryInv', NEW i \in SignedIntents, RotateOwner(i) \/ RecoverOwner(i)
    PROVE  Ledger!Next
<1>1. /\ i \in OwnerIntents /\ MayReplaceOwner(i) /\ ReplaceOwner(i.qid, i.newOwner)
      /\ nextQid' = nextQid
  BY IntentTypes DEF RotateOwner, RecoverOwner, directory
<1>2. /\ i.qid \in Qids /\ i.qid \in 1..(nextQid - 1)
      /\ i.newOwner \in Addresses /\ qidByOwner[i.newOwner] = 0
  BY <1>1, AuthorisedAccount, ActingIsIssued DEF MayReplaceOwner, OwnerIntents
<1> DEFINE q == i.qid
<1>3. /\ [p \in Qids |-> accounts[p].nonce]' = [[p \in Qids |-> accounts[p].nonce] EXCEPT ![q] = @ + 1]
      /\ [p \in Qids |-> accounts[p].owner]' = [[p \in Qids |-> accounts[p].owner] EXCEPT ![q] = i.newOwner]
      /\ [p \in Qids |-> accounts[p].handle]' = [p \in Qids |-> accounts[p].handle]
  BY <1>1, <1>2, OwnerMapsTo
<1>4. ~Ledger!Owned(i.newOwner)
  BY <1>2, LookupsTell
<1>5. Ledger!NewOwner(q, i.newOwner)
  BY <1>1, <1>3, <1>4 DEF Ledger!NewOwner, Ledger!Spend, Ledger!Qids, Qids
<1>6. CASE RotateOwner(i)
  <2>1. deviceKeyRemoved' = deviceKeyRemoved /\ [p \in Qids |-> DevicesOf(p)]' = [p \in Qids |-> DevicesOf(p)]
    BY <1>6 DEF RotateOwner, roster, DevicesOf
  <2>2. Ledger!RotateOwner(q, i.newOwner)
    BY <1>5, <2>1 DEF Ledger!RotateOwner, Ledger!Qids, Qids
  <2> QED
    BY <1>2, <2>2 DEF Ledger!Next
<1>7. CASE RecoverOwner(i)
  <2>1. [p \in Qids |-> DevicesOf(p)]' = [[p \in Qids |-> DevicesOf(p)] EXCEPT ![q] = {}]
    BY <1>2, <1>7, WipeMapsTo DEF RecoverOwner
  <2>2. deviceKeyRemoved' = deviceKeyRemoved \cup DevicesOf(q)
    BY <1>7 DEF RecoverOwner, WipeActiveDevices
  <2>3. Ledger!RecoverOwner(q, i.newOwner)
    BY <1>2, <1>5, <2>1, <2>2 DEF Ledger!RecoverOwner, Ledger!Retire, Ledger!Qids, Qids
  <2> QED
    BY <1>2, <2>3 DEF Ledger!Next
<1> QED
  BY <1>6, <1>7

\* The administrator, the clock and the history variables do not show in the ledger.
LEMMA OthersStutter ==
    ASSUME UNCHANGED <<directory, roster, accounts>>
    PROVE  UNCHANGED Ledger!vars
  BY DEF directory, roster, DevicesOf, Ledger!vars

-----------------------------------------------------------------------------

\* The audited registry is the registry.
LEMMA AuditIsRegistry == AuditSpec => []RegistryInv
<1>1. AuditInit => RegistryInv
  BY InitEstablishes DEF AuditInit
<1>2. [AuditNext]_auditVars => [Next]_vars
  BY DEF AuditNext, auditVars, Next
<1> QED
  BY <1>1, <1>2, NextPreserves, PTL DEF AuditSpec

\* Whatever is signed, submitted or administered, clients that only know of owners, handles and
\* sets of devices see a ledger (QOPIdentityRegistry.sol).
THEOREM RegistryImplementsLedger == AuditSpec => ImplementsLedger
<1>1. AuditInit => Ledger!Init
  BY ConstantsAssumption DEF AuditInit, Init, Ledger!Init, Ledger!Qids, Qids, NoAccount, DevicesOf
<1>2. RegistryInv /\ RegistryInv' /\ [AuditNext]_auditVars => [Ledger!Next]_(Ledger!vars)
  <2> SUFFICES ASSUME RegistryInv, RegistryInv', [AuditNext]_auditVars
               PROVE  [Ledger!Next]_(Ledger!vars)
    OBVIOUS
  <2>1. ASSUME NEW i \in SignedIntents, Submit(i) PROVE Ledger!Next
    BY <2>1, RegisterImplements, DeviceImplements, OwnerImplements DEF Submit
  <2>2. ASSUME Administer \/ MineBlock \/ UNCHANGED auditVars PROVE UNCHANGED Ledger!vars
    <3>1. UNCHANGED <<directory, roster, accounts>>
      BY <2>2 DEF Administer, SetRegistrationSigner, OpenRegistration, MineBlock, auditVars, vars
    <3> QED
      BY <3>1, OthersStutter
  <2> QED
    BY <2>1, <2>2 DEF AuditNext
<1> QED
  BY <1>1, <1>2, AuditIsRegistry, PTL DEF AuditSpec, ImplementsLedger, Ledger!Spec

-----------------------------------------------------------------------------
\* The history of owners is the accounts'.
HistoryFits ==
    \A q \in Qids :
      /\ recoveredTo[q] \in 0..accounts[q].ownerVersion
      /\ ownerAt[q][accounts[q].ownerVersion] = accounts[q].owner

\* An owner of q since its last recovery signed for k.
Vouched(q, k) ==
    \E v \in recoveredTo[q]..accounts[q].ownerVersion : \E i \in SignedIntents :
      /\ i.op \in {"register", "addDevice"}
      /\ i.deviceKey = k
      /\ ownerAt[q][v] # NoAddress
      /\ SignedBy(ownerAt[q][v], i)

AllVouched == \A q \in Qids : \A k \in Holding(q) : Vouched(q, k)

AuditInv ==
    /\ RegistryInv
    /\ recoveredTo \in [Qids -> 0..MaxOwnerVersion]
    /\ HistoryFits /\ AllVouched

\* A transaction goes on with the version it finds, or makes the next one; the history before it stays.
LEMMA HistoryGrows ==
    ASSUME RegistryInv, RegistryInv', HistoryFits, RecordOwners,
           recoveredTo \in [Qids -> 0..MaxOwnerVersion],
           \A q \in Qids : accounts'[q].ownerVersion \in {accounts[q].ownerVersion, accounts[q].ownerVersion + 1},
           \A q \in Qids : accounts'[q].ownerVersion = accounts[q].ownerVersion /\ accounts[q].owner # NoAddress
                             => accounts'[q].owner = accounts[q].owner,
           \A q \in Qids : recoveredTo'[q] \in {recoveredTo[q], accounts'[q].ownerVersion}
    PROVE  /\ HistoryFits'
           /\ \A q \in Qids, k \in DeviceKeys : recoveredTo'[q] = recoveredTo[q] /\ Vouched(q, k) => Vouched(q, k)'
<1>1. \A q \in Qids : /\ accounts[q].ownerVersion \in 0..MaxOwnerVersion
                      /\ accounts'[q].ownerVersion \in 0..MaxOwnerVersion
  BY DEF RegistryInv, TypeOK, DirectoryTypeOK, AccountRecords
<1>2. \A q \in Qids : \A v \in 0..MaxOwnerVersion :
        ownerAt'[q][v] = IF v = accounts'[q].ownerVersion THEN accounts'[q].owner ELSE ownerAt[q][v]
  BY DEF RecordOwners
<1>3. HistoryFits'
  BY <1>1, <1>2, ConstantsAssumption DEF HistoryFits
<1>4. ASSUME NEW q \in Qids, NEW k \in DeviceKeys, recoveredTo'[q] = recoveredTo[q], Vouched(q, k)
      PROVE  Vouched(q, k)'
  <2>1. PICK v \in recoveredTo[q]..accounts[q].ownerVersion, i \in SignedIntents :
          i.op \in {"register", "addDevice"} /\ i.deviceKey = k /\ ownerAt[q][v] # NoAddress /\ SignedBy(ownerAt[q][v], i)
    BY <1>4 DEF Vouched
  <2>2. v \in 0..MaxOwnerVersion /\ v <= accounts[q].ownerVersion /\ recoveredTo[q] \in Nat /\ recoveredTo[q] <= v
    BY <1>1, ConstantsAssumption DEF HistoryFits
  <2>3. ownerAt'[q][v] = ownerAt[q][v]
    BY <1>1, <1>2, <2>1, <2>2 DEF HistoryFits
  <2>4. v \in recoveredTo'[q]..accounts'[q].ownerVersion
    BY <1>1, <1>4, <2>2
  <2> QED
    BY <2>1, <2>3, <2>4 DEF Vouched
<1> QED
  BY <1>3, <1>4

\* Who signs for a key vouches for it.
LEMMA SignerVouches ==
    ASSUME RegistryInv', HistoryFits', NEW q \in Qids, NEW i \in SignedIntents, i.op \in {"register", "addDevice"},
           accounts'[q].owner # NoAddress, SignedBy(accounts'[q].owner, i)
    PROVE  Vouched(q, i.deviceKey)'
<1>1. accounts'[q].ownerVersion \in Nat /\ recoveredTo'[q] \in 0..accounts'[q].ownerVersion
  BY DEF RegistryInv, TypeOK, DirectoryTypeOK, AccountRecords, HistoryFits
<1>2. accounts'[q].ownerVersion \in recoveredTo'[q]..accounts'[q].ownerVersion
  BY <1>1
<1>3. ownerAt'[q][accounts'[q].ownerVersion] = accounts'[q].owner
  BY DEF HistoryFits
<1> QED
  BY <1>2, <1>3 DEF Vouched

\* A transaction other than a recovery: keys that stay are vouched for as before, one that comes by
\* its intent.
LEMMA SubmitVouches ==
    ASSUME AuditInv, RegistryInv', NEW i \in SignedIntents, RecordOwners,
           \/ (Register(i) \/ AddDevice(i) \/ RemoveDevice(i) \/ WipeDevices(i) \/ RotateOwner(i)) /\ recoveredTo' = recoveredTo
           \/ RecoverOwner(i) /\ recoveredTo' = [recoveredTo EXCEPT ![i.qid] = accounts'[i.qid].ownerVersion]
    PROVE  AuditInv'
<1>1. accounts \in [Qids -> AccountRecords] /\ accounts' \in [Qids -> AccountRecords] /\ nextQid \in 1..(MaxQid + 1)
  BY DEF AuditInv, RegistryInv, TypeOK, DirectoryTypeOK
<1>2. /\ qidByDeviceKey \in [DeviceKeys -> 0..MaxQid]
      /\ \A p \in Qids : DevicesOf(p) = Holding(p)
      /\ recoveredTo \in [Qids -> 0..MaxOwnerVersion] /\ HistoryFits /\ AllVouched /\ RegistryInv
  BY ArrayIsReverseMap DEF AuditInv, RegistryInv, TypeOK, RosterTypeOK
<1>3. ASSUME Register(i) PROVE /\ nextQid \in Qids /\ accounts[nextQid] = NoAccount /\ i.owner # NoAddress
                               /\ accounts' = [accounts EXCEPT ![nextQid] =
                                     [owner |-> i.owner, ownerVersion |-> 0, nonce |-> 0, handle |-> i.handle]]
                               /\ qidByDeviceKey' = [qidByDeviceKey EXCEPT ![i.deviceKey] = nextQid]
  BY <1>1, <1>2, <1>3, ConstantsAssumption DEF Register, AddActiveDevice, RegistryInv, DirectoryConsistent, Qids
<1>4. ASSUME AddDevice(i) \/ RemoveDevice(i) \/ WipeDevices(i)
      PROVE  /\ i.qid \in Qids /\ accounts[i.qid].owner # NoAddress /\ SignedBy(accounts[i.qid].owner, i)
             /\ \A q \in Qids : accounts'[q].owner = accounts[q].owner /\ accounts'[q].ownerVersion = accounts[q].ownerVersion
  <2>1. i \in DeviceIntents \cup WipeIntents /\ Authorised(i) /\ BumpNonce(i.qid)
    BY <1>4, IntentTypes DEF AddDevice, RemoveDevice, WipeDevices
  <2> QED
    BY <1>1, <1>2, <2>1, AuthorisedAccount DEF Authorised, BumpNonce, AccountRecords
<1>5. ASSUME RotateOwner(i) \/ RecoverOwner(i)
      PROVE  /\ i.qid \in Qids
             /\ \A q \in Qids : q # i.qid => accounts'[q] = accounts[q]
             /\ accounts'[i.qid].ownerVersion = accounts[i.qid].ownerVersion + 1
  <2>1. i \in OwnerIntents /\ ReplaceOwner(i.qid, i.newOwner)
    BY <1>5, IntentTypes DEF RotateOwner, RecoverOwner
  <2> QED
    BY <1>1, <2>1 DEF ReplaceOwner, AccountRecords, OwnerIntents
<1>6. /\ recoveredTo' \in [Qids -> 0..MaxOwnerVersion]
      /\ \A q \in Qids : recoveredTo'[q] \in {recoveredTo[q], accounts'[q].ownerVersion}
  BY <1>1, <1>2, <1>5 DEF AccountRecords
<1>7. /\ \A q \in Qids : accounts'[q].ownerVersion \in {accounts[q].ownerVersion, accounts[q].ownerVersion + 1}
      /\ \A q \in Qids : accounts'[q].ownerVersion = accounts[q].ownerVersion /\ accounts[q].owner # NoAddress
                            => accounts'[q].owner = accounts[q].owner
  <2>1. \A q \in Qids : accounts[q].ownerVersion \in Nat
    BY <1>1 DEF AccountRecords
  <2> QED
    BY <1>1, <1>3, <1>4, <1>5, <2>1 DEF NoAccount
<1>8. /\ HistoryFits'
      /\ \A q \in Qids, k \in DeviceKeys : recoveredTo'[q] = recoveredTo[q] /\ Vouched(q, k) => Vouched(q, k)'
  BY <1>2, <1>6, <1>7, HistoryGrows
<1>9. ASSUME NEW q \in Qids, NEW k \in Holding(q)' PROVE Vouched(q, k)'
  <2>0. k \in DeviceKeys /\ qidByDeviceKey'[k] = q
    BY DEF Holding
  <2>1. ASSUME k \in Holding(q), recoveredTo'[q] = recoveredTo[q] PROVE Vouched(q, k)'
    BY <1>2, <1>8, <2>0, <2>1 DEF AllVouched
  <2>2. CASE Register(i) /\ recoveredTo' = recoveredTo
    <3>1. CASE k = i.deviceKey
      <4>1. q = nextQid /\ accounts'[q].owner = i.owner /\ SignedBy(i.owner, i)
        BY <1>1, <1>2, <1>3, <2>0, <2>2, <3>1 DEF Register
      <4> QED
        BY <1>3, <1>8, <2>2, <3>1, <4>1, SignerVouches DEF Register
    <3>2. CASE k # i.deviceKey
      BY <1>2, <1>3, <2>0, <2>1, <2>2, <3>2 DEF Holding
    <3> QED
      BY <3>1, <3>2
  <2>3. CASE AddDevice(i) /\ recoveredTo' = recoveredTo
    <3>1. qidByDeviceKey' = [qidByDeviceKey EXCEPT ![i.deviceKey] = i.qid]
      BY <2>3 DEF AddDevice, AddActiveDevice
    <3>2. CASE k = i.deviceKey
      <4>1. q = i.qid /\ accounts'[q].owner # NoAddress /\ SignedBy(accounts'[q].owner, i)
        BY <1>2, <1>4, <2>0, <2>3, <3>1, <3>2
      <4> QED
        BY <1>8, <2>3, <3>2, <4>1, SignerVouches DEF AddDevice
    <3>3. CASE k # i.deviceKey
      BY <1>2, <2>0, <2>1, <2>3, <3>1, <3>3 DEF Holding
    <3> QED
      BY <3>2, <3>3
  <2>4. CASE RemoveDevice(i) /\ recoveredTo' = recoveredTo
    <3>1. qidByDeviceKey' = [qidByDeviceKey EXCEPT ![i.deviceKey] = 0]
      BY <2>4 DEF RemoveDevice, RemoveActiveDevice
    <3>2. k \in Holding(q)
      BY <1>2, <2>0, <3>1, ConstantsAssumption DEF Holding, Qids
    <3> QED
      BY <2>1, <2>4, <3>2
  <2>5. CASE (WipeDevices(i) \/ RecoverOwner(i)) /\ (q # i.qid => recoveredTo'[q] = recoveredTo[q])
    <3>1. qidByDeviceKey' = [d \in DeviceKeys |-> IF d \in DevicesOf(i.qid) THEN 0 ELSE qidByDeviceKey[d]] /\ i.qid \in Qids
      BY <1>4, <1>5, <2>5 DEF WipeDevices, RecoverOwner, WipeActiveDevices
    <3>2. k \in Holding(q) /\ q # i.qid
      BY <1>2, <2>0, <3>1, ConstantsAssumption DEF Holding, Qids
    <3> QED
      BY <2>1, <2>5, <3>2
  <2>6. CASE RotateOwner(i) /\ recoveredTo' = recoveredTo
    BY <2>0, <2>1, <2>6 DEF RotateOwner, roster, Holding
  <2>7. RecoverOwner(i) /\ recoveredTo' = [recoveredTo EXCEPT ![i.qid] = accounts'[i.qid].ownerVersion]
          => (q # i.qid => recoveredTo'[q] = recoveredTo[q])
    BY <1>2
  <2> QED
    BY <2>2, <2>3, <2>4, <2>5, <2>6, <2>7
<1> QED
  BY <1>6, <1>8, <1>9 DEF AuditInv, AllVouched

\* Every device of an account was vouched for by an owner the account has had since its last
\* recovery, whatever was signed before it and is submitted after it (recoverOwner).
THEOREM RosterStaysVouched == AuditSpec => []RosterVouched
<1>1. AuditInit => AuditInv
  <2> SUFFICES ASSUME AuditInit PROVE AuditInv
    OBVIOUS
  <2>1. RegistryInv
    BY InitEstablishes DEF AuditInit
  <2>2. HistoryFits /\ recoveredTo \in [Qids -> 0..MaxOwnerVersion]
    BY ConstantsAssumption DEF AuditInit, Init, HistoryFits, NoAccount
  <2>3. AllVouched
    BY ConstantsAssumption DEF AuditInit, Init, AllVouched, Holding, Qids
  <2> QED
    BY <2>1, <2>2, <2>3 DEF AuditInv
<1>2. AuditInv /\ RegistryInv' /\ [AuditNext]_auditVars => AuditInv'
  <2> SUFFICES ASSUME AuditInv, RegistryInv', [AuditNext]_auditVars PROVE AuditInv'
    OBVIOUS
  <2>1. ASSUME NEW i \in SignedIntents, Submit(i), RecordOwners,
               recoveredTo' = IF i.op = "recoverOwner" THEN [recoveredTo EXCEPT ![i.qid] = accounts'[i.qid].ownerVersion]
                                                       ELSE recoveredTo
        PROVE  AuditInv'
    <3>1. \/ (Register(i) \/ AddDevice(i) \/ RemoveDevice(i) \/ WipeDevices(i) \/ RotateOwner(i)) /\ recoveredTo' = recoveredTo
          \/ RecoverOwner(i) /\ recoveredTo' = [recoveredTo EXCEPT ![i.qid] = accounts'[i.qid].ownerVersion]
      BY <2>1 DEF Submit, Register, AddDevice, RemoveDevice, WipeDevices, RotateOwner, RecoverOwner
    <3> QED
      BY <2>1, <3>1, SubmitVouches
  <2>2. ASSUME UNCHANGED <<accounts, qidByDeviceKey, ownerAt, recoveredTo>> PROVE AuditInv'
    BY <2>2 DEF AuditInv, HistoryFits, AllVouched, Holding, Vouched
  <2>3. ((Administer \/ MineBlock) /\ UNCHANGED <<ownerAt, recoveredTo>>) \/ UNCHANGED auditVars
          => UNCHANGED <<accounts, qidByDeviceKey, ownerAt, recoveredTo>>
    BY DEF Administer, SetRegistrationSigner, OpenRegistration, MineBlock, auditVars, vars, roster
  <2> QED
    BY <2>1, <2>2, <2>3 DEF AuditNext
<1>3. AuditInv => RosterVouched
  <2> SUFFICES ASSUME AuditInv, NEW q \in Qids, NEW k \in DevicesOf(q) PROVE Vouched(q, k)
    BY DEF RosterVouched, Vouched
  <2>1. k \in Holding(q)
    BY ArrayIsReverseMap DEF AuditInv, RegistryInv, TypeOK
  <2> QED
    BY <2>1 DEF AuditInv, AllVouched
<1> QED
  BY <1>1, <1>2, <1>3, AuditIsRegistry, PTL DEF AuditSpec
=============================================================================
