SPECIFICATION AuditSpec
CONSTANTS
  alice = alice
  bob = bob
  carol = carol
  signer = signer
  Addresses <- MCAddresses
  NoAddress = NoAddress
  DeviceKeys = {k1, k2, k3}
  NoDeviceKey = NoDeviceKey
  Handles = {h1, h2}
  BadHandle = BadHandle
  RegistrationNonces = {n1, n2}
  ZeroNonce = ZeroNonce
  RegistrationAdmin = signer
  FirstSigner = signer
  Signatures <- MCSignatures
  MaxActiveDevices = 2
  MaxOwnerVersion = 2
  MaxQid = 2
  MaxNonce = 2
  MaxTime = 1
SYMMETRY MCSymmetry
INVARIANTS RosterConsistent RemovedKeysStayOut DirectoryConsistent RosterVouched
PROPERTIES AccountActionsSerialized ImplementsLedger
CHECK_DEADLOCK FALSE
