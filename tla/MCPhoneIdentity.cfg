SPECIFICATION Spec
CONSTANTS
  MaxIdentities = 2
  MaxDevices = 2
  Validity = 1
  MaxTime = 2
  MaxNonce = 2
  MaxInstalls = 1
  MaxDrawn = 1
  MaxMishaps = 1
  NoOne = NoOne
  Outsider = Outsider
  Nothing = Nothing
CHECK_DEADLOCK FALSE
INVARIANTS RecordsFitIdentity ReadyWasMember MarkersTellInstall
PROPERTY WaitingEnds
