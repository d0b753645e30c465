SPECIFICATION Spec
CONSTANTS
  MaxIdentities = 1
  MaxDevices = 2
  Validity = 1
  MaxTime = 2
  MaxNonce = 1
  MaxInstalls = 0
  MaxDrawn = 1
  MaxMishaps = 0
  NoOne = NoOne
  Outsider = Outsider
  Nothing = Nothing
CHECK_DEADLOCK FALSE
INVARIANT SteppedBackForGood
