SPECIFICATION Spec
CONSTANTS
  Holders = {h1}
  NoHolder = NoHolder
  Slots = {s1, s2}
  MaxGeneration = 2
  MaxRetries = 1
  MaxUnlinked = 1
SYMMETRY MCSymmetry
INVARIANTS SentWasStored HeldIsBacked SendingIsAttended
PROPERTIES ImplementsPromise
CHECK_DEADLOCK FALSE
