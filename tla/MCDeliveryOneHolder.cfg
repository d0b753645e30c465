SPECIFICATION Spec
CONSTANTS
  Holders = {h1, h2}
  NoHolder = NoHolder
  Slots = {s1}
  MaxGeneration = 1
  MaxRetries = 0
  MaxUnlinked = 0
SYMMETRY MCSymmetry
INVARIANTS OneHolder
CHECK_DEADLOCK FALSE
