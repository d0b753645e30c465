SPECIFICATION HeldWhileAway
CONSTANTS
  Holders = {h1, h2}
  NoHolder = NoHolder
  Slots = {s1}
  MaxGeneration = 2
  MaxRetries = 0
  MaxUnlinked = 1
INVARIANTS JobPlacesOnce
PROPERTIES HeldIsResolved
CHECK_DEADLOCK FALSE
