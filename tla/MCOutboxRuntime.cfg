CONSTANTS
    bob = bob   Enqueued = Enqueued
    Rows = {1, 2}  Qids = {bob}  RecipientOf <- BothToBob
    InitialBackoff = 1  MaxBackoff = 2  FlushConcurrency = 2
    MaxCrashes = 1
SPECIFICATION FairSpec
INVARIANTS NeverParked AttemptsAreSpaced
PROPERTY QueuedIsResolved
CHECK_DEADLOCK FALSE
