CONSTANTS
    alice = alice  bob = bob  p1 = p1
    NoPeer = NoPeer  NoAccount = NoAccount
    Conns = {c1}  Peers = {p1}  Accounts = {alice, bob}  Own = alice
    AccountOf <- OnlyBob
    Verifies = {v1, v2}  Outbound = {v2}
    MaxAge = 3  Lag = 1  Stall = 2
    MaxBlock = 2  MaxTime = 3  MaxOpens = 1  MaxEpoch = 1  MaxSuspends = 1
SPECIFICATION HolderSpec
INVARIANTS OneWindowPerHead SuspendIsNeverForgotten
PROPERTIES InboundUsesAreAwake
CHECK_DEADLOCK FALSE
