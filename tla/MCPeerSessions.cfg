CONSTANTS
    alice = alice  bob = bob  p1 = p1  p2 = p2
    NoPeer = NoPeer  NoAccount = NoAccount
    Conns = {c1}  Peers = {p1, p2}  Accounts = {alice, bob}  Own = alice
    AccountOf <- OwnAndOther
    Verifies = {v1, v2}
    MaxAge = 1  Lag = 0
    MaxBlock = 2  MaxTime = 2  MaxOpens = 2  MaxEpoch = 1
SPECIFICATION Spec
SYMMETRY Interchangeable
INVARIANTS AuthorizedPeersWereMembers NoneFromBeforeInvalidation RemovalTakesEffect
PROPERTIES UsedPeersAreMembers
CHECK_DEADLOCK FALSE
