CONSTANTS
    m1 = m1  m2 = m2  m3 = m3  bob = bob  carol = carol  NoHolder = NoHolder
    Holders = {h1}  Msgs = {m1, m2, m3}  Senders = {bob, carol}  Sender <- TwoSenders
    Jobs = {j1, j2}
    PageLimit = 2
    MaxRestarts = 0  MaxLogouts = 1  MaxWipes = 0
SPECIFICATION Spec
SYMMETRY Interchangeable
INVARIANTS CursorCoversAll
CHECK_DEADLOCK FALSE
