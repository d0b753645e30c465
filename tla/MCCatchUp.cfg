CONSTANTS
    m1 = m1  m2 = m2  m3 = m3  bob = bob  carol = carol  NoHolder = NoHolder
    Holders = {h1}  Msgs = {m1, m2}  Senders = {bob}  Sender <- OneSender
    Jobs = {j1, j2}
    PageLimit = 2
    MaxRestarts = 1  MaxLogouts = 1  MaxWipes = 1
SPECIFICATION FairSpec
INVARIANTS CursorCoversInbox
PROPERTIES InboxReachesPhone CursorNeverRewound SavedInOrder
CHECK_DEADLOCK FALSE
