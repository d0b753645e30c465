---------------------------- MODULE PeerSessions ----------------------------
(***************************************************************************)
(* Live authorization of transport connections                             *)
(* (packages/protocol/src/p2p-sessions.ts), shared by the phone and the    *)
(* CLI.  A verification of a connection asks the registry, at a block the  *)
(* node has just reported, whether the peer is a device of the account it  *)
(* claims; the answer authorizes the connection for MaxAge of monotonic    *)
(* time.  Verifications wait (for the permit of the session, the node's    *)
(* head, the roster at that head, the contact store) while connections     *)
(* open and close and the app is suspended and resumed.                    *)
(*                                                                         *)
(* A handle is permanent and names one account, so the claimed handle, the *)
(* account and its qid are one value here.  The registry is the            *)
(* environment: a device key that was removed never returns (Registry.tla).*)
(***************************************************************************)
EXTENDS Integers

CONSTANTS Conns,         \* connection ids of the transport, reused after a close
          Peers,         \* transport peers
          Accounts,
          AccountOf,     \* the account a peer is, or was, a device of
          Own,           \* the account of this program itself
          NoPeer, NoAccount,
          Verifies,      \* verifications that may run at one time
          MaxAge,        \* MAX_AUTH_AGE_MS
          Lag,           \* how many blocks the node's reported head may be behind
          MaxBlock, MaxTime, MaxOpens, MaxEpoch  \* bounds of the model

ASSUME SessionAssumption ==
    /\ Conns # {} /\ AccountOf \in [Peers -> Accounts]
    /\ Own \in Accounts /\ NoAccount \notin Accounts /\ NoPeer \notin Peers
    /\ MaxAge \in Nat /\ Lag \in Nat
    /\ MaxBlock \in Nat \ {0} /\ MaxTime \in Nat /\ MaxOpens \in Nat /\ MaxEpoch \in Nat

VARIABLES mono,          \* the monotonic clock
          bornAt,        \* bornAt[b]: when block b was produced; the head is the last one
          removedAt,     \* the first block in which the peer is no device any more
          sessions,      \* the session object of each connection
          opens,         \* session objects made so far: the identity of an object
          verifyEpoch,
          contacts,      \* accounts saved as contacts
          jobs           \* the verifications

chainVars   == <<bornAt, removedAt>>
sessionVars == <<sessions, opens, verifyEpoch>>
vars        == <<mono, bornAt, removedAt, sessions, opens, verifyEpoch, contacts, jobs>>

Time == 0..MaxTime

\* `began`, `took` and `mint` are history: the epoch in which the verification that wrote an
\* authorization started, how long after the node's head the roster read at it was through, and the
\* earliest window a head was given on this session.
NoAuth    == [account |-> NoAccount, block |-> 0, at |-> 0, took |-> 0, began |-> 0]
NoSession == [peer |-> NoPeer, id |-> 0, epoch |-> 0, last |-> 0, auth |-> NoAuth,
              mint |-> [block |-> 0, at |-> 0]]
Idle      == [pc |-> "idle", conn |-> CHOOSE c \in Conns : TRUE, peer |-> NoPeer, id |-> 0,
              claim |-> NoAccount, epoch |-> 0, block |-> 0, asked |-> 0, at |-> 0]

Head      == CHOOSE b \in DOMAIN bornAt : \A d \in DOMAIN bornAt : d <= b
Member(p, b) == b < removedAt[p]

Auths == [account : Accounts \cup {NoAccount}, block : 0..MaxBlock, at : Time, took : Time,
          began : 0..MaxEpoch]
Sessions == [peer : Peers, id : 1..MaxOpens, epoch : 0..MaxEpoch, last : 0..MaxBlock,
             auth : Auths, mint : [block : 0..MaxBlock, at : Time]] \cup {NoSession}
Jobs == [pc : {"idle", "queued", "lookup", "head", "known", "upsert", "verified", "used"}, conn : Conns,
         peer : Peers \cup {NoPeer}, id : 0..MaxOpens, claim : Accounts \cup {NoAccount},
         epoch : 0..MaxEpoch, block : 0..MaxBlock, asked : Time, at : Time]

TypeOK ==
    /\ mono \in Time
    /\ \E n \in 1..MaxBlock : bornAt \in [1..n -> Time]
    /\ removedAt \in [Peers -> 1..(MaxBlock + 1)]
    /\ sessions \in [Conns -> Sessions]
    /\ opens \in 0..MaxOpens
    /\ verifyEpoch \in 0..MaxEpoch
    /\ contacts \subseteq Accounts
    /\ jobs \in [Verifies -> Jobs]

\* A peer that was never added, or was removed before, has removedAt = 1.
Init ==
    /\ mono = 0
    /\ bornAt = [b \in {1} |-> 0]
    /\ removedAt \in [Peers -> {1, MaxBlock + 1}]
    /\ sessions = [c \in Conns |-> NoSession]
    /\ opens = 0 /\ verifyEpoch = 0
    /\ contacts = {}
    /\ jobs = [j \in Verifies |-> Idle]

(***************************************************************************)
(* Time and the registry.                                                  *)
(***************************************************************************)
Tick ==
    /\ mono < MaxTime
    /\ mono' = mono + 1
    /\ UNCHANGED <<chainVars, sessionVars, contacts, jobs>>

\* A block; the devices in `gone` are removed in it.
NewBlock(gone) ==
    /\ Head < MaxBlock
    /\ \A p \in gone : removedAt[p] > MaxBlock
    /\ bornAt' = [b \in 1..(Head + 1) |-> IF b = Head + 1 THEN mono ELSE bornAt[b]]
    /\ removedAt' = [p \in Peers |-> IF p \in gone THEN Head + 1 ELSE removedAt[p]]
    /\ UNCHANGED <<mono, sessionVars, contacts, jobs>>

(***************************************************************************)
(* Connections and invalidation.                                           *)
(***************************************************************************)
\* `opened`: called for connectionEstablished and again by every stream of the connection.
Opened(c, p) ==
    /\ sessions[c].peer # p
    /\ opens < MaxOpens
    /\ opens' = opens + 1
    /\ sessions' = [sessions EXCEPT ![c] =
                      [NoSession EXCEPT !.peer = p, !.id = opens + 1, !.epoch = verifyEpoch]]
    /\ UNCHANGED <<mono, chainVars, verifyEpoch, contacts, jobs>>

Closed(c, p) ==
    /\ sessions[c].peer = p
    /\ sessions' = [sessions EXCEPT ![c] = NoSession]
    /\ UNCHANGED <<mono, chainVars, opens, verifyEpoch, contacts, jobs>>

Clear ==
    /\ sessions' = [c \in Conns |-> NoSession]
    /\ UNCHANGED <<mono, chainVars, opens, verifyEpoch, contacts, jobs>>

MutInvalidated(s, e) ==
    IF s.peer = NoPeer THEN s ELSE [s EXCEPT !.auth = NoAuth, !.epoch = e, !.last = 0]
\* What invalidation leaves of a session: its freshness history stays.
Invalidated(s, e) == IF s.peer = NoPeer THEN s ELSE [s EXCEPT !.auth = NoAuth, !.epoch = e]

InvalidateSessions ==
    /\ verifyEpoch' = verifyEpoch + 1
    /\ sessions' = [c \in Conns |-> Invalidated(sessions[c], verifyEpoch + 1)]

InvalidateAuthorization ==
    /\ verifyEpoch < MaxEpoch
    /\ InvalidateSessions
    /\ UNCHANGED <<mono, chainVars, opens, contacts, jobs>>

(***************************************************************************)
(* verify, one action for each stretch of code between two awaits.         *)
(***************************************************************************)
Current(j) == sessions[jobs[j].conn].id = jobs[j].id

MutInForce(j) == Current(j)
\* The verification still speaks for its session: neither replaced nor invalidated meanwhile.
InForce(j) == Current(j) /\ sessions[jobs[j].conn].epoch = jobs[j].epoch

Holding == {"lookup", "head", "known", "upsert"}
PermitFree(j) == \A k \in Verifies : jobs[k].pc \in Holding => jobs[k].id # jobs[j].id

Verify(j, c, claim) ==
    /\ jobs[j].pc = "idle"
    /\ sessions[c].peer # NoPeer
    /\ jobs' = [jobs EXCEPT ![j] = [Idle EXCEPT !.pc = "queued", !.conn = c, !.claim = claim,
                                                !.peer = sessions[c].peer, !.id = sessions[c].id]]
    /\ UNCHANGED <<mono, chainVars, sessionVars, contacts>>

End(j) == jobs' = [jobs EXCEPT ![j] = Idle]
Moves(j, pc) == jobs' = [jobs EXCEPT ![j].pc = pc]

Forget(j) == sessions' = IF Current(j) THEN [sessions EXCEPT ![jobs[j].conn].auth = NoAuth] ELSE sessions

\* With the permit: closed, answered from the cache, or on to the registry.
Acquire(j) ==
    /\ jobs[j].pc = "queued"
    /\ PermitFree(j)
    /\ LET s == sessions[jobs[j].conn] IN
       \/ ~Current(j) /\ End(j) /\ UNCHANGED sessions
       \/ /\ Current(j) /\ s.auth # NoAuth /\ s.auth.account # jobs[j].claim
          /\ Forget(j) /\ End(j)
       \/ /\ Current(j) /\ s.auth.account = jobs[j].claim /\ mono - s.auth.at < MaxAge
          /\ Moves(j, "verified") /\ UNCHANGED sessions
       \/ /\ Current(j)
          /\ s.auth # NoAuth => s.auth.account = jobs[j].claim /\ mono - s.auth.at >= MaxAge
          /\ jobs' = [jobs EXCEPT ![j].pc = "lookup", ![j].epoch = s.epoch]
          /\ UNCHANGED sessions
    /\ UNCHANGED <<mono, chainVars, opens, verifyEpoch, contacts>>

\* A head the node may report: at most Lag blocks behind, possibly one it reported before.
ReportedHeads == {b \in 1..Head : b >= Head - Lag}

\* The head is newer than the last one that authorized this session.
NewerHead(j, b) == Current(j) => b > sessions[jobs[j].conn].last

MutGrounded(j, b) == AccountOf[jobs[j].peer] = jobs[j].claim
Grounded(j, b) == AccountOf[jobs[j].peer] = jobs[j].claim /\ Member(jobs[j].peer, b)

\* getBlockNumber returned: what follows is read at this block.
CaptureHead(j) ==
    /\ jobs[j].pc = "lookup"
    /\ \E b \in ReportedHeads :
         jobs' = [jobs EXCEPT ![j].pc = "head", ![j].block = b, ![j].asked = mono]
    /\ UNCHANGED <<mono, chainVars, sessionVars, contacts>>

\* The account and its roster at that block are read. The window starts now, before the contact is
\* stored, however long ago the node reported the head.
Confirm(j) ==
    /\ jobs[j].pc = "head"
    /\ LET answer == Grounded(j, jobs[j].block) /\ NewerHead(j, jobs[j].block) IN
       \/ /\ answer
          /\ jobs' = [jobs EXCEPT ![j].pc = "known", ![j].at = mono]
          /\ UNCHANGED sessions
       \/ ~answer /\ Forget(j) /\ End(j)
    /\ UNCHANGED <<mono, chainVars, opens, verifyEpoch, contacts>>

\* The registry, or the contact store, failed: the authorization there was stays for its own age.
Fail(j) ==
    /\ jobs[j].pc \in Holding
    /\ End(j)
    /\ UNCHANGED <<mono, chainVars, sessionVars, contacts>>

\* getContactByQid returned.
ContactRead(j) ==
    /\ jobs[j].pc = "known"
    /\ IF InForce(j) THEN Moves(j, "upsert") ELSE End(j)
    /\ UNCHANGED <<mono, chainVars, sessionVars, contacts>>

\* Own devices are no chat contacts.
SavedContact(a) == contacts \cup ({a} \ {Own})

MutWindowStart(j) == mono
WindowStart(j) == jobs[j].at

\* upsertContact returned: the row is there even when the result comes too late.
ContactSaved(j) ==
    /\ jobs[j].pc = "upsert"
    /\ contacts' = SavedContact(jobs[j].claim)
    /\ LET s   == sessions[jobs[j].conn]
           win == [account |-> jobs[j].claim, block |-> jobs[j].block, at |-> WindowStart(j),
                   took |-> jobs[j].at - jobs[j].asked, began |-> jobs[j].epoch]
       IN  IF InForce(j)
           THEN /\ sessions' = [sessions EXCEPT
                      ![jobs[j].conn].auth = win,
                      ![jobs[j].conn].last = win.block,
                      ![jobs[j].conn].mint = IF win.block > s.mint.block
                                             THEN [block |-> win.block, at |-> win.at] ELSE s.mint]
                /\ jobs' = [jobs EXCEPT ![j] = [Idle EXCEPT !.pc = "verified", !.conn = jobs[j].conn,
                               !.peer = jobs[j].peer, !.id = jobs[j].id, !.claim = jobs[j].claim]]
           ELSE End(j) /\ UNCHANGED sessions
    /\ UNCHANGED <<mono, chainVars, opens, verifyEpoch>>

(***************************************************************************)
(* The stream that asked for the verification goes on.                     *)
(***************************************************************************)
MutIsVerified(c, p, a) ==
    /\ sessions[c].peer = p
    /\ sessions[c].auth # NoAuth
    /\ sessions[c].auth.account = a
IsVerified(c, p, a) ==
    /\ sessions[c].peer = p
    /\ sessions[c].auth # NoAuth
    /\ sessions[c].auth.account = a
    /\ mono - sessions[c].auth.at < MaxAge

\* The frame is written, or the one that was read is saved and acknowledged.
Use(j) ==
    /\ jobs[j].pc = "verified"
    /\ IsVerified(jobs[j].conn, jobs[j].peer, jobs[j].claim)
    /\ Moves(j, "used")
    /\ UNCHANGED <<mono, chainVars, sessionVars, contacts>>

\* The stream is reset, or its work is done.
Leave(j) ==
    /\ \/ jobs[j].pc = "used"
       \/ jobs[j].pc = "verified" /\ ~IsVerified(jobs[j].conn, jobs[j].peer, jobs[j].claim)
    /\ End(j)
    /\ UNCHANGED <<mono, chainVars, sessionVars, contacts>>

VerifyStep(j) ==
    \/ \E c \in Conns, a \in Accounts : Verify(j, c, a)
    \/ Acquire(j) \/ CaptureHead(j) \/ Confirm(j) \/ Fail(j) \/ ContactRead(j) \/ ContactSaved(j) \/ Leave(j)

Environment ==
    \/ Tick
    \/ \E gone \in SUBSET Peers : NewBlock(gone)
    \/ \E c \in Conns, p \in Peers : Opened(c, p) \/ Closed(c, p)

Next ==
    \/ Environment
    \/ Clear
    \/ InvalidateAuthorization
    \/ \E j \in Verifies : VerifyStep(j) \/ Use(j)

Spec == Init /\ [][Next]_vars

(***************************************************************************)
(* Properties.                                                             *)
(***************************************************************************)
\* Whatever connection id was reused meanwhile, an authorization names the account its own peer was a
\* device of, at a block the registry really had (p2p-sessions.ts verify, lines 155-226), and only
\* accounts with a device the registry has known become contacts, never the own one (lines 250-257).
AuthorizedPeersWereMembers ==
    /\ \A c \in Conns : sessions[c].auth # NoAuth =>
        /\ sessions[c].auth.account = AccountOf[sessions[c].peer]
        /\ sessions[c].auth.block \in 1..Head
        /\ Member(sessions[c].peer, sessions[c].auth.block)
    /\ \A a \in contacts : a # Own /\ \E p \in Peers : AccountOf[p] = a /\ removedAt[p] > 1

\* A verification that was running when authorizations were invalidated writes none
\* (p2p-sessions.ts:104-111 and the epoch checks at 246 and 259).
NoneFromBeforeInvalidation ==
    \A c \in Conns : sessions[c].auth # NoAuth =>
        sessions[c].auth.began = verifyEpoch /\ sessions[c].epoch = verifyEpoch

\* A head opens one window on a session: a node that repeats it, two verifications at a time, or an
\* invalidation in between start no second one (p2p-sessions.ts:99-103 and 214-226).
OneWindowPerHead ==
    \A c \in Conns : sessions[c].auth # NoAuth =>
        sessions[c].mint = [block |-> sessions[c].auth.block, at |-> sessions[c].auth.at]

\* The node can report no head any more at which the peer was a device, for MaxAge or longer, the time
\* not counted that the roster read of this authorization took.
LongRemoved(p, auth) ==
    /\ removedAt[p] + Lag <= Head
    /\ mono - bornAt[removedAt[p] + Lag] >= MaxAge + auth.took

\* A removed device is authorized for less than MaxAge, and the time one read of its roster took, after
\* the last moment at which the node could still report it, however slow the contact store is, however
\* many verifications there are and whatever heads the node repeats (p2p-sessions.ts:214-230; the read
\* has no limit of its own but the transport's, registry-reader.ts:203-222 and 302-321).
RemovalTakesEffect ==
    \A c \in Conns, p \in Peers, a \in Accounts : IsVerified(c, p, a) => ~LongRemoved(p, sessions[c].auth)

\* Nothing but a device of the claimed account is acted on, and none that had been removed for longer
\* than that when it was (the isVerified checks of cli/src/chat.ts:219,303,556, mobile p2p-send.ts:185).
UsedPeersAreMembers ==
    [][\A j \in Verifies : jobs[j].pc # "used" /\ jobs'[j].pc = "used" =>
          LET p == jobs[j].peer IN
          /\ AccountOf[p] = jobs[j].claim
          /\ removedAt[p] > 1
          /\ ~LongRemoved(p, sessions[jobs[j].conn].auth)]_vars
=============================================================================
