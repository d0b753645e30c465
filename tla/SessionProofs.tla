---------------------------- MODULE SessionProofs ---------------------------
(***************************************************************************)
(* For any number of connections, peers, accounts and verifications at a   *)
(* time: who is authorized was a device of the account it claims, for no   *)
(* longer than a window after it last was, and nothing else is acted on.   *)
(*                                                                         *)
(* The strengthening follows a verification from the registry's answer to  *)
(* the authorization it writes: what it found, when, and that it is alone  *)
(* with the permit of its session.                                         *)
(***************************************************************************)
EXTENDS HolderSessions, TLAPS

\* The node could report block b at time t, now and after the step.
Reported(b, t) ==
  b \in 1..Head /\ t <= mono /\ \A d \in 1..Head : d > b + Lag => bornAt[d] >= t

ReportedNext(b, t) ==
  b \in 1..Head' /\ t <= mono' /\ \A d \in 1..Head' : d > b + Lag => bornAt'[d] >= t

\* At that block the registry had the peer as a device of the account.
Grounds(p, a, b, t) == AccountOf[p] = a /\ b < removedAt[p] /\ Reported(b, t)
GroundsNext(p, a, b, t) == AccountOf[p] = a /\ b < removedAt'[p] /\ ReportedNext(b, t)

\* Session objects: no two have one identity, all are of the present epoch.
SessionFits(x) ==
  /\ x.id <= opens
  /\ x.peer # NoPeer => x.epoch = verifyEpoch
  /\ x.last = x.mint.block

Authorized(x) ==
  x.auth # NoAuth =>
    /\ Grounds(x.peer, x.auth.account, x.auth.block, x.auth.at - x.auth.took)
    /\ x.auth.began = verifyEpoch
    /\ x.mint = [block |-> x.auth.block, at |-> x.auth.at]

\* A verification knows the peer of its session, the head it was given and what the registry said there.
JobFits(x) ==
  x.pc # "idle" =>
    /\ x.id \in 1..opens /\ x.peer \in Peers /\ x.claim \in Accounts
    /\ sessions[x.conn].id = x.id => sessions[x.conn].peer = x.peer

JobGrounded(x) ==
  /\ x.pc \in Headed => Reported(x.block, x.asked)
  /\ x.pc \in {"known", "upsert"} =>
       /\ Grounds(x.peer, x.claim, x.block, x.asked) /\ x.asked <= x.at
       /\ sessions[x.conn].id = x.id => x.block > sessions[x.conn].last

\* One verification at a time holds the permit of a session.
Permits ==
  \A j, k \in Verifies : j # k /\ jobs[j].pc \in Holding /\ jobs[k].pc \in Holding
    => jobs[j].id # jobs[k].id

KnownContacts == \A a \in contacts : a # Own /\ \E p \in Peers : AccountOf[p] = a /\ removedAt[p] > 1

SessionInv ==
  /\ TypeOK
  /\ \A c \in Conns : SessionFits(sessions[c]) /\ Authorized(sessions[c])
  /\ \A j \in Verifies : JobFits(jobs[j]) /\ JobGrounded(jobs[j])
  /\ Permits /\ KnownContacts

\* Each verification stays where it is or ends.
JobsEnd == jobs' \in [Verifies -> Jobs] /\ \A j \in Verifies : jobs'[j] \in {jobs[j], Idle}

\* Time goes on, by any amount.
Passes == mono' \in Time /\ mono <= mono' /\ UNCHANGED <<chainVars, sessionVars, contacts, jobs>>

\* The records of connections that have a session.
Live == [peer : Peers, id : 1..MaxOpens, epoch : 0..MaxEpoch, last : 0..MaxBlock,
         auth : Auths, mint : [block : 0..MaxBlock, at : Time]]

-----------------------------------------------------------------------------

\* The last number of an interval.
LEMMA GreatestOfInterval ==
    ASSUME NEW n \in Nat \ {0}, NEW S, S = 1..n
    PROVE  (CHOOSE b \in S : \A d \in S : d <= b) = n
<1>1. n \in S /\ \A d \in S : d <= n
  OBVIOUS
<1>2. \A b \in S : (\A d \in S : d <= b) => b = n
  BY <1>1
<1> QED
  BY <1>1, <1>2

\* The blocks are 1 to the head.
LEMMA HeadIsLast ==
    ASSUME TypeOK
    PROVE  Head \in 1..MaxBlock /\ DOMAIN bornAt = 1..Head /\ bornAt \in [1..Head -> Time]
<1>1. PICK n \in 1..MaxBlock : bornAt \in [1..n -> Time]
  BY DEF TypeOK
<1>2. n \in Nat \ {0} /\ DOMAIN bornAt = 1..n
  BY <1>1, SessionAssumption
<1>3. Head = n
  BY <1>2, GreatestOfInterval DEF Head
<1> QED
  BY <1>1, <1>2, <1>3

\* A connection without a session, and one with.
LEMMA SessionCases ==
    ASSUME NEW x \in Sessions
    PROVE  /\ x = NoSession \/ x \in Live
           /\ x \in Live => x.peer # NoPeer /\ x.id \in 1..MaxOpens
  BY SessionAssumption DEF Sessions, Live, NoSession

\* The fields of a connection without a session.
LEMMA NoSessionIs ==
    /\ NoSession.peer = NoPeer /\ NoSession.id = 0 /\ NoSession.auth = NoAuth
    /\ NoSession.last = 0 /\ NoSession.mint.block = 0
  BY DEF NoSession

\* The records without content are of their types.
LEMMA RecordsFit ==
    /\ NoAuth \in Auths /\ NoSession \in Sessions
    /\ Idle \in Jobs /\ Idle.pc = "idle" /\ Idle.id = 0
<1>1. 0 \in 0..MaxBlock /\ 0 \in Time /\ 0 \in 0..MaxEpoch /\ 0 \in 0..MaxOpens
  BY SessionAssumption DEF Time
<1>2. (CHOOSE c \in Conns : TRUE) \in Conns
  BY SessionAssumption
<1> QED
  BY <1>1, <1>2 DEF NoAuth, Auths, NoSession, Sessions, Idle, Jobs

\* Nothing is connected at the start.
LEMMA SessionInit == Init => SessionInv
<1> SUFFICES ASSUME Init PROVE SessionInv
  OBVIOUS
<1>1. TypeOK
  <2>1. mono \in Time /\ opens \in 0..MaxOpens /\ verifyEpoch \in 0..MaxEpoch /\ contacts \subseteq Accounts
    BY SessionAssumption DEF Init, Time
  <2>2. bornAt \in [1..1 -> Time] /\ 1 \in 1..MaxBlock
    BY SessionAssumption DEF Init, Time
  <2>3. removedAt \in [Peers -> 1..(MaxBlock + 1)]
    BY SessionAssumption DEF Init
  <2> QED
    BY <2>1, <2>2, <2>3, RecordsFit DEF Init, TypeOK
<1>2. \A c \in Conns : SessionFits(sessions[c]) /\ Authorized(sessions[c])
  <2> SUFFICES ASSUME NEW c \in Conns PROVE SessionFits(sessions[c]) /\ Authorized(sessions[c])
    OBVIOUS
  <2>1. sessions[c] = NoSession /\ opens = 0
    BY DEF Init
  <2>2. NoSession.id <= 0
    BY NoSessionIs
  <2>3. SessionFits(NoSession)
    BY <2>1, <2>2, NoSessionIs DEF SessionFits
  <2>4. Authorized(NoSession)
    BY NoSessionIs DEF Authorized
  <2> QED
    BY <2>1, <2>3, <2>4
<1>3. \A j \in Verifies : JobFits(jobs[j]) /\ JobGrounded(jobs[j]) /\ jobs[j].pc \notin Holding
  BY RecordsFit DEF Init, JobFits, JobGrounded, Headed, Holding
<1> QED
  BY <1>1, <1>2, <1>3 DEF Init, SessionInv, Permits, KnownContacts

-----------------------------------------------------------------------------
(* The registry and the clock.                                             *)

\* What the registry said is not undone: a device leaves in a new block, at the present time.
LEMMA ChainStep ==
    ASSUME TypeOK, Passes \/ \E gone \in SUBSET Peers : NewBlock(gone)
    PROVE  /\ mono' \in Time
           /\ \E n \in 1..MaxBlock : bornAt' \in [1..n -> Time]
           /\ removedAt' \in [Peers -> 1..(MaxBlock + 1)]
           /\ \A b, t : t \in Int /\ Reported(b, t) => ReportedNext(b, t)
           /\ \A p \in Peers : \A b : b < removedAt[p] /\ b \in 1..Head => b < removedAt'[p]
           /\ \A p \in Peers : removedAt[p] > 1 => removedAt'[p] > 1
           /\ UNCHANGED <<sessions, opens, verifyEpoch, contacts, jobs>>
<1>1. /\ mono \in Time /\ removedAt \in [Peers -> 1..(MaxBlock + 1)]
      /\ Head \in 1..MaxBlock /\ DOMAIN bornAt = 1..Head /\ bornAt \in [1..Head -> Time]
  BY HeadIsLast DEF TypeOK
<1>2. MaxBlock \in Nat \ {0} /\ MaxTime \in Nat /\ Lag \in Nat
  BY SessionAssumption
<1>3. CASE Passes
  <2>1. mono' \in Time /\ mono' >= mono
    BY <1>1, <1>2, <1>3 DEF Passes, Time
  <2>2. UNCHANGED <<bornAt, removedAt, sessions, opens, verifyEpoch, contacts, jobs>> /\ Head' = Head
    BY <1>3 DEF Passes, chainVars, sessionVars, Head
  <2>3. ASSUME NEW b, NEW t \in Int, Reported(b, t) PROVE ReportedNext(b, t)
    <3>1. t <= mono'
      BY <1>1, <1>2, <2>1, <2>3 DEF Reported, Time
    <3> QED
      BY <2>2, <2>3, <3>1 DEF Reported, ReportedNext
  <2> QED
    BY <1>1, <2>1, <2>2, <2>3
<1>4. ASSUME NEW gone \in SUBSET Peers, NewBlock(gone)
      PROVE  /\ mono' \in Time
             /\ \E n \in 1..MaxBlock : bornAt' \in [1..n -> Time]
             /\ removedAt' \in [Peers -> 1..(MaxBlock + 1)]
             /\ \A b, t : t \in Int /\ Reported(b, t) => ReportedNext(b, t)
             /\ \A p \in Peers : \A b : b < removedAt[p] /\ b \in 1..Head => b < removedAt'[p]
             /\ \A p \in Peers : removedAt[p] > 1 => removedAt'[p] > 1
             /\ UNCHANGED <<sessions, opens, verifyEpoch, contacts, jobs>>
  <2>1. Head + 1 \in 1..MaxBlock /\ mono' = mono
    BY <1>1, <1>2, <1>4 DEF NewBlock
  <2>2. /\ bornAt' \in [1..(Head + 1) -> Time] /\ DOMAIN bornAt' = 1..(Head + 1)
        /\ bornAt'[Head + 1] = mono /\ \A d \in 1..Head : bornAt'[d] = bornAt[d]
    BY <1>1, <1>4 DEF NewBlock
  <2>3. Head' = Head + 1
    <3>1. ASSUME NEW n \in Nat \ {0}, DOMAIN bornAt' = 1..n PROVE Head' = n
      BY <3>1, GreatestOfInterval DEF Head
    <3>2. Head + 1 \in Nat \ {0}
      BY <1>1
    <3> QED
      BY <2>2, <3>1, <3>2
  <2>4. \A p \in Peers : \/ removedAt'[p] = removedAt[p]
                         \/ (removedAt[p] > MaxBlock /\ removedAt'[p] = Head + 1)
    BY <1>4 DEF NewBlock
  <2>5. removedAt' \in [Peers -> 1..(MaxBlock + 1)]
    BY <1>1, <1>2, <1>4, <2>1 DEF NewBlock
  <2>6. ASSUME NEW b, NEW t \in Int, Reported(b, t) PROVE ReportedNext(b, t)
    <3>1. b \in 1..Head'
      BY <1>1, <2>3, <2>6 DEF Reported
    <3>2. ASSUME NEW d \in 1..Head', d > b + Lag PROVE bornAt'[d] >= t
      <4>1. d \in 1..Head \/ d = Head + 1
        BY <1>1, <2>3, <3>2
      <4>2. mono >= t
        BY <1>1, <1>2, <2>1, <2>6 DEF Reported, Time
      <4> QED
        BY <2>2, <2>6, <3>2, <4>1, <4>2 DEF Reported
    <3> QED
      BY <1>1, <2>1, <2>6, <3>1, <3>2 DEF Reported, ReportedNext
  <2>7. /\ \A p \in Peers : removedAt[p] > 1 => removedAt'[p] > 1
        /\ \A p \in Peers : \A b : b < removedAt[p] /\ b \in 1..Head => b < removedAt'[p]
    BY <1>1, <2>4
  <2>8. UNCHANGED <<sessions, opens, verifyEpoch, contacts, jobs>>
    BY <1>4 DEF NewBlock, sessionVars
  <2> QED
    BY <1>1, <2>1, <2>2, <2>5, <2>6, <2>7, <2>8
<1> QED
  BY <1>3, <1>4

\* A tick of the clock.
LEMMA TickPasses == ASSUME TypeOK, Tick PROVE Passes
  BY SessionAssumption DEF TypeOK, Tick, Passes, Time

\* Time and blocks keep the invariant.
LEMMA ChainKeeps == ASSUME SessionInv, Passes \/ \E gone \in SUBSET Peers : NewBlock(gone) PROVE SessionInv'
<1>1. /\ TypeOK /\ Permits /\ KnownContacts
      /\ \A c \in Conns : SessionFits(sessions[c]) /\ Authorized(sessions[c])
      /\ \A j \in Verifies : JobFits(jobs[j]) /\ JobGrounded(jobs[j])
  BY DEF SessionInv
<1>2. /\ mono' \in Time
      /\ \E n \in 1..MaxBlock : bornAt' \in [1..n -> Time]
      /\ removedAt' \in [Peers -> 1..(MaxBlock + 1)]
      /\ \A b, t : t \in Int /\ Reported(b, t) => ReportedNext(b, t)
      /\ \A p \in Peers : \A b : b < removedAt[p] /\ b \in 1..Head => b < removedAt'[p]
      /\ \A p \in Peers : removedAt[p] > 1 => removedAt'[p] > 1
      /\ UNCHANGED <<sessions, opens, verifyEpoch, contacts, jobs>>
  BY <1>1, ChainStep
<1>3. TypeOK'
  BY <1>1, <1>2 DEF TypeOK
<1> DEFINE Kept(p, a, b, t) == Grounds(p, a, b, t) => GroundsNext(p, a, b, t)
<1>7. \A p \in Peers : \A a, b, t : t \in Int => Kept(p, a, b, t)
  BY <1>2 DEF Grounds, GroundsNext, Reported
<1>4. ASSUME NEW c \in Conns PROVE SessionFits(sessions[c])' /\ Authorized(sessions[c])'
  <2>1. SessionFits(sessions[c])'
    BY <1>1, <1>2 DEF SessionFits
  <2>2. CASE sessions[c].auth = NoAuth
    BY <1>2, <2>1, <2>2 DEF Authorized
  <2>3. CASE sessions[c].auth # NoAuth
    <3>1. sessions[c] \in Live
      BY <1>1, <2>3, SessionCases, NoSessionIs DEF TypeOK
    <3>2. sessions[c].peer \in Peers /\ sessions[c].auth.at \in Time /\ sessions[c].auth.took \in Time
      BY <3>1 DEF Live, Auths
    <3>3. sessions[c].auth.at - sessions[c].auth.took \in Int
      BY <3>2, SessionAssumption DEF Time
    <3>4. GroundsNext(sessions[c].peer, sessions[c].auth.account, sessions[c].auth.block,
                      sessions[c].auth.at - sessions[c].auth.took)
      BY <1>1, <1>7, <2>3, <3>2, <3>3 DEF Authorized
    <3> QED
      BY <1>1, <1>2, <2>1, <2>3, <3>4 DEF Authorized, Grounds, GroundsNext, Reported, ReportedNext
  <2> QED
    BY <2>1, <2>2, <2>3
<1>5. ASSUME NEW j \in Verifies PROVE JobFits(jobs[j])' /\ JobGrounded(jobs[j])'
  <2>1. JobFits(jobs[j])'
    BY <1>1, <1>2 DEF JobFits
  <2>2. CASE jobs[j].pc \in {"known", "upsert"}
    <3>1. jobs[j].peer \in Peers /\ jobs[j].asked \in Int
      BY <1>1, <2>2, SessionAssumption DEF JobFits, TypeOK, Jobs, Time
    <3>2. GroundsNext(jobs[j].peer, jobs[j].claim, jobs[j].block, jobs[j].asked)
      BY <1>1, <1>7, <2>2, <3>1 DEF JobGrounded
    <3>3. jobs[j].asked <= jobs[j].at /\ (sessions[jobs[j].conn].id = jobs[j].id => jobs[j].block > sessions[jobs[j].conn].last)
      BY <1>1, <2>2 DEF JobGrounded
    <3>4. JobGrounded(jobs[j])'
      BY <1>2, <3>2, <3>3 DEF JobGrounded, Grounds, GroundsNext, Reported, ReportedNext
    <3> QED
      BY <2>1, <3>4
  <2>3. CASE jobs[j].pc = "head"
    <3>1. jobs[j].asked \in Int
      BY <1>1, SessionAssumption DEF TypeOK, Jobs, Time
    <3>2. ReportedNext(jobs[j].block, jobs[j].asked)
      BY <1>1, <1>2, <2>3, <3>1 DEF JobGrounded, Headed
    <3> QED
      BY <1>2, <2>1, <2>3, <3>2 DEF JobGrounded, Reported, ReportedNext
  <2> QED
    BY <1>2, <2>1, <2>2, <2>3 DEF JobGrounded, Headed
<1>6. Permits' /\ KnownContacts'
  BY <1>1, <1>2 DEF Permits, KnownContacts
<1> QED
  BY <1>3, <1>4, <1>5, <1>6 DEF SessionInv

-----------------------------------------------------------------------------
(* Connections and invalidation.                                           *)

\* The registry stays as it is and the verifications stay or end, while sessions are made and lost:
\* each is new, gone, or keeps its identity and freshness.
LEMMA SessionsChange ==
    ASSUME SessionInv, UNCHANGED <<mono, bornAt, removedAt, contacts>>, JobsEnd,
           opens' \in 0..MaxOpens, opens <= opens', verifyEpoch' \in 0..MaxEpoch,
           sessions' \in [Conns -> Sessions],
           \A c \in Conns :
             /\ SessionFits(sessions[c])' /\ Authorized(sessions[c])'
             /\ \/ sessions'[c].id > opens
                \/ sessions'[c].id = 0
                \/ /\ sessions'[c].id = sessions[c].id /\ sessions'[c].peer = sessions[c].peer
                   /\ sessions'[c].last = sessions[c].last
    PROVE  SessionInv'
<1>1. /\ TypeOK /\ Permits /\ KnownContacts
      /\ \A j \in Verifies : JobFits(jobs[j]) /\ JobGrounded(jobs[j])
  BY DEF SessionInv
<1>2. TypeOK'
  BY <1>1 DEF TypeOK, JobsEnd
<1>3. Permits' /\ KnownContacts'
  BY <1>1, RecordsFit DEF Permits, KnownContacts, JobsEnd, Holding
<1>4. ASSUME NEW j \in Verifies, jobs[j].pc # "idle", jobs'[j] = jobs[j]
      PROVE  JobFits(jobs[j])' /\ JobGrounded(jobs[j])'
  <2>1. /\ jobs[j].conn \in Conns /\ jobs[j].id \in 1..opens /\ jobs[j].peer \in Peers
        /\ jobs[j].claim \in Accounts
        /\ opens \in Nat /\ opens' \in Nat
    BY <1>1, <1>4 DEF TypeOK, Jobs, JobFits
  <2>2. sessions'[jobs[j].conn].id = jobs[j].id =>
          /\ sessions[jobs[j].conn].id = jobs[j].id
          /\ sessions'[jobs[j].conn].peer = sessions[jobs[j].conn].peer
          /\ sessions'[jobs[j].conn].last = sessions[jobs[j].conn].last
    BY <2>1
  <2>3. JobFits(jobs[j])'
    <3>1. jobs[j].id \in 1..opens'
      BY <2>1
    <3> QED
      BY <1>1, <1>4, <2>1, <2>2, <3>1 DEF JobFits
  <2>4. JobGrounded(jobs[j])'
    <3>1. ASSUME jobs[j].pc \in {"known", "upsert"}
          PROVE  Grounds(jobs[j].peer, jobs[j].claim, jobs[j].block, jobs[j].asked)'
      <4>1. Grounds(jobs[j].peer, jobs[j].claim, jobs[j].block, jobs[j].asked)
        BY <1>1, <3>1 DEF JobGrounded
      <4> QED
        BY <1>4, <4>1 DEF Grounds, Reported, Head
    <3>2. ASSUME jobs[j].pc \in {"known", "upsert"}, sessions'[jobs[j].conn].id = jobs[j].id
          PROVE  jobs[j].block > sessions'[jobs[j].conn].last
      BY <1>1, <2>2, <3>2 DEF JobGrounded
    <3>3. ASSUME jobs[j].pc \in Headed PROVE Reported(jobs[j].block, jobs[j].asked)'
      BY <1>1, <1>4, <3>3 DEF JobGrounded, Reported, Head
    <3>4. jobs[j].pc \in {"known", "upsert"} => jobs[j].asked <= jobs[j].at
      BY <1>1 DEF JobGrounded
    <3> QED
      BY <1>4, <3>1, <3>2, <3>3, <3>4 DEF JobGrounded
  <2> QED
    BY <2>3, <2>4
<1>5. \A j \in Verifies : JobFits(jobs[j])' /\ JobGrounded(jobs[j])'
  <2> SUFFICES ASSUME NEW j \in Verifies PROVE JobFits(jobs[j])' /\ JobGrounded(jobs[j])'
    OBVIOUS
  <2>1. CASE jobs'[j] = jobs[j] /\ jobs[j].pc # "idle"
    BY <1>4, <2>1
  <2>2. CASE jobs'[j].pc = "idle"
    BY <2>2 DEF JobFits, JobGrounded, Headed
  <2> QED
    BY <2>1, <2>2, RecordsFit DEF JobsEnd
<1> QED
  BY <1>2, <1>3, <1>5 DEF SessionInv

\* As a rule they all stay.
LEMMA SameJobs == ASSUME TypeOK, UNCHANGED jobs PROVE JobsEnd
  BY DEF TypeOK, JobsEnd

\* An invalidation takes every authorization away and moves the epoch on.
LEMMA InvalidateKeeps ==
    ASSUME SessionInv, verifyEpoch < MaxEpoch, InvalidateSessions, JobsEnd,
           UNCHANGED <<mono, chainVars, opens, contacts>>
    PROVE  SessionInv'
<1>1. /\ sessions \in [Conns -> Sessions] /\ opens \in 0..MaxOpens /\ verifyEpoch \in 0..MaxEpoch
      /\ MaxOpens \in Nat /\ MaxEpoch \in Nat
      /\ \A c \in Conns : SessionFits(sessions[c]) /\ Authorized(sessions[c])
  BY SessionAssumption DEF SessionInv, TypeOK
<1>2. /\ UNCHANGED <<mono, bornAt, removedAt, contacts, opens>>
      /\ verifyEpoch' = verifyEpoch + 1 /\ verifyEpoch' \in 0..MaxEpoch
      /\ sessions' = [c \in Conns |-> Invalidated(sessions[c], verifyEpoch')]
  BY <1>1 DEF InvalidateSessions, chainVars
<1>3. ASSUME NEW x \in Live, NEW e \in 0..MaxEpoch
      PROVE  /\ Invalidated(x, e) \in Live
             /\ Invalidated(x, e).id = x.id /\ Invalidated(x, e).peer = x.peer
             /\ Invalidated(x, e).epoch = e
             /\ Invalidated(x, e).last = x.last /\ Invalidated(x, e).mint = x.mint
             /\ Invalidated(x, e).auth = NoAuth
  <2>1. x.peer # NoPeer
    BY SessionAssumption DEF Live
  <2>2. Invalidated(x, e) = [x EXCEPT !.auth = NoAuth, !.epoch = e]
    BY <2>1 DEF Invalidated
  <2> QED
    BY <2>2, RecordsFit DEF Live
<1>4. Invalidated(NoSession, verifyEpoch') = NoSession
  BY NoSessionIs DEF Invalidated
<1>5. ASSUME NEW c \in Conns
      PROVE  /\ sessions'[c] \in Sessions
             /\ sessions'[c].id = sessions[c].id /\ sessions'[c].peer = sessions[c].peer
             /\ sessions'[c].auth = NoAuth
             /\ sessions'[c].last = sessions[c].last /\ sessions'[c].mint = sessions[c].mint
             /\ sessions'[c].peer # NoPeer => sessions'[c].epoch = verifyEpoch'
  <2>1. sessions'[c] = Invalidated(sessions[c], verifyEpoch')
    BY <1>2
  <2>2. CASE sessions[c] = NoSession
    BY <1>4, <2>1, <2>2, RecordsFit, NoSessionIs
  <2>3. CASE sessions[c] \in Live
    <3>1. Live \subseteq Sessions
      BY DEF Live, Sessions
    <3> QED
      BY <1>2, <1>3, <2>1, <2>3, <3>1
  <2> QED
    BY <1>1, <2>2, <2>3, SessionCases
<1>6. sessions' \in [Conns -> Sessions]
  BY <1>2, <1>5
<1>7. ASSUME NEW c \in Conns PROVE SessionFits(sessions[c])' /\ Authorized(sessions[c])'
  <2>1. SessionFits(sessions[c])'
    BY <1>1, <1>2, <1>5 DEF SessionFits
  <2>2. Authorized(sessions[c])'
    BY <1>5 DEF Authorized
  <2> QED
    BY <2>1, <2>2
<1> QED
  BY <1>1, <1>2, <1>5, <1>6, <1>7, SessionsChange

\* So do connections that open and close, and invalidations.
LEMMA SessionStepKeeps ==
    ASSUME SessionInv, \/ \E c \in Conns, p \in Peers : Opened(c, p) \/ Closed(c, p)
                       \/ Clear \/ InvalidateAuthorization
    PROVE  SessionInv'
<1>1. /\ sessions \in [Conns -> Sessions] /\ opens \in 0..MaxOpens /\ verifyEpoch \in 0..MaxEpoch
      /\ MaxOpens \in Nat /\ MaxEpoch \in Nat
      /\ \A c \in Conns : SessionFits(sessions[c]) /\ Authorized(sessions[c])
  BY SessionAssumption DEF SessionInv, TypeOK
<1>2. ASSUME NEW c \in Conns, UNCHANGED <<mono, bornAt, removedAt, verifyEpoch>>, opens <= opens',
             opens' \in Nat,
             sessions'[c] = sessions[c]
      PROVE  SessionFits(sessions[c])' /\ Authorized(sessions[c])'
  <2>1. sessions[c].id \in 0..MaxOpens
    BY <1>1, SessionCases, NoSessionIs
  <2>2. SessionFits(sessions[c])'
    BY <1>1, <1>2, <2>1 DEF SessionFits
  <2>3. Authorized(sessions[c])'
    BY <1>1, <1>2 DEF Authorized, Grounds, Reported, Head
  <2> QED
    BY <2>2, <2>3
<1>3. ASSUME NEW c \in Conns, opens' \in Nat, sessions'[c] = NoSession
      PROVE  SessionFits(sessions[c])' /\ Authorized(sessions[c])'
  <2>1. SessionFits(sessions[c])'
    BY <1>3, NoSessionIs DEF SessionFits
  <2>2. Authorized(sessions[c])'
    BY <1>3, NoSessionIs DEF Authorized
  <2> QED
    BY <2>1, <2>2
<1>4. ASSUME NEW c \in Conns, NEW p \in Peers, Opened(c, p) PROVE SessionInv'
  <2> DEFINE new == [NoSession EXCEPT !.peer = p, !.id = opens + 1, !.epoch = verifyEpoch]
  <2>1. /\ UNCHANGED <<mono, bornAt, removedAt, contacts, jobs, verifyEpoch>>
        /\ opens' = opens + 1 /\ opens' \in 1..MaxOpens
        /\ sessions' = [sessions EXCEPT ![c] = new]
    <3>1. opens < MaxOpens /\ opens' = opens + 1
      BY <1>4 DEF Opened
    <3>2. opens' \in 1..MaxOpens
      BY <1>1, <3>1
    <3> QED
      BY <1>4, <3>1, <3>2 DEF Opened, chainVars
  <2>2. /\ new.peer = p /\ new.id = opens + 1 /\ new.epoch = verifyEpoch
        /\ new.auth = NoAuth /\ new.last = 0 /\ new.mint.block = 0
    BY DEF NoSession
  <2>3. new \in Sessions
    <3>1. ASSUME NEW i \in 1..MaxOpens, NEW e \in 0..MaxEpoch
          PROVE  [NoSession EXCEPT !.peer = p, !.id = i, !.epoch = e] \in Live
      <4>1. 0 \in 0..MaxBlock /\ 0 \in Time
        BY SessionAssumption DEF Time
      <4> QED
        BY <4>1, RecordsFit DEF NoSession, Live
    <3>2. new \in Live
      BY <1>1, <2>1, <3>1
    <3> QED
      BY <3>2 DEF Live, Sessions
  <2> HIDE DEF new
  <2>4. /\ sessions' \in [Conns -> Sessions] /\ sessions'[c] = new
        /\ \A d \in Conns : d # c => sessions'[d] = sessions[d]
    BY <1>1, <2>1, <2>3
  <2>5. SessionFits(sessions[c])' /\ Authorized(sessions[c])'
    <3>1. SessionFits(sessions[c])'
      BY <1>1, <2>1, <2>2, <2>4 DEF SessionFits
    <3>2. Authorized(sessions[c])'
      BY <2>2, <2>4 DEF Authorized
    <3> QED
      BY <3>1, <3>2
  <2>6. opens <= opens' /\ opens' \in 0..MaxOpens /\ new.id > opens
    BY <1>1, <2>1, <2>2
  <2>7. \A d \in Conns : SessionFits(sessions[d])' /\ Authorized(sessions[d])'
    BY <1>2, <2>1, <2>4, <2>5, <2>6
  <2> QED
    BY <1>1, <2>1, <2>4, <2>6, <2>7, SameJobs, SessionsChange DEF SessionInv
<1>5. ASSUME NEW c \in Conns, NEW p \in Peers, Closed(c, p) PROVE SessionInv'
  <2>1. UNCHANGED <<mono, bornAt, removedAt, contacts, jobs, verifyEpoch, opens>>
    BY <1>5 DEF Closed, chainVars
  <2>2. sessions' \in [Conns -> Sessions] /\ \A d \in Conns : sessions'[d] \in {sessions[d], NoSession}
    BY <1>1, <1>5, RecordsFit DEF Closed
  <2>3. \A d \in Conns : SessionFits(sessions[d])' /\ Authorized(sessions[d])'
    BY <1>1, <1>2, <1>3, <2>1, <2>2
  <2> QED
    BY <1>1, <2>1, <2>2, <2>3, NoSessionIs, SameJobs, SessionsChange DEF SessionInv
<1>6. ASSUME Clear PROVE SessionInv'
  <2>1. UNCHANGED <<mono, bornAt, removedAt, contacts, jobs, verifyEpoch, opens>>
    BY <1>6 DEF Clear, chainVars
  <2>2. sessions' \in [Conns -> Sessions] /\ \A d \in Conns : sessions'[d] = NoSession
    BY <1>6, RecordsFit DEF Clear
  <2>3. \A d \in Conns : SessionFits(sessions[d])' /\ Authorized(sessions[d])'
    BY <1>1, <1>3, <2>1, <2>2
  <2> QED
    BY <1>1, <2>1, <2>2, <2>3, NoSessionIs, SameJobs, SessionsChange DEF SessionInv
<1>7. ASSUME InvalidateAuthorization PROVE SessionInv'
  BY <1>1, <1>7, SameJobs, InvalidateKeeps DEF InvalidateAuthorization, SessionInv
<1> QED
  BY <1>4, <1>5, <1>6, <1>7

-----------------------------------------------------------------------------
(* Verifications.                                                          *)

\* One verification goes on to x; it may take the authorization of its session away.
LEMMA JobMoves ==
    ASSUME SessionInv, NEW j \in Verifies, NEW x \in Jobs, jobs' = [jobs EXCEPT ![j] = x],
           UNCHANGED <<mono, bornAt, removedAt, opens, verifyEpoch, contacts>>,
           sessions' = sessions \/ \E c \in Conns : sessions' = [sessions EXCEPT ![c].auth = NoAuth],
           JobFits(x), JobGrounded(x),
           x.pc \in Holding => \A k \in Verifies : k # j /\ jobs[k].pc \in Holding => jobs[k].id # x.id
    PROVE  SessionInv'
<1>1. /\ TypeOK /\ Permits /\ KnownContacts
      /\ \A c \in Conns : SessionFits(sessions[c]) /\ Authorized(sessions[c])
      /\ \A k \in Verifies : JobFits(jobs[k]) /\ JobGrounded(jobs[k])
      /\ sessions \in [Conns -> Sessions] /\ jobs \in [Verifies -> Jobs]
  BY DEF SessionInv, TypeOK
<1>2. ASSUME NEW y \in Sessions
      PROVE  /\ [y EXCEPT !.auth = NoAuth] \in Sessions
             /\ [y EXCEPT !.auth = NoAuth].id = y.id /\ [y EXCEPT !.auth = NoAuth].peer = y.peer
             /\ [y EXCEPT !.auth = NoAuth].last = y.last /\ [y EXCEPT !.auth = NoAuth].mint = y.mint
             /\ [y EXCEPT !.auth = NoAuth].epoch = y.epoch /\ [y EXCEPT !.auth = NoAuth].auth = NoAuth
  <2>1. CASE y = NoSession
    <3>1. [NoSession EXCEPT !.auth = NoAuth] = NoSession
      BY DEF NoSession
    <3> QED
      BY <2>1, <3>1, NoSessionIs, RecordsFit
  <2>2. CASE y \in Live
    <3>1. [y EXCEPT !.auth = NoAuth] \in Live
      BY <2>2, RecordsFit DEF Live
    <3>2. Live \subseteq Sessions
      BY DEF Live, Sessions
    <3> QED
      BY <2>2, <3>1, <3>2 DEF Live
  <2> QED
    BY <2>1, <2>2, SessionCases
<1>3. /\ sessions' \in [Conns -> Sessions]
      /\ \A c \in Conns : \/ sessions'[c] = sessions[c]
                          \/ sessions'[c] = [sessions[c] EXCEPT !.auth = NoAuth]
  BY <1>1, <1>2
<1>4. \A c \in Conns : /\ sessions'[c].id = sessions[c].id /\ sessions'[c].peer = sessions[c].peer
                       /\ sessions'[c].last = sessions[c].last /\ sessions'[c].mint = sessions[c].mint
                       /\ sessions'[c].epoch = sessions[c].epoch
                       /\ sessions'[c].auth = sessions[c].auth \/ sessions'[c].auth = NoAuth
  <2> SUFFICES ASSUME NEW c \in Conns, NEW y \in Sessions, sessions[c] = y
               PROVE  /\ sessions'[c].id = y.id /\ sessions'[c].peer = y.peer
                      /\ sessions'[c].last = y.last /\ sessions'[c].mint = y.mint
                      /\ sessions'[c].epoch = y.epoch
                      /\ sessions'[c].auth = y.auth \/ sessions'[c].auth = NoAuth
    BY <1>1
  <2>1. CASE sessions'[c] = y
    BY <2>1
  <2>2. CASE sessions'[c] = [y EXCEPT !.auth = NoAuth]
    BY <1>2, <2>2
  <2> QED
    BY <1>3, <2>1, <2>2
<1>5. jobs' \in [Verifies -> Jobs] /\ jobs'[j] = x /\ \A k \in Verifies : k # j => jobs'[k] = jobs[k]
  BY <1>1
<1>6. TypeOK'
  BY <1>1, <1>3, <1>5 DEF TypeOK
<1>7. ASSUME NEW c \in Conns PROVE SessionFits(sessions[c])' /\ Authorized(sessions[c])'
  <2>1. SessionFits(sessions[c])'
    BY <1>1, <1>4 DEF SessionFits
  <2>2. CASE sessions'[c].auth = NoAuth
    BY <2>1, <2>2 DEF Authorized
  <2>3. CASE sessions'[c].auth = sessions[c].auth
    <3>1. Authorized(sessions[c])'
      BY <1>1, <1>4, <2>3 DEF Authorized, Grounds, Reported, Head
    <3> QED
      BY <2>1, <3>1
  <2> QED
    BY <1>4, <2>2, <2>3
<1>8. ASSUME NEW y \in Jobs, JobFits(y), JobGrounded(y)
      PROVE  /\ y.pc # "idle" =>
                  /\ y.id \in 1..opens' /\ y.peer \in Peers /\ y.claim \in Accounts
                  /\ sessions'[y.conn].id = y.id => sessions'[y.conn].peer = y.peer
             /\ y.pc \in Headed => ReportedNext(y.block, y.asked)
             /\ y.pc \in {"known", "upsert"} =>
                  /\ GroundsNext(y.peer, y.claim, y.block, y.asked) /\ y.asked <= y.at
                  /\ sessions'[y.conn].id = y.id => y.block > sessions'[y.conn].last
  <2>1. y.conn \in Conns
    BY DEF Jobs
  <2>2. /\ sessions'[y.conn].id = sessions[y.conn].id /\ sessions'[y.conn].peer = sessions[y.conn].peer
        /\ sessions'[y.conn].last = sessions[y.conn].last
    BY <1>4, <2>1
  <2>3. /\ Grounds(y.peer, y.claim, y.block, y.asked) => GroundsNext(y.peer, y.claim, y.block, y.asked)
        /\ Reported(y.block, y.asked) => ReportedNext(y.block, y.asked)
    BY DEF Grounds, GroundsNext, Reported, ReportedNext, Head
  <2>4. y.pc # "idle" =>
           /\ y.id \in 1..opens' /\ y.peer \in Peers /\ y.claim \in Accounts
           /\ sessions'[y.conn].id = y.id => sessions'[y.conn].peer = y.peer
    BY <1>8, <2>2 DEF JobFits
  <2>5. /\ y.pc \in Headed => ReportedNext(y.block, y.asked)
        /\ y.pc \in {"known", "upsert"} =>
             /\ GroundsNext(y.peer, y.claim, y.block, y.asked) /\ y.asked <= y.at
             /\ sessions'[y.conn].id = y.id => y.block > sessions'[y.conn].last
    BY <1>8, <2>2, <2>3 DEF JobGrounded
  <2> QED
    BY <2>4, <2>5
<1>9. ASSUME NEW k \in Verifies PROVE JobFits(jobs[k])' /\ JobGrounded(jobs[k])'
  <2>1. jobs'[k] \in Jobs /\ JobFits(jobs'[k]) /\ JobGrounded(jobs'[k])
    BY <1>1, <1>5
  <2>2. JobFits(jobs[k])'
    BY <1>8, <2>1 DEF JobFits
  <2>3. JobGrounded(jobs[k])'
    BY <1>8, <2>1 DEF JobGrounded, Grounds, GroundsNext, Reported, ReportedNext
  <2> QED
    BY <2>2, <2>3
<1>10. Permits'
  BY <1>1, <1>5 DEF Permits
<1>11. KnownContacts'
  BY <1>1 DEF KnownContacts
<1> QED
  BY <1>6, <1>7, <1>9, <1>10, <1>11 DEF SessionInv

\* Everything of a verification but the end that writes an authorization.
LEMMA VerifyKeeps ==
    ASSUME SessionInv, NEW j \in Verifies,
           \/ \E c \in Conns, a \in Accounts : Verify(j, c, a)
           \/ Acquire(j) \/ CaptureHead(j) \/ Confirm(j) \/ Fail(j) \/ ContactRead(j) \/ Use(j) \/ Leave(j)
    PROVE  SessionInv'
<1>1. /\ TypeOK /\ Permits
      /\ sessions \in [Conns -> Sessions] /\ jobs \in [Verifies -> Jobs] /\ mono \in Time
      /\ JobFits(jobs[j]) /\ JobGrounded(jobs[j]) /\ jobs[j] \in Jobs /\ jobs[j].conn \in Conns
      /\ \A c \in Conns : SessionFits(sessions[c])
  BY DEF SessionInv, TypeOK, Jobs
<1>2. UNCHANGED <<mono, bornAt, removedAt, opens, verifyEpoch, contacts>>
  BY DEF Verify, Acquire, CaptureHead, Confirm, Fail, ContactRead, Use, Leave, chainVars, sessionVars
<1>3. ASSUME End(j), sessions' = sessions \/ Forget(j) PROVE SessionInv'
  <2>1. sessions' = sessions \/ \E c \in Conns : sessions' = [sessions EXCEPT ![c].auth = NoAuth]
    BY <1>1, <1>3 DEF Forget
  <2>2. JobFits(Idle) /\ JobGrounded(Idle) /\ Idle.pc \notin Holding
    BY RecordsFit DEF JobFits, JobGrounded, Headed, Holding
  <2> QED
    BY <1>2, <1>3, <2>1, <2>2, JobMoves, RecordsFit DEF End
<1>4. ASSUME NEW pc \in {"upsert", "verified", "used"}, Moves(j, pc), sessions' = sessions,
             jobs[j].pc # "idle",
             pc = "upsert" => jobs[j].pc = "known"
      PROVE  SessionInv'
  <2> DEFINE x == [jobs[j] EXCEPT !.pc = pc]
  <2>1. /\ x \in Jobs /\ x.pc = pc /\ x.conn = jobs[j].conn /\ x.id = jobs[j].id /\ x.peer = jobs[j].peer
        /\ x.claim = jobs[j].claim /\ x.block = jobs[j].block /\ x.asked = jobs[j].asked
        /\ x.at = jobs[j].at
    BY <1>1 DEF Jobs
  <2>2. jobs' = [jobs EXCEPT ![j] = x]
    BY <1>1, <1>4 DEF Moves
  <2> HIDE DEF x
  <2>3. JobFits(x)
    BY <1>1, <1>4, <2>1 DEF JobFits
  <2>4. JobGrounded(x)
    BY <1>1, <1>4, <2>1 DEF JobGrounded, Headed
  <2>5. x.pc \in Holding => \A k \in Verifies : k # j /\ jobs[k].pc \in Holding => jobs[k].id # x.id
    BY <1>1, <1>4, <2>1 DEF Permits, Holding
  <2> QED
    BY <1>2, <1>4, <2>1, <2>2, <2>3, <2>4, <2>5, JobMoves
<1>5. ASSUME NEW c \in Conns, NEW a \in Accounts, Verify(j, c, a) PROVE SessionInv'
  <2> DEFINE x == [Idle EXCEPT !.pc = "queued", !.conn = c, !.claim = a,
                               !.peer = sessions[c].peer, !.id = sessions[c].id]
  <2>1. sessions[c] \in Live /\ SessionFits(sessions[c])
    BY <1>1, <1>5, SessionCases, NoSessionIs DEF Verify
  <2>2. sessions[c].peer \in Peers /\ sessions[c].id \in 1..MaxOpens
    BY <2>1 DEF Live
  <2>3. x \in Jobs
    <3>1. ASSUME NEW p \in Peers, NEW i \in 1..MaxOpens
          PROVE  [Idle EXCEPT !.pc = "queued", !.conn = c, !.claim = a, !.peer = p, !.id = i] \in Jobs
      <4>1. i \in 0..MaxOpens
        BY SessionAssumption
      <4> QED
        BY <4>1, RecordsFit DEF Jobs
    <3> QED
      BY <2>2, <3>1
  <2>4. x.pc = "queued" /\ x.conn = c /\ x.claim = a /\ x.peer = sessions[c].peer /\ x.id = sessions[c].id
    BY DEF Idle
  <2>5. jobs' = [jobs EXCEPT ![j] = x] /\ sessions' = sessions
    BY <1>5 DEF Verify, sessionVars
  <2> HIDE DEF x
  <2>6. JobFits(x)
    <3>1. x.id \in 1..opens
      <4>1. x.id = sessions[c].id /\ sessions[c].id <= opens
        BY <2>1, <2>4 DEF SessionFits
      <4> QED
        BY <1>1, <2>2, <4>1, SessionAssumption DEF TypeOK
    <3> QED
      BY <2>2, <2>4, <3>1 DEF JobFits
  <2>7. JobGrounded(x) /\ x.pc \notin Holding
    BY <2>4 DEF JobGrounded, Headed, Holding
  <2> QED
    BY <1>2, <2>3, <2>5, <2>6, <2>7, JobMoves
<1>6. ASSUME jobs[j].pc = "queued", PermitFree(j), sessions' = sessions,
             jobs' = [jobs EXCEPT ![j].pc = "lookup", ![j].epoch = sessions[jobs[j].conn].epoch]
      PROVE  SessionInv'
  <2> DEFINE x == [jobs[j] EXCEPT !.pc = "lookup", !.epoch = sessions[jobs[j].conn].epoch]
  <2>1. sessions[jobs[j].conn].epoch \in 0..MaxEpoch
    <3>1. NoSession.epoch = 0 /\ 0 \in 0..MaxEpoch
      BY SessionAssumption DEF NoSession
    <3>2. sessions[jobs[j].conn] = NoSession \/ sessions[jobs[j].conn] \in Live
      BY <1>1, SessionCases
    <3>3. ASSUME sessions[jobs[j].conn] \in Live PROVE sessions[jobs[j].conn].epoch \in 0..MaxEpoch
      BY <3>3 DEF Live
    <3> QED
      BY <3>1, <3>2, <3>3
  <2>2. ASSUME NEW e \in 0..MaxEpoch PROVE [jobs[j] EXCEPT !.pc = "lookup", !.epoch = e] \in Jobs
    BY <1>1 DEF Jobs
  <2>3. /\ x \in Jobs /\ x.pc = "lookup" /\ x.conn = jobs[j].conn /\ x.id = jobs[j].id
        /\ x.peer = jobs[j].peer
        /\ x.claim = jobs[j].claim
    BY <1>1, <2>1, <2>2 DEF Jobs
  <2>4. jobs' = [jobs EXCEPT ![j] = x]
    BY <1>1, <1>6
  <2> HIDE DEF x
  <2>5. JobFits(x)
    BY <1>1, <1>6, <2>3 DEF JobFits
  <2>6. JobGrounded(x)
    BY <2>3 DEF JobGrounded, Headed
  <2>7. \A k \in Verifies : k # j /\ jobs[k].pc \in Holding => jobs[k].id # x.id
    BY <1>6, <2>3 DEF PermitFree
  <2> QED
    BY <1>2, <1>6, <2>3, <2>4, <2>5, <2>6, <2>7, JobMoves
<1>7. ASSUME Acquire(j) PROVE SessionInv'
  <2>1. \/ End(j) /\ (sessions' = sessions \/ Forget(j))
        \/ Moves(j, "verified") /\ sessions' = sessions
        \/ /\ sessions' = sessions
           /\ jobs' = [jobs EXCEPT ![j].pc = "lookup", ![j].epoch = sessions[jobs[j].conn].epoch]
    BY <1>7 DEF Acquire
  <2>2. jobs[j].pc = "queued" /\ PermitFree(j)
    BY <1>7 DEF Acquire
  <2> QED
    BY <1>3, <1>4, <1>6, <2>1, <2>2
<1>8. ASSUME CaptureHead(j) PROVE SessionInv'
  <2>1. PICK b \in ReportedHeads :
              jobs' = [jobs EXCEPT ![j].pc = "head", ![j].block = b, ![j].asked = mono]
    BY <1>8 DEF CaptureHead
  <2> DEFINE x == [jobs[j] EXCEPT !.pc = "head", !.block = b, !.asked = mono]
  <2>2. Head \in 1..MaxBlock /\ b \in 1..Head /\ b >= Head - Lag /\ MaxBlock \in Nat /\ Lag \in Nat
    BY <1>1, HeadIsLast, SessionAssumption DEF ReportedHeads
  <2>3. ASSUME NEW k \in 0..MaxBlock
        PROVE  [jobs[j] EXCEPT !.pc = "head", !.block = k, !.asked = mono] \in Jobs
    BY <1>1 DEF Jobs
  <2>4. b \in 0..MaxBlock
    BY <2>2
  <2>5. /\ x \in Jobs /\ x.pc = "head" /\ x.conn = jobs[j].conn /\ x.id = jobs[j].id
        /\ x.peer = jobs[j].peer
        /\ x.claim = jobs[j].claim /\ x.block = b /\ x.asked = mono
    BY <1>1, <2>3, <2>4 DEF Jobs
  <2>6. jobs' = [jobs EXCEPT ![j] = x] /\ sessions' = sessions /\ jobs[j].pc = "lookup"
    BY <1>1, <1>8, <2>1 DEF CaptureHead, sessionVars
  <2> HIDE DEF x
  <2>7. JobFits(x)
    BY <1>1, <2>5, <2>6 DEF JobFits
  <2>8. JobGrounded(x)
    <3>1. \A d \in 1..Head : ~ (d > b + Lag)
      BY <2>2
    <3>2. mono <= mono
      BY <1>1, SessionAssumption DEF Time
    <3> QED
      BY <2>2, <2>5, <3>1, <3>2 DEF JobGrounded, Reported
  <2>9. \A k \in Verifies : k # j /\ jobs[k].pc \in Holding => jobs[k].id # x.id
    BY <1>1, <2>5, <2>6 DEF Permits, Holding
  <2> QED
    BY <1>2, <2>5, <2>6, <2>7, <2>8, <2>9, JobMoves
<1>11. ASSUME jobs[j].pc = "head", sessions' = sessions,
              Grounded(j, jobs[j].block), NewerHead(j, jobs[j].block),
              jobs' = [jobs EXCEPT ![j].pc = "known", ![j].at = mono]
       PROVE  SessionInv'
  <2> DEFINE x == [jobs[j] EXCEPT !.pc = "known", !.at = mono]
  <2>1. /\ x \in Jobs /\ x.pc = "known" /\ x.conn = jobs[j].conn /\ x.id = jobs[j].id
        /\ x.peer = jobs[j].peer /\ x.claim = jobs[j].claim
        /\ x.block = jobs[j].block /\ x.asked = jobs[j].asked /\ x.at = mono
    BY <1>1 DEF Jobs
  <2>2. jobs' = [jobs EXCEPT ![j] = x]
    BY <1>1, <1>11
  <2> HIDE DEF x
  <2>3. JobFits(x)
    BY <1>1, <1>11, <2>1 DEF JobFits
  <2>4. Reported(x.block, x.asked)
    BY <1>1, <1>11, <2>1 DEF JobGrounded, Headed
  <2>5. Grounds(x.peer, x.claim, x.block, x.asked) /\ x.asked <= x.at
    BY <1>11, <2>1, <2>4 DEF Grounded, Member, Grounds, Reported
  <2>6. JobGrounded(x)
    BY <1>11, <2>1, <2>4, <2>5 DEF JobGrounded, NewerHead, Current
  <2>7. \A k \in Verifies : k # j /\ jobs[k].pc \in Holding => jobs[k].id # x.id
    BY <1>1, <1>11, <2>1 DEF Permits, Holding
  <2> QED
    BY <1>2, <1>11, <2>1, <2>2, <2>3, <2>6, <2>7, JobMoves
<1>9. ASSUME Confirm(j) PROVE SessionInv'
  BY <1>3, <1>9, <1>11 DEF Confirm
<1>10. ASSUME Fail(j) \/ ContactRead(j) \/ Use(j) \/ Leave(j) PROVE SessionInv'
  <2>1. /\ sessions' = sessions
        /\ \/ End(j)
           \/ Moves(j, "upsert") /\ jobs[j].pc = "known"
           \/ Moves(j, "used") /\ jobs[j].pc = "verified"
    BY <1>10 DEF Fail, ContactRead, Use, Leave, sessionVars
  <2> QED
    BY <1>3, <1>4, <2>1
<1> QED
  BY <1>5, <1>7, <1>8, <1>9, <1>10

\* A session with the window of a confirmed verification.
WithWindow(x, w, m) == [x EXCEPT !.auth = w, !.last = w.block, !.mint = m]

\* It is the same session.
LEMMA WindowWritten ==
    ASSUME NEW x \in Live, NEW w \in Auths, NEW m \in [block : 0..MaxBlock, at : Time]
    PROVE  /\ WithWindow(x, w, m) \in Live
           /\ WithWindow(x, w, m).id = x.id /\ WithWindow(x, w, m).peer = x.peer
           /\ WithWindow(x, w, m).epoch = x.epoch /\ WithWindow(x, w, m).auth = w
           /\ WithWindow(x, w, m).last = w.block /\ WithWindow(x, w, m).mint = m
  BY DEF Auths, Live, WithWindow

\* The end of a verification: the contact is saved, and the authorization written if the session is
\* still the one it was asked for.
LEMMA ContactSavedKeeps == ASSUME SessionInv, NEW j \in Verifies, ContactSaved(j) PROVE SessionInv'
<1> DEFINE conn == jobs[j].conn
           win  == [account |-> jobs[j].claim, block |-> jobs[j].block,
                    at |-> jobs[j].at, took |-> jobs[j].at - jobs[j].asked, began |-> jobs[j].epoch]
           done == [Idle EXCEPT !.pc = "verified", !.conn = conn, !.peer = jobs[j].peer,
                                !.id = jobs[j].id, !.claim = jobs[j].claim]
<1>1. /\ TypeOK /\ Permits /\ KnownContacts
      /\ \A c \in Conns : SessionFits(sessions[c]) /\ Authorized(sessions[c])
      /\ \A k \in Verifies : JobFits(jobs[k]) /\ JobGrounded(jobs[k])
      /\ sessions \in [Conns -> Sessions] /\ jobs \in [Verifies -> Jobs]
      /\ removedAt \in [Peers -> 1..(MaxBlock + 1)] /\ mono \in Time
  BY DEF SessionInv, TypeOK
<1>2. /\ jobs[j].pc = "upsert" /\ jobs[j] \in Jobs /\ conn \in Conns
      /\ jobs[j].peer \in Peers /\ jobs[j].claim \in Accounts /\ jobs[j].id \in 1..opens
      /\ jobs[j].epoch \in 0..MaxEpoch /\ jobs[j].block \in 0..MaxBlock /\ jobs[j].at \in Time
      /\ jobs[j].asked \in Time /\ jobs[j].id \in 0..MaxOpens
  BY <1>1 DEF ContactSaved, JobFits, Jobs
<1>3. /\ Grounds(jobs[j].peer, jobs[j].claim, jobs[j].block, jobs[j].asked) /\ jobs[j].asked <= jobs[j].at
      /\ sessions[conn].id = jobs[j].id =>
            sessions[conn].peer = jobs[j].peer /\ jobs[j].block > sessions[conn].last
  BY <1>1, <1>2 DEF JobGrounded, JobFits
<1>4. /\ UNCHANGED <<mono, bornAt, removedAt, opens, verifyEpoch>>
      /\ contacts' = contacts \cup ({jobs[j].claim} \ {Own})
      /\ \/ ~InForce(j) /\ jobs' = [jobs EXCEPT ![j] = Idle] /\ sessions' = sessions
         \/ /\ InForce(j) /\ jobs' = [jobs EXCEPT ![j] = done]
            /\ sessions' = [sessions EXCEPT
                      ![conn].auth = win, ![conn].last = win.block,
                      ![conn].mint = IF win.block > sessions[conn].mint.block
                                     THEN [block |-> win.block, at |-> win.at] ELSE sessions[conn].mint]
  BY DEF ContactSaved, chainVars, SavedContact, WindowStart, End
<1>5. contacts' \subseteq Accounts /\ KnownContacts'
  <2>1. removedAt[jobs[j].peer] > 1 /\ AccountOf[jobs[j].peer] = jobs[j].claim
    <3>1. Head \in 1..MaxBlock
      BY <1>1, HeadIsLast
    <3> QED
      BY <1>1, <1>2, <1>3, <3>1, SessionAssumption DEF Grounds, Reported
  <2> QED
    BY <1>1, <1>2, <1>4, <2>1 DEF KnownContacts, TypeOK
<1>6. /\ win \in Auths /\ win.account = jobs[j].claim /\ win.block = jobs[j].block
      /\ win.at = jobs[j].at /\ win.began = jobs[j].epoch /\ win.at - win.took = jobs[j].asked
  <2>1. jobs[j].at - jobs[j].asked \in Time /\ jobs[j].at - (jobs[j].at - jobs[j].asked) = jobs[j].asked
    BY <1>2, <1>3, SessionAssumption DEF Time
  <2> QED
    BY <1>2, <2>1 DEF Auths
<1>7. /\ done \in Jobs /\ done.pc = "verified" /\ done.conn = conn
      /\ done.id = jobs[j].id /\ done.peer = jobs[j].peer /\ done.claim = jobs[j].claim
  <2>1. ASSUME NEW i \in 0..MaxOpens, NEW p \in Peers, NEW a \in Accounts, NEW c \in Conns
        PROVE  [Idle EXCEPT !.pc = "verified", !.conn = c, !.peer = p, !.id = i, !.claim = a] \in Jobs
    BY RecordsFit DEF Jobs
  <2>2. done \in Jobs
    BY <1>2, <2>1
  <2> QED
    BY <2>2 DEF Idle
<1>8. ASSUME InForce(j)
      PROVE  /\ sessions[conn] \in Live /\ sessions[conn].epoch = verifyEpoch /\ jobs[j].epoch = verifyEpoch
             /\ sessions[conn].id = jobs[j].id /\ sessions[conn].peer = jobs[j].peer
             /\ win.block > sessions[conn].mint.block
  <2>1. sessions[conn].id = jobs[j].id /\ sessions[conn].epoch = jobs[j].epoch
    BY <1>8 DEF InForce, Current
  <2>2. jobs[j].id # 0
    BY <1>1, <1>2 DEF TypeOK
  <2>3. sessions[conn] \in Live
    BY <1>1, <1>2, <2>1, <2>2, SessionCases, NoSessionIs
  <2>4. SessionFits(sessions[conn])
    BY <1>1, <1>2
  <2>5. sessions[conn].peer # NoPeer
    BY <2>3, SessionCases, SessionAssumption DEF Live
  <2> QED
    BY <1>3, <1>6, <2>1, <2>3, <2>4, <2>5 DEF SessionFits
<1> DEFINE m == IF win.block > sessions[conn].mint.block
               THEN [block |-> win.block, at |-> win.at] ELSE sessions[conn].mint
           y == [sessions[conn] EXCEPT !.auth = win, !.last = win.block, !.mint = m]
<1>9. ASSUME InForce(j)
      PROVE  /\ sessions' = [sessions EXCEPT ![conn] = y]
             /\ y \in Live /\ y.id = sessions[conn].id /\ y.peer = sessions[conn].peer
             /\ y.epoch = sessions[conn].epoch
             /\ y.auth = win /\ y.last = win.block /\ y.mint = [block |-> win.block, at |-> win.at]
  <2>1. sessions' = [sessions EXCEPT ![conn] = y]
    BY <1>1, <1>2, <1>4, <1>9
  <2>2. sessions[conn] \in Live /\ win.block > sessions[conn].mint.block
    BY <1>8, <1>9
  <2>3. m = [block |-> win.block, at |-> win.at]
    BY <2>2
  <2>4. m \in [block : 0..MaxBlock, at : Time]
    BY <1>2, <2>3
  <2>5. win \in Auths
    BY <1>6
  <2>7. y = WithWindow(sessions[conn], win, m)
    BY DEF WithWindow
  <2> HIDE DEF win, conn, m, y
  <2>6. /\ y \in Live /\ y.id = sessions[conn].id /\ y.peer = sessions[conn].peer
        /\ y.epoch = sessions[conn].epoch /\ y.auth = win /\ y.last = win.block /\ y.mint = m
    BY <2>2, <2>4, <2>5, <2>7, WindowWritten
  <2> QED
    BY <2>1, <2>3, <2>6
<1> HIDE DEF y, m, done, win
<1>10. \E z \in {Idle, done} : jobs' = [jobs EXCEPT ![j] = z]
  BY <1>4
<1>11. ASSUME NEW k \in Verifies
       PROVE  jobs'[k] \in Jobs /\ \/ k # j /\ jobs'[k] = jobs[k]
                                   \/ jobs'[k] = Idle
                                   \/ jobs'[k] = done
  BY <1>1, <1>7, <1>10, RecordsFit
<1>12. /\ sessions' \in [Conns -> Sessions]
       /\ \A c \in Conns : /\ sessions'[c].id = sessions[c].id /\ sessions'[c].peer = sessions[c].peer
                           /\ sessions'[c].epoch = sessions[c].epoch
                           /\ sessions'[c] = sessions[c] \/ (c = conn /\ InForce(j) /\ sessions'[c] = y)
  <2>1. CASE ~InForce(j)
    BY <1>1, <1>4, <2>1
  <2>2. CASE InForce(j)
    <3>1. Live \subseteq Sessions
      BY DEF Live, Sessions
    <3>2. /\ y \in Sessions /\ y.id = sessions[conn].id /\ y.peer = sessions[conn].peer
          /\ y.epoch = sessions[conn].epoch
      BY <1>9, <2>2, <3>1
    <3>3. sessions' = [sessions EXCEPT ![conn] = y]
      BY <1>9, <2>2
    <3> QED
      BY <1>1, <1>2, <2>2, <3>2, <3>3
  <2> QED
    BY <2>1, <2>2
<1>13. TypeOK'
  <2>1. jobs' \in [Verifies -> Jobs]
    BY <1>1, <1>10, <1>11
  <2> QED
    BY <1>1, <1>4, <1>5, <1>12, <2>1 DEF TypeOK
<1>14. ASSUME NEW c \in Conns PROVE SessionFits(sessions[c])' /\ Authorized(sessions[c])'
  <2>1. CASE sessions'[c] = sessions[c]
    <3>1. SessionFits(sessions[c])'
      BY <1>1, <1>4, <2>1 DEF SessionFits
    <3>2. Authorized(sessions[c])'
      BY <1>1, <1>4, <2>1 DEF Authorized, Grounds, Reported, Head
    <3> QED
      BY <3>1, <3>2
  <2>2. CASE c = conn /\ InForce(j) /\ sessions'[c] = y
    <3>1. SessionFits(sessions[c])'
      <4>1. SessionFits(sessions[c])
        BY <1>1
      <4>2. y.id <= opens /\ y.peer # NoPeer => y.epoch = verifyEpoch
        BY <1>9, <2>2, <4>1 DEF SessionFits
      <4>3. y.last = y.mint.block
        BY <1>9, <2>2
      <4>4. y.id <= opens' /\ (y.peer # NoPeer => y.epoch = verifyEpoch')
        BY <1>4, <1>8, <1>9, <2>2, <4>1 DEF SessionFits
      <4> QED
        BY <2>2, <4>3, <4>4 DEF SessionFits
    <3>2. Authorized(sessions[c])'
      <4>1. Grounds(y.peer, y.auth.account, y.auth.block, y.auth.at - y.auth.took)
        BY <1>3, <1>6, <1>8, <1>9, <2>2
      <4>2. GroundsNext(y.peer, y.auth.account, y.auth.block, y.auth.at - y.auth.took)
        BY <1>4, <4>1 DEF Grounds, GroundsNext, Reported, ReportedNext, Head
      <4>3. y.auth.began = verifyEpoch' /\ y.mint = [block |-> y.auth.block, at |-> y.auth.at]
        BY <1>4, <1>6, <1>8, <1>9, <2>2
      <4> QED
        BY <2>2, <4>2, <4>3 DEF Authorized, Grounds, GroundsNext, Reported, ReportedNext
    <3> QED
      BY <3>1, <3>2
  <2> QED
    BY <1>12, <2>1, <2>2
<1>15. ASSUME NEW k \in Verifies PROVE JobFits(jobs[k])' /\ JobGrounded(jobs[k])'
  <2>1. CASE jobs'[k] = Idle
    BY <2>1, RecordsFit DEF JobFits, JobGrounded, Headed
  <2>2. CASE jobs'[k] = done
    <3>1. sessions'[conn].id = jobs[j].id => sessions'[conn].peer = jobs[j].peer
      BY <1>2, <1>3, <1>12
    <3> QED
      BY <1>2, <1>4, <1>7, <2>2, <3>1 DEF JobFits, JobGrounded, Headed
  <2>3. CASE k # j /\ jobs'[k] = jobs[k]
    <3>1. /\ jobs[k] \in Jobs /\ jobs[k].conn \in Conns /\ JobFits(jobs[k]) /\ JobGrounded(jobs[k])
          /\ sessions'[jobs[k].conn].id = sessions[jobs[k].conn].id
          /\ sessions'[jobs[k].conn].peer = sessions[jobs[k].conn].peer
      BY <1>1, <1>12 DEF Jobs
    <3>2. JobFits(jobs[k])'
      BY <1>4, <2>3, <3>1 DEF JobFits
    <3>3. ASSUME jobs[k].pc \in {"known", "upsert"}
          PROVE  /\ GroundsNext(jobs[k].peer, jobs[k].claim, jobs[k].block, jobs[k].asked)
                 /\ jobs[k].asked <= jobs[k].at
      BY <1>4, <3>1, <3>3 DEF JobGrounded, Grounds, GroundsNext, Reported, ReportedNext, Head
    <3>4. ASSUME jobs[k].pc \in {"known", "upsert"}, sessions'[jobs[k].conn].id = jobs[k].id
          PROVE  jobs[k].block > sessions'[jobs[k].conn].last
      <4>1. jobs[k].id # jobs[j].id
        BY <1>1, <1>2, <2>3, <3>4 DEF Permits, Holding
      <4>2. ~ (jobs[k].conn = conn /\ InForce(j))
        BY <1>8, <3>1, <3>4, <4>1
      <4>3. sessions'[jobs[k].conn] = sessions[jobs[k].conn]
        BY <1>12, <3>1, <4>2
      <4> QED
        BY <3>1, <3>4, <4>3 DEF JobGrounded
    <3>6. ASSUME jobs[k].pc \in Headed PROVE ReportedNext(jobs[k].block, jobs[k].asked)
      BY <1>4, <3>1, <3>6 DEF JobGrounded, Reported, ReportedNext, Head
    <3>5. JobGrounded(jobs[k])'
      BY <2>3, <3>3, <3>4, <3>6 DEF JobGrounded, Grounds, GroundsNext, Reported, ReportedNext
    <3> QED
      BY <3>2, <3>5
  <2> QED
    BY <1>11, <2>1, <2>2, <2>3
<1>16. Permits'
  BY <1>1, <1>7, <1>11, RecordsFit DEF Permits, Holding
<1> QED
  BY <1>5, <1>13, <1>14, <1>15, <1>16 DEF SessionInv

-----------------------------------------------------------------------------

\* Every step keeps the invariant.
LEMMA SessionNext == ASSUME SessionInv, [Next]_vars PROVE SessionInv'
<1>1. CASE UNCHANGED vars
  <2>1. UNCHANGED <<mono, bornAt, removedAt, sessions, opens, verifyEpoch, contacts, jobs>>
    BY <1>1 DEF vars
  <2>2. \A c \in Conns : SessionFits(sessions[c])' /\ Authorized(sessions[c])'
    BY <2>1 DEF SessionInv, SessionFits, Authorized, Grounds, Reported, Head
  <2>3. \A j \in Verifies : JobFits(jobs[j])' /\ JobGrounded(jobs[j])'
    BY <2>1 DEF SessionInv, JobFits, JobGrounded, Grounds, Reported, Head
  <2> QED
    BY <2>1, <2>2, <2>3 DEF SessionInv, TypeOK, Permits, KnownContacts
<1>2. CASE Environment
  BY <1>2, TickPasses, ChainKeeps, SessionStepKeeps DEF Environment, SessionInv
<1>3. CASE Clear \/ InvalidateAuthorization
  BY <1>3, SessionStepKeeps
<1>4. ASSUME NEW j \in Verifies, VerifyStep(j) \/ Use(j) PROVE SessionInv'
  BY <1>4, VerifyKeeps, ContactSavedKeeps DEF VerifyStep
<1> QED
  BY <1>1, <1>2, <1>3, <1>4 DEF Next

\* What the sessions, the verifications and the contacts keep true at every step.
THEOREM SessionInvariant == Spec => []SessionInv
<1>1. Init => SessionInv
  BY SessionInit
<1>2. SessionInv /\ [Next]_vars => SessionInv'
  BY SessionNext
<1> QED
  BY <1>1, <1>2, PTL DEF Spec

\* The block an authorization rests on is older than the removal of its peer, and the node could
\* still report it when the read began that the window followed.
LEMMA VerifiedWasMember ==
    ASSUME SessionInv, NEW c \in Conns, NEW p \in Peers, NEW a \in Accounts, IsVerified(c, p, a)
    PROVE  AccountOf[p] = a /\ removedAt[p] > 1 /\ ~LongRemoved(p, sessions[c].auth)
<1>1. /\ removedAt \in [Peers -> 1..(MaxBlock + 1)] /\ mono \in Time
      /\ Head \in 1..MaxBlock /\ bornAt \in [1..Head -> Time]
  BY HeadIsLast DEF SessionInv, TypeOK
<1>2. Authorized(sessions[c]) /\ sessions[c] \in Sessions
  BY DEF SessionInv, TypeOK
<1> DEFINE b == sessions[c].auth.block
           t == sessions[c].auth.at
           d == sessions[c].auth.took
<1>3. Grounds(p, a, b, t - d) /\ mono - t < MaxAge
  BY <1>2 DEF IsVerified, Authorized
<1>4. t \in Time /\ d \in Time
  <2>1. sessions[c] \in Live
    BY <1>2, SessionCases, NoSessionIs DEF IsVerified
  <2> QED
    BY <2>1 DEF Live, Auths
<1>8. sessions[c].auth.took = d
  OBVIOUS
<1> HIDE DEF b, t, d
<1>5. MaxBlock \in Nat /\ MaxTime \in Nat /\ Lag \in Nat /\ MaxAge \in Nat
  BY SessionAssumption
<1>6. AccountOf[p] = a /\ b \in 1..Head /\ b < removedAt[p]
  BY <1>3 DEF Grounds, Reported
<1>7. ASSUME LongRemoved(p, sessions[c].auth) PROVE FALSE
  <2>1. removedAt[p] + Lag \in 1..Head /\ removedAt[p] + Lag > b + Lag
    BY <1>1, <1>5, <1>6, <1>7 DEF LongRemoved
  <2>2. bornAt[removedAt[p] + Lag] >= t - d /\ bornAt[removedAt[p] + Lag] \in Time
    BY <1>1, <1>3, <2>1 DEF Grounds, Reported
  <2>3. mono - bornAt[removedAt[p] + Lag] >= MaxAge + d
    BY <1>7, <1>8 DEF LongRemoved
  <2> QED
    BY <1>1, <1>3, <1>4, <1>5, <2>2, <2>3 DEF Time
<1> QED
  BY <1>1, <1>6, <1>7

\* The invariant implies what the programs rely on.
LEMMA SessionsHold ==
    SessionInv => /\ AuthorizedPeersWereMembers /\ NoneFromBeforeInvalidation
                  /\ OneWindowPerHead /\ RemovalTakesEffect
<1>1. SessionInv => AuthorizedPeersWereMembers
  <2> SUFFICES ASSUME SessionInv PROVE AuthorizedPeersWereMembers
    OBVIOUS
  <2>1. \A c \in Conns : Authorized(sessions[c])
    BY DEF SessionInv
  <2>2. KnownContacts
    BY DEF SessionInv
  <2> QED
    BY <2>1, <2>2 DEF AuthorizedPeersWereMembers, Authorized, Grounds, Reported, Member, KnownContacts
<1>2. SessionInv => NoneFromBeforeInvalidation
  <2> SUFFICES ASSUME SessionInv, NEW c \in Conns, sessions[c].auth # NoAuth
               PROVE  sessions[c].auth.began = verifyEpoch /\ sessions[c].epoch = verifyEpoch
    BY DEF NoneFromBeforeInvalidation
  <2>1. SessionFits(sessions[c]) /\ Authorized(sessions[c]) /\ sessions[c] \in Sessions
    BY DEF SessionInv, TypeOK
  <2>2. sessions[c].peer # NoPeer
    BY <2>1, SessionCases, NoSessionIs
  <2> QED
    BY <2>1, <2>2 DEF SessionFits, Authorized
<1>3. SessionInv => OneWindowPerHead
  BY DEF SessionInv, Authorized, OneWindowPerHead
<1>4. SessionInv => RemovalTakesEffect
  BY VerifiedWasMember DEF RemovalTakesEffect
<1> QED
  BY <1>1, <1>2, <1>3, <1>4

\* An authorization names the account its own peer was a device of, at a block the registry had,
\* whichever session a connection id stands for by now (verify, lines 155-273).
THEOREM MembersOnly == Spec => []AuthorizedPeersWereMembers
  BY SessionsHold, SessionInvariant, PTL

\* No verification that was running when authorizations were invalidated writes one
\* (invalidateAuthorization, lines 104-111; verify, lines 246 and 259).
THEOREM InvalidationHolds == Spec => []NoneFromBeforeInvalidation
  BY SessionsHold, SessionInvariant, PTL

\* A head opens one window on a session, however often a node repeats it (verify, lines 214-226).
THEOREM HeadsOpenOneWindow == Spec => []OneWindowPerHead
  BY SessionsHold, SessionInvariant, PTL

\* A removed device is authorized for less than a window, and the time the read of its roster took,
\* after the last moment at which the node could still report it (verify, lines 177-230; isVerified).
THEOREM RemovalEndsAuthorization == Spec => []RemovalTakesEffect
  BY SessionsHold, SessionInvariant, PTL

\* The steps of a verification leave the others alone, and none of them but the check acts on a stream.
LEMMA OneVerificationMoves ==
    ASSUME SessionInv, NEW k \in Verifies, VerifyStep(k) \/ Use(k)
    PROVE  /\ \A j \in Verifies : j # k => jobs'[j] = jobs[j]
           /\ VerifyStep(k) => jobs'[k].pc # "used"
<1>1. jobs \in [Verifies -> Jobs]
  BY DEF SessionInv, TypeOK
<1>2. \E x : jobs' = [jobs EXCEPT ![k] = x]
  <2>1. ASSUME NEW c \in Conns, NEW a \in Accounts, Verify(k, c, a)
        PROVE  \E x : jobs' = [jobs EXCEPT ![k] = x]
    BY <2>1 DEF Verify
  <2>2. ASSUME Acquire(k) PROVE \E x : jobs' = [jobs EXCEPT ![k] = x]
    BY <1>1, <2>2 DEF Acquire, End, Moves
  <2>3. ASSUME Confirm(k) PROVE \E x : jobs' = [jobs EXCEPT ![k] = x]
    BY <1>1, <2>3 DEF Confirm, End
  <2>6. ASSUME CaptureHead(k) PROVE \E x : jobs' = [jobs EXCEPT ![k] = x]
    BY <1>1, <2>6 DEF CaptureHead
  <2>4. ASSUME ContactSaved(k) PROVE \E x : jobs' = [jobs EXCEPT ![k] = x]
    BY <1>1, <2>4 DEF ContactSaved, End
  <2>5. ASSUME Fail(k) \/ ContactRead(k) \/ Leave(k) \/ Use(k) PROVE \E x : jobs' = [jobs EXCEPT ![k] = x]
    BY <1>1, <2>5 DEF Fail, ContactRead, Leave, Use, End, Moves
  <2> QED
    BY <2>1, <2>2, <2>3, <2>4, <2>5, <2>6 DEF VerifyStep
<1>3. ASSUME VerifyStep(k) PROVE jobs'[k].pc # "used"
  <2>1. Idle.pc = "idle"
    BY DEF Idle
  <2>2. ASSUME End(k) PROVE jobs'[k].pc # "used"
    BY <1>1, <2>1, <2>2 DEF End
  <2>3. ASSUME NEW pc, pc # "used", Moves(k, pc) PROVE jobs'[k].pc # "used"
    BY <1>1, <2>3 DEF Moves, Jobs
  <2>4. ASSUME NEW c \in Conns, NEW a \in Accounts, Verify(k, c, a) PROVE jobs'[k].pc # "used"
    BY <1>1, <2>4 DEF Verify, Idle
  <2>5. ASSUME Acquire(k) PROVE jobs'[k].pc # "used"
    BY <1>1, <2>2, <2>3, <2>5 DEF Acquire, Jobs
  <2>6. ASSUME Confirm(k) PROVE jobs'[k].pc # "used"
    BY <1>1, <2>2, <2>6 DEF Confirm, Jobs
  <2>9. ASSUME CaptureHead(k) PROVE jobs'[k].pc # "used"
    BY <1>1, <2>9 DEF CaptureHead, Jobs
  <2>7. ASSUME ContactSaved(k) PROVE jobs'[k].pc # "used"
    <3>1. \/ End(k)
          \/ jobs' = [jobs EXCEPT ![k] = [Idle EXCEPT !.pc = "verified", !.conn = jobs[k].conn,
                         !.peer = jobs[k].peer, !.id = jobs[k].id, !.claim = jobs[k].claim]]
      BY <2>7 DEF ContactSaved
    <3> QED
      BY <1>1, <2>2, <3>1 DEF Idle
  <2>8. ASSUME Fail(k) \/ ContactRead(k) \/ Leave(k) PROVE jobs'[k].pc # "used"
    BY <2>2, <2>3, <2>8 DEF Fail, ContactRead, Leave
  <2> QED
    BY <1>3, <2>4, <2>5, <2>6, <2>7, <2>8, <2>9 DEF VerifyStep
<1> QED
  BY <1>1, <1>2, <1>3

\* A stream goes on only by the check that its peer is verified at that moment.
LEMMA OnlyUse ==
    ASSUME SessionInv, Next, NEW j \in Verifies, jobs[j].pc # "used", jobs'[j].pc = "used"
    PROVE  Use(j)
<1>1. jobs' # jobs
  OBVIOUS
<1>2. PICK k \in Verifies : VerifyStep(k) \/ Use(k)
  BY <1>1 DEF Next, Environment, Tick, NewBlock, Opened, Closed, Clear, InvalidateAuthorization
<1> QED
  BY <1>2, OneVerificationMoves

\* What is acted on comes from, or goes to, a device of the claimed account that had not been removed
\* for longer than that (cli/src/chat.ts, lines 219, 303 and 556; mobile p2p-send.ts, line 185).
THEOREM NobodyElseIsUsed == Spec => UsedPeersAreMembers
<1> DEFINE Checked == \A j \in Verifies : jobs[j].pc # "used" /\ jobs'[j].pc = "used" =>
                        LET p == jobs[j].peer IN
                        /\ AccountOf[p] = jobs[j].claim
                        /\ removedAt[p] > 1
                        /\ ~LongRemoved(p, sessions[jobs[j].conn].auth)
<1>1. SessionInv /\ [Next]_vars => [Checked]_vars
  <2> SUFFICES ASSUME SessionInv, Next PROVE Checked
    OBVIOUS
  <2> SUFFICES ASSUME NEW j \in Verifies, jobs[j].pc # "used", jobs'[j].pc = "used"
               PROVE  /\ AccountOf[jobs[j].peer] = jobs[j].claim /\ removedAt[jobs[j].peer] > 1
                      /\ ~LongRemoved(jobs[j].peer, sessions[jobs[j].conn].auth)
    OBVIOUS
  <2>1. Use(j)
    BY OnlyUse
  <2>2. IsVerified(jobs[j].conn, jobs[j].peer, jobs[j].claim) /\ jobs[j].pc = "verified"
    BY <2>1 DEF Use
  <2>3. jobs[j].conn \in Conns /\ jobs[j].peer \in Peers /\ jobs[j].claim \in Accounts
    BY <2>2 DEF SessionInv, TypeOK, Jobs, JobFits
  <2> QED
    BY <2>2, <2>3, VerifiedWasMember
<1> QED
  BY <1>1, SessionInvariant, PTL DEF Spec, UsedPeersAreMembers

(***************************************************************************)
(* For any number of connections and verifications, and any suspends: what *)
(* was authorized before a suspend is discarded before a stream is acted   *)
(* on, whichever of the interval, SIGCONT and the handlers comes first.    *)
(*                                                                         *)
(* A suspend leaves a sign on one of the clocks (`Due`) until somebody     *)
(* looks, and who looks invalidates.  A verification on its way carries    *)
(* the epoch it started in, which an invalidation leaves behind.           *)
(***************************************************************************)

\* What is marked rests on a head from before the last suspend: connections only until it is noticed,
\* verifications also after that, with an epoch that is past.
Marked ==
  /\ old \cap Conns # {} => Due
  /\ \A j \in old \cap Verifies :
       /\ jobs[j].pc \in Headed
       /\ Due \/ jobs[j].epoch # verifyEpoch

Epochs == \A j \in Verifies : jobs[j].epoch <= verifyEpoch

HolderInv == SessionInv /\ HolderTypeOK /\ Epochs /\ Marked

-----------------------------------------------------------------------------

\* Nothing was confirmed before the start.
LEMMA HolderStart == HolderInit => HolderInv
<1> SUFFICES ASSUME HolderInit PROVE HolderInv
  OBVIOUS
<1>1. SessionInv
  BY SessionInit DEF HolderInit
<1>2. HolderTypeOK
  <2>1. 0 \in 0..Stall /\ 0 \in 0..MaxSuspends
    BY HolderAssumption
  <2> QED
    BY <1>1, <2>1 DEF HolderInit, HolderTypeOK, SessionInv
<1>3. Epochs
  BY DEF HolderInit, Init, Epochs, Idle
<1>4. Marked
  BY DEF HolderInit, Marked
<1> QED
  BY <1>1, <1>2, <1>3, <1>4 DEF HolderInv

\* Which marks there can be after a step that does not suspend.
LEMMA Remarked ==
    ASSUME HolderInv, Remark
    PROVE  /\ old' \subseteq Conns \cup Verifies
           /\ \A j \in old' \cap Verifies : j \in old /\ jobs'[j].pc \in Headed
           /\ \A c \in old' \cap Conns :
                /\ sessions'[c].auth # NoAuth
                /\ \/ c \in old
                   \/ \E j \in old \cap Verifies : jobs[j].pc = "upsert" /\ jobs'[j].pc = "verified"
<1>1. Conns \cap Verifies = {}
  BY HolderAssumption
<1>2. jobs \in [Verifies -> Jobs] /\ \A j \in Verifies : jobs[j].conn \in Conns
  BY DEF HolderInv, HolderTypeOK, TypeOK, Jobs
<1>3. \A x \in old' : \/ x \in Conns /\ sessions'[x].auth # NoAuth
                      \/ x \in Verifies /\ jobs'[x].pc \in Headed
  BY DEF Remark, Confirmed
<1>4. \A x \in old' : \/ x \in old
                      \/ \E j \in old \cap Verifies : /\ jobs[j].pc = "upsert" /\ jobs'[j].pc = "verified"
                                                     /\ x = jobs[j].conn
  BY DEF Remark
<1> QED
  BY <1>1, <1>2, <1>3, <1>4

\* When the sessions were invalidated and the verifications stay or end, nothing marked is left that
\* could authorize.
LEMMA InvalidationClears ==
    ASSUME HolderInv, verifyEpoch < MaxEpoch, InvalidateSessions, JobsEnd,
           UNCHANGED <<mono, chainVars, opens, contacts, suspends>>, Remark,
           ran' \in 0..Stall, slept' \in BOOLEAN, pending' \in BOOLEAN
    PROVE  HolderInv'
<1>1. /\ SessionInv /\ TypeOK /\ Epochs /\ Marked /\ suspends \in 0..MaxSuspends
      /\ jobs \in [Verifies -> Jobs] /\ verifyEpoch \in 0..MaxEpoch /\ MaxEpoch \in Nat
  BY SessionAssumption DEF HolderInv, HolderTypeOK, SessionInv, TypeOK
<1>2. SessionInv' /\ TypeOK'
  BY <1>1, InvalidateKeeps DEF SessionInv
<1>3. verifyEpoch' = verifyEpoch + 1 /\ \A c \in Conns : sessions'[c].auth = NoAuth
  <2>1. ASSUME NEW c \in Conns PROVE sessions'[c].auth = NoAuth
    <3>1. sessions[c] = NoSession \/ sessions[c] \in Live
      BY <1>1, SessionCases DEF TypeOK
    <3>2. sessions'[c] = Invalidated(sessions[c], verifyEpoch + 1)
      BY DEF InvalidateSessions
    <3>3. CASE sessions[c] = NoSession
      BY <3>2, <3>3, NoSessionIs DEF Invalidated
    <3>4. CASE sessions[c] \in Live
      <4>1. sessions[c].peer # NoPeer
        BY <3>4, SessionAssumption DEF Live
      <4>2. sessions'[c] = [sessions[c] EXCEPT !.auth = NoAuth, !.epoch = verifyEpoch + 1]
        BY <3>2, <4>1 DEF Invalidated
      <4> QED
        BY <3>4, <4>2 DEF Live
    <3> QED
      BY <3>1, <3>3, <3>4
  <2> QED
    BY <2>1 DEF InvalidateSessions
<1>4. \A j \in Verifies : jobs[j].epoch \in Nat /\ Idle.epoch = 0 /\ Idle.pc = "idle"
  BY <1>1, SessionAssumption DEF Jobs, Idle
<1>5. Epochs'
  BY <1>1, <1>3, <1>4 DEF Epochs, JobsEnd
<1>6. old' \cap Conns = {}
  BY <1>3, Remarked
<1>7. ASSUME NEW j \in old' \cap Verifies
      PROVE  jobs'[j].pc \in Headed /\ jobs'[j].epoch # verifyEpoch'
  <2>1. jobs'[j].pc \in Headed
    BY Remarked
  <2>2. jobs'[j] = jobs[j]
    BY <1>4, <2>1 DEF JobsEnd, Headed
  <2>3. jobs[j].epoch <= verifyEpoch /\ jobs[j].epoch \in Nat
    BY <1>1, <1>4 DEF Epochs
  <2> QED
    BY <1>1, <1>3, <2>1, <2>2, <2>3
<1>8. HolderTypeOK'
  BY <1>1, <1>2, Remarked DEF HolderTypeOK
<1> QED
  BY <1>2, <1>5, <1>6, <1>7, <1>8 DEF HolderInv, Marked

-----------------------------------------------------------------------------
(* Suspends and clocks.                                                    *)

\* A suspend leaves its sign.
LEMMA SuspendKeeps == ASSUME HolderInv, SuspendPaused \/ SuspendCounted PROVE HolderInv'
<1>1. /\ SessionInv /\ TypeOK /\ Epochs /\ suspends \in 0..MaxSuspends /\ MaxSuspends \in Nat
      /\ ran \in 0..Stall /\ slept \in BOOLEAN /\ pending \in BOOLEAN
      /\ Stall \in Nat \ {0} /\ Conns \cap Verifies = {}
  BY HolderAssumption DEF HolderInv, HolderTypeOK
<1>2. /\ suspends' \in 0..MaxSuspends /\ old' = Confirmed
      /\ ran' \in 0..Stall /\ slept' \in BOOLEAN /\ pending' \in BOOLEAN
      /\ UNCHANGED <<sessions, jobs, verifyEpoch>>
  <2>1. suspends' \in 0..MaxSuspends /\ ran' \in 0..Stall
    BY <1>1 DEF SuspendPaused, SuspendCounted
  <2>2. old' = Confirmed /\ slept' \in BOOLEAN /\ pending' \in BOOLEAN
    BY <1>1 DEF SuspendPaused, SuspendCounted
  <2>3. UNCHANGED <<sessions, jobs, verifyEpoch>>
    BY DEF SuspendPaused, SuspendCounted, vars, sessionVars
  <2> QED
    BY <2>1, <2>2, <2>3
<1>3. Due'
  BY <1>1, <1>2 DEF SuspendPaused, SuspendCounted, Due
<1>4. SessionInv'
  <2>1. CASE SuspendPaused
    BY <1>1, <2>1, SessionNext DEF SuspendPaused
  <2>2. CASE SuspendCounted
    <3>1. mono \in Time /\ MaxTime \in Nat
      BY <1>1, SessionAssumption DEF TypeOK
    <3>2. Passes
      BY <1>1, <2>2, <3>1 DEF SuspendCounted, Passes, Time
    <3> QED
      BY <1>1, <3>2, ChainKeeps
  <2> QED
    BY <2>1, <2>2
<1>5. /\ old' \subseteq Conns \cup Verifies
      /\ \A j \in old' \cap Verifies : jobs'[j].pc \in Headed
  BY <1>1, <1>2 DEF Confirmed
<1>6. Marked'
  BY <1>3, <1>5 DEF Marked
<1>7. Epochs'
  BY <1>1, <1>2 DEF Epochs
<1> QED
  BY <1>2, <1>4, <1>5, <1>6, <1>7 DEF HolderInv, HolderTypeOK, SessionInv

\* The clock that runs while awake erases no sign.
LEMMA TickKeeps == ASSUME HolderInv, TickHolder PROVE HolderInv'
<1>1. /\ SessionInv /\ TypeOK /\ Epochs /\ Marked /\ ran \in 0..Stall /\ Stall \in Nat \ {0}
  BY HolderAssumption DEF HolderInv, HolderTypeOK
<1>2. ran' \in 0..Stall /\ (ran >= Stall => ran' >= Stall) /\ UNCHANGED <<slept, pending, suspends, old>>
  BY <1>1 DEF TickHolder, Up
<1>3. SessionInv'
  BY <1>1, TickPasses, ChainKeeps DEF TickHolder
<1>4. UNCHANGED <<jobs, verifyEpoch>>
  BY DEF TickHolder, Tick, sessionVars
<1>5. Due => Due'
  BY <1>2 DEF Due
<1>6. Epochs' /\ Marked'
  BY <1>1, <1>2, <1>4, <1>5 DEF Epochs, Marked
<1> QED
  BY <1>2, <1>3, <1>6 DEF HolderInv, HolderTypeOK, SessionInv

\* Who looks at the clocks invalidates if a suspend is due, and forgets none.
LEMMA ObserveKeeps == ASSUME HolderInv, Observe PROVE HolderInv'
<1>1. /\ SessionInv /\ TypeOK /\ Epochs /\ Marked /\ suspends \in 0..MaxSuspends /\ Stall \in Nat \ {0}
  BY HolderAssumption DEF HolderInv, HolderTypeOK, SessionInv
<1>2. Remark /\ UNCHANGED suspends /\ ran' \in 0..Stall /\ slept' \in BOOLEAN /\ pending' \in BOOLEAN
  <2>1. ran' = 0 /\ 0 \in 0..Stall
    BY <1>1 DEF Observe, Observed
  <2> QED
    BY <2>1 DEF Observe, Observed
<1>3. CASE Due /\ verifyEpoch < MaxEpoch /\ InvalidateSessions
           /\ UNCHANGED <<mono, chainVars, opens, contacts, jobs>>
  BY <1>1, <1>2, <1>3, SameJobs, InvalidationClears
<1>4. CASE ~Due /\ UNCHANGED vars
  <2>1. SessionInv' /\ UNCHANGED <<sessions, jobs, verifyEpoch>>
    BY <1>1, <1>4, SessionNext DEF vars
  <2>2. Epochs'
    BY <1>1, <2>1 DEF Epochs
  <2>3. old' \cap Conns = {}
    BY <1>1, <1>2, <1>4, <2>1, Remarked DEF Marked
  <2>4. \A j \in old' \cap Verifies : jobs'[j].pc \in Headed /\ jobs'[j].epoch # verifyEpoch'
    BY <1>1, <1>2, <1>4, <2>1, Remarked DEF Marked
  <2>5. HolderTypeOK'
    BY <1>1, <1>2, <2>1, Remarked DEF HolderTypeOK, SessionInv
  <2> QED
    BY <2>1, <2>2, <2>3, <2>4, <2>5 DEF HolderInv, Marked
<1> QED
  BY <1>3, <1>4 DEF Observe

-----------------------------------------------------------------------------
(* Verifications and streams.                                              *)

\* An authorization is written by a verification of the present epoch, and a confirmed one keeps
\* the epoch it took with the permit.
LEMMA EpochsOfSteps ==
    ASSUME SessionInv, Epochs, NEW k \in Verifies, VerifyStep(k)
    PROVE  /\ jobs'[k].epoch <= verifyEpoch
           /\ jobs[k].pc = "upsert" /\ jobs'[k].pc = "verified" => jobs[k].epoch = verifyEpoch
           /\ jobs[k].pc \in Headed /\ jobs'[k].pc \in Headed
                => jobs'[k].epoch = jobs[k].epoch
<1>1. /\ jobs \in [Verifies -> Jobs] /\ jobs[k] \in Jobs /\ verifyEpoch \in Nat
      /\ jobs[k].epoch <= verifyEpoch /\ JobFits(jobs[k])
      /\ \A c \in Conns : SessionFits(sessions[c]) /\ sessions[c] \in Sessions
      /\ Idle.epoch = 0 /\ Idle.pc = "idle"
  BY SessionAssumption DEF SessionInv, TypeOK, Epochs, Idle
<1>2. jobs[k].pc # "idle" /\ Current(k) => sessions[jobs[k].conn].epoch = verifyEpoch
  <2> SUFFICES ASSUME jobs[k].pc # "idle", Current(k) PROVE sessions[jobs[k].conn].epoch = verifyEpoch
    OBVIOUS
  <2>1. jobs[k].conn \in Conns
    BY <1>1 DEF Jobs
  <2>2. /\ sessions[jobs[k].conn].id # 0 /\ sessions[jobs[k].conn].peer = jobs[k].peer
        /\ jobs[k].peer \in Peers
    BY <1>1 DEF JobFits, Current
  <2>3. sessions[jobs[k].conn].peer # NoPeer
    BY <2>2, SessionAssumption
  <2> QED
    BY <1>1, <2>1, <2>3 DEF SessionFits
<1>3. ASSUME End(k)
      PROVE  jobs'[k].epoch = 0 /\ jobs'[k].pc = "idle"
  BY <1>1, <1>3 DEF End
<1>4. ASSUME NEW pc, Moves(k, pc)
      PROVE  jobs'[k].epoch = jobs[k].epoch /\ jobs'[k].pc = pc
  BY <1>1, <1>4 DEF Moves, Jobs
<1>5. ASSUME NEW c \in Conns, NEW a \in Accounts, Verify(k, c, a)
      PROVE  jobs'[k].epoch = 0 /\ jobs'[k].pc = "queued"
  BY <1>1, <1>5 DEF Verify, Idle
<1>6. ASSUME Acquire(k)
      PROVE  jobs'[k].epoch <= verifyEpoch /\ jobs[k].pc = "queued"
  <2>1. jobs[k].pc = "queued"
    BY <1>6 DEF Acquire
  <2>2. CASE End(k) \/ Moves(k, "verified")
    BY <1>1, <1>3, <1>4, <2>1, <2>2
  <2>3. CASE /\ Current(k)
             /\ jobs' = [jobs EXCEPT ![k].pc = "lookup", ![k].epoch = sessions[jobs[k].conn].epoch]
    <3>1. jobs'[k].epoch = sessions[jobs[k].conn].epoch
      BY <1>1, <2>3 DEF Jobs
    <3> QED
      BY <1>1, <1>2, <2>1, <2>3, <3>1
  <2> QED
    BY <1>6, <2>2, <2>3 DEF Acquire
<1>7. ASSUME CaptureHead(k)
      PROVE  jobs'[k].epoch <= verifyEpoch /\ jobs[k].pc = "lookup"
  <2>1. PICK b \in ReportedHeads :
              jobs' = [jobs EXCEPT ![k].pc = "head", ![k].block = b, ![k].asked = mono]
    BY <1>7 DEF CaptureHead
  <2>2. jobs'[k].epoch = jobs[k].epoch
    BY <1>1, <2>1 DEF Jobs
  <2> QED
    BY <1>1, <1>7, <2>2 DEF CaptureHead
<1>10. ASSUME Confirm(k)
       PROVE  /\ jobs'[k].epoch <= verifyEpoch /\ jobs[k].pc = "head"
              /\ jobs'[k].pc \in Headed => jobs'[k].epoch = jobs[k].epoch
              /\ jobs'[k].pc # "verified"
  <2>1. jobs[k].pc = "head"
    BY <1>10 DEF Confirm
  <2>2. CASE jobs' = [jobs EXCEPT ![k].pc = "known", ![k].at = mono]
    <3>1. jobs'[k].epoch = jobs[k].epoch /\ jobs'[k].pc = "known"
      BY <1>1, <2>2 DEF Jobs
    <3> QED
      BY <1>1, <2>1, <3>1
  <2>3. CASE End(k)
    BY <1>1, <1>3, <2>1, <2>3 DEF Headed
  <2> QED
    BY <1>10, <2>2, <2>3 DEF Confirm
<1>8. ASSUME ContactSaved(k)
      PROVE  /\ jobs'[k].epoch = 0 /\ jobs'[k].pc \in {"idle", "verified"}
             /\ jobs'[k].pc = "verified" => jobs[k].epoch = verifyEpoch
  <2>1. CASE InForce(k)
    <3>1. jobs[k].pc # "idle"
      BY <1>8 DEF ContactSaved
    <3>2. jobs[k].epoch = verifyEpoch
      BY <1>2, <2>1, <3>1 DEF InForce
    <3>3. jobs'[k].epoch = 0 /\ jobs'[k].pc = "verified"
      <4>1. jobs' = [jobs EXCEPT ![k] = [Idle EXCEPT !.pc = "verified", !.conn = jobs[k].conn,
                         !.peer = jobs[k].peer, !.id = jobs[k].id, !.claim = jobs[k].claim]]
        BY <1>8, <2>1 DEF ContactSaved
      <4> QED
        BY <1>1, <4>1 DEF Idle
    <3> QED
      BY <3>2, <3>3
  <2>2. CASE ~InForce(k)
    BY <1>3, <1>8, <2>2 DEF ContactSaved
  <2> QED
    BY <2>1, <2>2
<1>9. ASSUME Fail(k) \/ ContactRead(k) \/ Leave(k)
      PROVE  \/ jobs'[k].epoch = 0 /\ jobs'[k].pc = "idle"
             \/ jobs'[k].epoch = jobs[k].epoch /\ jobs'[k].pc = "upsert"
  BY <1>3, <1>4, <1>9 DEF Fail, ContactRead, Leave
<1> QED
  BY <1>1, <1>5, <1>6, <1>7, <1>8, <1>9, <1>10 DEF VerifyStep, Headed

\* A step that is none of the lifecycle keeps signs and marks, when verifications go on as above.
LEMMA QuietStep ==
    ASSUME HolderInv, SessionInv', UNCHANGED verifyEpoch, Untouched, Remark,
           \A j \in Verifies :
             /\ jobs'[j].epoch <= verifyEpoch
             /\ jobs[j].pc = "upsert" /\ jobs'[j].pc = "verified" => jobs[j].epoch = verifyEpoch
             /\ jobs[j].pc \in Headed /\ jobs'[j].pc \in Headed
                  => jobs'[j].epoch = jobs[j].epoch
    PROVE  HolderInv'
<1>1. Marked /\ HolderTypeOK
  BY DEF HolderInv
<1>2. Due' = Due
  BY DEF Untouched, Due
<1>3. old' \cap Conns # {} => Due'
  BY <1>1, <1>2, Remarked DEF Marked
<1>4. \A j \in old' \cap Verifies :
        jobs'[j].pc \in Headed /\ (Due' \/ jobs'[j].epoch # verifyEpoch')
  BY <1>1, <1>2, Remarked DEF Marked
<1>5. HolderTypeOK'
  BY <1>1, Remarked DEF HolderTypeOK, Untouched, SessionInv
<1>6. Epochs'
  BY DEF Epochs
<1> QED
  BY <1>3, <1>4, <1>5, <1>6 DEF HolderInv, Marked

\* A stream that is acted on was not marked.
LEMMA UseKeeps == ASSUME HolderInv, NEW k \in Verifies, UseInbound(k) \/ UseOutbound(k) PROVE HolderInv'
<1>1. /\ SessionInv /\ TypeOK /\ Epochs /\ Marked /\ HolderTypeOK /\ jobs \in [Verifies -> Jobs]
      /\ Stall \in Nat \ {0}
  BY HolderAssumption DEF HolderInv, HolderTypeOK, SessionInv, TypeOK
<1>2. Use(k) /\ UNCHANGED <<old, suspends>>
  BY DEF UseInbound, UseOutbound, Untouched
<1>3. SessionInv' /\ UNCHANGED <<sessions, verifyEpoch>>
  BY <1>1, <1>2, VerifyKeeps DEF Use, sessionVars
<1>4. /\ jobs[k].pc = "verified" /\ \A j \in Verifies : jobs'[j].epoch = jobs[j].epoch
      /\ \A j \in Verifies : j # k => jobs'[j] = jobs[j]
  BY <1>1, <1>2 DEF Use, Moves, Jobs
<1>5. Epochs'
  BY <1>1, <1>3, <1>4 DEF Epochs
<1>6. /\ Due => Due'
      /\ ran' \in 0..Stall /\ slept' \in BOOLEAN /\ pending' \in BOOLEAN
  <2>1. Due => Due'
    BY DEF UseInbound, UseOutbound, Untouched, Due
  <2>2. ran' \in 0..Stall
    <3>1. ran' \in {0, ran}
      BY DEF UseInbound, UseOutbound, Untouched, Observed
    <3> QED
      BY <1>1, <3>1 DEF HolderTypeOK
  <2>3. slept' \in BOOLEAN /\ pending' \in BOOLEAN
    BY <1>1 DEF UseInbound, UseOutbound, Untouched, Observed, HolderTypeOK
  <2> QED
    BY <2>1, <2>2, <2>3
<1>7. Marked'
  BY <1>1, <1>2, <1>3, <1>4, <1>6 DEF Marked, Headed
<1> QED
  BY <1>1, <1>2, <1>3, <1>5, <1>6, <1>7 DEF HolderInv, HolderTypeOK, SessionInv

-----------------------------------------------------------------------------

\* Every step keeps the invariant.
LEMMA HolderStep == ASSUME HolderInv, [HolderNext]_holderVars PROVE HolderInv'
<1>1. SessionInv /\ TypeOK /\ Epochs /\ jobs \in [Verifies -> Jobs] /\ Stall \in Nat \ {0}
      /\ ran \in 0..Stall /\ slept \in BOOLEAN /\ pending \in BOOLEAN
  BY HolderAssumption DEF HolderInv, HolderTypeOK, SessionInv, TypeOK
<1>2. CASE UNCHANGED holderVars
  <2>1. SessionInv'
    BY <1>1, <1>2, SessionNext DEF holderVars
  <2>2. UNCHANGED <<jobs, sessions, verifyEpoch, ran, slept, pending, suspends, old>>
    BY <1>2 DEF holderVars, vars
  <2> QED
    BY <2>1, <2>2 DEF HolderInv, HolderTypeOK, SessionInv, Epochs, Marked, Due
<1>3. ASSUME HandleWake PROVE HolderInv'
  <2>1. /\ verifyEpoch < MaxEpoch /\ InvalidateSessions
        /\ UNCHANGED <<mono, chainVars, opens, contacts, jobs, suspends, ran, slept>>
        /\ Remark /\ pending' = TRUE
    BY <1>3 DEF HandleWake, InvalidateAuthorization
  <2> QED
    BY <1>1, <2>1, SameJobs, InvalidationClears
<1>4. ASSUME NEW k \in Verifies, RefuseInbound(k) PROVE HolderInv'
  <2>1. /\ verifyEpoch < MaxEpoch /\ InvalidateSessions
        /\ UNCHANGED <<mono, chainVars, opens, contacts, suspends>>
        /\ Remark /\ ran' = 0 /\ slept' = FALSE /\ pending' = FALSE
    BY <1>4 DEF RefuseInbound, Observed
  <2>2. JobsEnd
    BY <1>1, <1>4, RecordsFit DEF RefuseInbound, End, JobsEnd
  <2>3. ran' \in 0..Stall /\ slept' \in BOOLEAN /\ pending' \in BOOLEAN
    <3>1. 0 \in 0..Stall
      BY <1>1
    <3> QED
      BY <2>1, <3>1
  <2> QED
    BY <2>1, <2>2, <2>3, InvalidationClears
<1>5. ASSUME NEW gone \in SUBSET Peers, NewBlock(gone), Untouched, Remark PROVE HolderInv'
  <2>1. SessionInv' /\ UNCHANGED <<verifyEpoch, jobs>>
    BY <1>1, <1>5, ChainKeeps DEF NewBlock, sessionVars
  <2> QED
    BY <1>1, <1>5, <2>1, QuietStep DEF Epochs
<1>6. ASSUME NEW c \in Conns, NEW p \in Peers, Opened(c, p) \/ Closed(c, p), Untouched, Remark
      PROVE  HolderInv'
  <2>1. SessionInv' /\ UNCHANGED <<verifyEpoch, jobs>>
    BY <1>1, <1>6, SessionStepKeeps DEF Opened, Closed
  <2> QED
    BY <1>1, <1>6, <2>1, QuietStep DEF Epochs
<1>7. ASSUME NEW k \in Verifies, VerifyStep(k), Untouched, Remark PROVE HolderInv'
  <2>1. SessionInv'
    BY <1>1, <1>7, VerifyKeeps, ContactSavedKeeps DEF VerifyStep
  <2>2. UNCHANGED verifyEpoch
    BY <1>7 DEF VerifyStep, Verify, Acquire, CaptureHead, Confirm, Fail, ContactRead, ContactSaved, Leave,
                    sessionVars
  <2>3. \A j \in Verifies : j # k => jobs'[j] = jobs[j]
    BY <1>1, <1>7, OneVerificationMoves
  <2>4. ASSUME NEW j \in Verifies
        PROVE  /\ jobs'[j].epoch <= verifyEpoch
               /\ jobs[j].pc = "upsert" /\ jobs'[j].pc = "verified" => jobs[j].epoch = verifyEpoch
               /\ jobs[j].pc \in Headed /\ jobs'[j].pc \in Headed
                    => jobs'[j].epoch = jobs[j].epoch
    <3>1. CASE j = k
      BY <1>1, <1>7, <3>1, EpochsOfSteps
    <3>2. CASE j # k
      BY <1>1, <2>3, <3>2 DEF Epochs
    <3> QED
      BY <3>1, <3>2
  <2> QED
    BY <1>7, <2>1, <2>2, <2>4, QuietStep
<1> QED
  BY <1>2, <1>3, <1>4, <1>5, <1>6, <1>7, SuspendKeeps, TickKeeps, ObserveKeeps, UseKeeps DEF HolderNext

\* Sessions, clocks, epochs and marks at every step of a holder.
THEOREM HolderInvariant == HolderSpec => []HolderInv
<1>1. HolderInit => HolderInv
  BY HolderStart
<1>2. HolderInv /\ [HolderNext]_holderVars => HolderInv'
  BY HolderStep
<1> QED
  BY <1>1, <1>2, PTL DEF HolderSpec

\* A connection authorized before a suspend is discarded by whoever looks at the clocks next, be it
\* the interval, SIGCONT or a handler (lifecycle.ts, lines 36 to 58; process-lifecycle.ts, 41 to 52).
THEOREM SuspendIsNoticed == HolderSpec => []SuspendIsNeverForgotten
<1>1. HolderInv => SuspendIsNeverForgotten
  BY DEF HolderInv, Marked, SuspendIsNeverForgotten
<1> QED
  BY <1>1, HolderInvariant, PTL

\* No inbound frame is saved and acknowledged on an authorization from before a suspend (chat.ts,
\* lines 547 and 556; sync.ts, lines 162 to 164).
THEOREM HandlersAreAwake == HolderSpec => InboundUsesAreAwake
<1> DEFINE Awake == \A j \in Verifies \ Outbound, c \in Conns : UsedOn(c, j) => c \notin old
<1>1. HolderInv /\ [HolderNext]_holderVars => [Awake]_holderVars
  <2> SUFFICES ASSUME HolderInv, HolderNext, NEW j \in Verifies \ Outbound, NEW c \in Conns, UsedOn(c, j)
               PROVE  c \notin old
    OBVIOUS
  <2>1. /\ SessionInv /\ Marked /\ jobs \in [Verifies -> Jobs]
        /\ jobs[j].pc = "verified" /\ jobs'[j].pc = "used"
    BY DEF HolderInv, SessionInv, TypeOK, UsedOn
  <2>2. jobs' # jobs /\ Idle.pc = "idle"
    BY <2>1 DEF Idle
  <2>3. PICK k \in Verifies : VerifyStep(k) \/ UseInbound(k) \/ UseOutbound(k)
    <3>1. ASSUME NEW k \in Verifies, RefuseInbound(k) PROVE FALSE
      BY <2>1, <2>2, <3>1 DEF RefuseInbound, End
    <3> QED
      BY <2>2, <3>1 DEF HolderNext, SuspendPaused, SuspendCounted, TickHolder, Tick, Observe, HandleWake,
                        NewBlock, Opened, Closed, InvalidateAuthorization, vars
  <2>4. k = j /\ ~VerifyStep(k)
    BY <2>1, <2>3, OneVerificationMoves DEF UseInbound, UseOutbound
  <2>5. ~Due
    BY <2>3, <2>4 DEF UseInbound, UseOutbound
  <2> QED
    BY <2>1, <2>5 DEF Marked
<1> QED
  BY <1>1, HolderInvariant, PTL DEF HolderSpec, InboundUsesAreAwake

\* The sessions of a holder keep what those of any program keep.
THEOREM HolderSessionsHold ==
    HolderSpec => [](HolderTypeOK /\ AuthorizedPeersWereMembers /\ NoneFromBeforeInvalidation
                     /\ OneWindowPerHead /\ RemovalTakesEffect)
<1>1. HolderInv => HolderTypeOK /\ SessionInv
  BY DEF HolderInv
<1> QED
  BY <1>1, SessionsHold, HolderInvariant, PTL
=============================================================================
