--------------------------- MODULE HolderSessions ---------------------------
(***************************************************************************)
(* The sessions of a running CLI (cli/src/chat.ts createHolder and         *)
(* runStart) with the detection of suspends: the lifecycle adapter         *)
(* (packages/protocol/src/lifecycle.ts) compares how far the wall clock    *)
(* and the monotonic clock went since it was last asked, the process       *)
(* lifecycle (cli/src/process-lifecycle.ts) asks it on an interval and     *)
(* hears SIGCONT, and the handlers ask it before they act on a stream.     *)
(* A suspend here is at least Stall long; the monotonic clock may stand    *)
(* still in it or go on.                                                   *)
(***************************************************************************)
EXTENDS PeerSessions

CONSTANTS Outbound,      \* the verifications of deliverChatFrame; the others serve inbound streams
          Stall,         \* stallThresholdMs
          MaxSuspends    \* bound of the model

ASSUME HolderAssumption ==
    Outbound \subseteq Verifies /\ Conns \cap Verifies = {} /\ Stall \in Nat \ {0} /\ MaxSuspends \in Nat

VARIABLES ran,           \* monotonic time since the adapter observed, up to Stall
          slept,         \* whether the wall clock is ahead of it by Stall or more
          pending,       \* pendingInvalidation
          suspends,
          old            \* history: connections authorized, and verifications that had the head
                         \* they rest on, before the last suspend

lifecycleVars == <<ran, slept, pending>>
holderVars == <<vars, ran, slept, pending, suspends, old>>

HolderTypeOK ==
    /\ TypeOK
    /\ ran \in 0..Stall /\ slept \in BOOLEAN /\ pending \in BOOLEAN
    /\ suspends \in 0..MaxSuspends
    /\ old \subseteq Conns \cup Verifies

HolderInit == Init /\ ran = 0 /\ slept = FALSE /\ pending = FALSE /\ suspends = 0 /\ old = {}

Up(n) == IF n < Stall THEN n ELSE Stall

\* The verifications that have the head they rest on.
Headed == {"head", "known", "upsert"}

Confirmed == {c \in Conns : sessions[c].auth # NoAuth}
             \cup {j \in Verifies : jobs[j].pc \in Headed}

\* How the marks move on a step: a window keeps the mark of the verification that opened it, and a
\* mark goes with what carries it.
Remark ==
    old' = (IF \E j \in old \cap Verifies : jobs[j].pc = "upsert" /\ jobs'[j].pc = "verified"
            THEN old \cup {jobs[j].conn : j \in {k \in old \cap Verifies :
                                                   jobs[k].pc = "upsert" /\ jobs'[k].pc = "verified"}}
            ELSE old \ {c \in Conns : sessions'[c].auth # sessions[c].auth})
           \cap Confirmed'

Untouched == UNCHANGED <<ran, slept, pending, suspends>>

(***************************************************************************)
(* Suspends and their detection.                                           *)
(***************************************************************************)
SuspendPaused ==
    /\ suspends < MaxSuspends
    /\ suspends' = suspends + 1
    /\ slept' = TRUE
    /\ old' = Confirmed
    /\ UNCHANGED <<vars, ran, pending>>

SuspendCounted ==
    /\ suspends < MaxSuspends /\ mono + Stall <= MaxTime
    /\ suspends' = suspends + 1
    /\ mono' = mono + Stall /\ ran' = Stall
    /\ old' = Confirmed
    /\ UNCHANGED <<chainVars, sessionVars, contacts, jobs, slept, pending>>

TickHolder ==
    /\ Tick
    /\ ran' = Up(ran + 1)
    /\ UNCHANGED <<slept, pending, suspends, old>>

Due == pending \/ slept \/ ran >= Stall

Observed == ran' = 0 /\ slept' = FALSE /\ pending' = FALSE

MutObserve ==
    /\ ran # 0 \/ slept \/ pending
    /\ Observed
    /\ \/ pending /\ verifyEpoch < MaxEpoch /\ InvalidateSessions
          /\ UNCHANGED <<mono, chainVars, opens, contacts, jobs>>
       \/ ~pending /\ UNCHANGED vars
    /\ Remark
    /\ UNCHANGED suspends

\* handleTick, and guardSensitive in any handler but the last one before a use: takeInvalidation, and
\* the invalidation if it is due.
Observe ==
    /\ ran # 0 \/ slept \/ pending
    /\ Observed
    /\ \/ Due /\ verifyEpoch < MaxEpoch /\ InvalidateSessions
          /\ UNCHANGED <<mono, chainVars, opens, contacts, jobs>>
       \/ ~Due /\ UNCHANGED vars
    /\ Remark
    /\ UNCHANGED suspends

\* SIGCONT: markInterrupted and onInterrupt; the mark also invalidates at the next observation.
HandleWake ==
    /\ InvalidateAuthorization
    /\ pending' = TRUE
    /\ Remark
    /\ UNCHANGED <<ran, slept, suspends>>

(***************************************************************************)
(* Acting on a stream.                                                     *)
(***************************************************************************)
MutUseInbound(j) ==
    /\ j \notin Outbound
    /\ Use(j)
    /\ Untouched /\ UNCHANGED old
\* guardSensitive and isVerified in one go (chat.ts:556, sync.ts:164).
UseInbound(j) ==
    /\ j \notin Outbound
    /\ ~Due
    /\ Use(j)
    /\ Observed
    /\ UNCHANGED <<suspends, old>>

\* The guard takes the invalidation and the stream is reset.
RefuseInbound(j) ==
    /\ j \notin Outbound
    /\ jobs[j].pc = "verified"
    /\ Due /\ verifyEpoch < MaxEpoch
    /\ InvalidateSessions
    /\ End(j)
    /\ Observed
    /\ Remark
    /\ UNCHANGED <<mono, chainVars, opens, contacts, suspends>>

\* deliverChatFrame looks at isVerified alone before it writes.
UseOutbound(j) ==
    /\ j \in Outbound
    /\ Use(j)
    /\ Untouched /\ UNCHANGED old

HolderNext ==
    \/ SuspendPaused \/ SuspendCounted \/ TickHolder \/ Observe \/ HandleWake
    \/ \E j \in Verifies : UseInbound(j) \/ RefuseInbound(j) \/ UseOutbound(j)
    \/ \E gone \in SUBSET Peers : NewBlock(gone) /\ Untouched /\ Remark
    \/ \E c \in Conns, p \in Peers : (Opened(c, p) \/ Closed(c, p)) /\ Untouched /\ Remark
    \/ \E j \in Verifies : VerifyStep(j) /\ Untouched /\ Remark

HolderSpec == HolderInit /\ [][HolderNext]_holderVars

(***************************************************************************)
(* Properties.                                                             *)
(***************************************************************************)
UsedOn(c, j) == jobs[j].pc = "verified" /\ jobs'[j].pc = "used" /\ jobs[j].conn = c

\* No inbound frame is saved and acknowledged on an authorization from before a suspend, even when
\* the handler runs before the interval has noticed it (chat.ts:547 and 556, sync.ts:162-164).
InboundUsesAreAwake ==
    [][\A j \in Verifies \ Outbound, c \in Conns : UsedOn(c, j) => c \notin old]_holderVars

\* What rests on a head from before a suspend is gone, or the next observation will discard it: a suspend is
\* never forgotten (lifecycle.ts:36-39 and 52-58; process-lifecycle.ts:41-52).
SuspendIsNeverForgotten == old \cap Conns # {} => Due
=============================================================================
