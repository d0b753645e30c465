--------------------------- MODULE OutboxRuntime ---------------------------
(***************************************************************************)
(* The outbox of a running CLI (cli/src/outbox.ts createOutboxRuntime): a  *)
(* loop that delivers what is due, sleeps until the next row is, and is    *)
(* woken by rows that are enqueued and by peers that connect.  Reads and   *)
(* writes of its database may fail, deliveries fail or lose their          *)
(* acknowledgement, the process may die.                                   *)
(*                                                                         *)
(* Times are kept as what is left of them: a row waits row[r].wait ticks   *)
(* until nextAttemptAt, and instead of its attempts the delay that the last*)
(* of them led to is counted.  Rows are numbered in the order they are     *)
(* queued.                                                                 *)
(***************************************************************************)
EXTENDS Integers, FiniteSets, FiniteSetsExt

CONSTANTS Rows,          \* 1..n
          Qids,          \* recipients
          RecipientOf,   \* the recipient of a row
          Enqueued,      \* the wake of an enqueued row; a connected peer's wake is its qid
          InitialBackoff, MaxBackoff,   \* OUTBOX_INITIAL_BACKOFF_MS, OUTBOX_MAX_BACKOFF_MS
          FlushConcurrency,             \* OUTBOX_FLUSH_CONCURRENCY
          MaxCrashes     \* bound of the model

ASSUME OutboxAssumption ==
    /\ Rows \subseteq Nat /\ RecipientOf \in [Rows -> Qids] /\ Enqueued \notin Qids
    /\ InitialBackoff \in Nat \ {0} /\ MaxBackoff \in Nat /\ InitialBackoff <= MaxBackoff
    /\ FlushConcurrency \in Nat \ {0}
    /\ MaxCrashes \in Nat

VARIABLES row,           \* the outbox table
          wakes,         \* the queue of wakes; all of them are taken at once
          pc,            \* where the loop is
          sleep,         \* ticks left to sleep, NoSleep to sleep until a wake
          skip,          \* ignoreBackoffForQids, and the peers being looked up
          pendingRows,   \* the rows the loop read before it went to sleep
          due,           \* rows of this flush that were not begun yet
          sending,       \* rows being delivered
          reachable,     \* recipients with an authorized device that answers
          received,      \* rows a recipient has stored
          ago,           \* history: ticks since a row was begun last or the loop was woken
          crashes

loopVars == <<pc, sleep, skip, pendingRows>>
runtimeVars == <<row, wakes, pc, sleep, skip, pendingRows, due, sending, reachable, received, ago,
                 crashes>>

NoSleep == -1
NoRow   == [status |-> "none", delay |-> 0, wait |-> 0]

RuntimeTypeOK ==
    /\ row \in [Rows -> [status : {"none", "queued", "sent", "failed"}, delay : 0..MaxBackoff,
                         wait : 0..MaxBackoff]]
    /\ wakes \subseteq Qids \cup {Enqueued}
    /\ pc \in {"flush", "flushing", "read", "wait", "lookup"}
    /\ sleep \in {NoSleep} \cup 0..MaxBackoff
    /\ skip \subseteq Qids /\ reachable \subseteq Qids
    /\ pendingRows \subseteq Rows /\ due \subseteq Rows /\ sending \subseteq Rows /\ received \subseteq Rows
    /\ due \cap sending = {}
    /\ \A r \in due \cup sending : row[r].status = "queued"
    /\ ago \in [Rows -> 0..InitialBackoff]
    /\ crashes \in 0..MaxCrashes

RuntimeInit ==
    /\ row = [r \in Rows |-> NoRow]
    /\ wakes = {} /\ pc = "flush" /\ sleep = NoSleep /\ skip = {} /\ pendingRows = {}
    /\ due = {} /\ sending = {}
    /\ reachable \in SUBSET Qids
    /\ received = {} /\ crashes = 0
    /\ ago = [r \in Rows |-> InitialBackoff]

Queued == {r \in Rows : row[r].status = "queued"}

(***************************************************************************)
(* The rest of the CLI and the world.                                      *)
(***************************************************************************)
\* enqueue: a new row, due at once, or the one there is; the loop is woken either way.
Enqueue(r) ==
    /\ \A q \in Rows : q < r => row[q].status # "none"
    /\ row' = IF row[r].status = "none" THEN [row EXCEPT ![r] = [NoRow EXCEPT !.status = "queued"]] ELSE row
    /\ wakes' = wakes \cup {Enqueued}
    /\ UNCHANGED <<loopVars, due, sending, reachable, received, ago, crashes>>

\* connectionEstablished.
Connect(q) ==
    /\ reachable' = reachable \cup {q}
    /\ wakes' = wakes \cup {q}
    /\ UNCHANGED <<row, loopVars, due, sending, received, ago, crashes>>

Vanish(q) ==
    /\ q \in reachable
    /\ reachable' = reachable \ {q}
    /\ UNCHANGED <<row, wakes, loopVars, due, sending, received, ago, crashes>>

Less(n) == IF n > 0 THEN n - 1 ELSE n

TimePasses ==
    /\ sleep > 0 \/ \E r \in Queued : row[r].wait > 0
    /\ row' = [r \in Rows |-> [row[r] EXCEPT !.wait = Less(@)]]
    /\ sleep' = Less(sleep)
    /\ ago' = [r \in Rows |-> IF ago[r] < InitialBackoff THEN ago[r] + 1 ELSE InitialBackoff]
    /\ UNCHANGED <<wakes, pc, skip, pendingRows, due, sending, reachable, received, crashes>>

\* The process dies; it flushes as soon as it is up again.
Crash ==
    /\ crashes < MaxCrashes
    /\ crashes' = crashes + 1
    /\ wakes' = {} /\ pc' = "flush" /\ sleep' = NoSleep /\ skip' = {} /\ pendingRows' = {}
    /\ due' = {} /\ sending' = {}
    /\ ago' = [r \in Rows |-> InitialBackoff]
    /\ UNCHANGED <<row, reachable, received>>

(***************************************************************************)
(* One attempt (deliverOne).                                               *)
(***************************************************************************)
\* nextAttemptDelayMs: InitialBackoff for the first attempt, then twice the delay of the one before.
NextDelay(delay) ==
    LET d == IF delay = 0 THEN InitialBackoff ELSE 2 * delay IN IF d < MaxBackoff THEN d ELSE MaxBackoff

Put(r, status) == row' = [row EXCEPT ![r].status = status, ![r].wait = 0, ![r].delay = 0]

MarkWaiting(r) == row' = [row EXCEPT ![r].delay = NextDelay(@), ![r].wait = NextDelay(row[r].delay)]

\* A row that could not be written stays as it was; the error is announced.
PutOrKeep(write) == write \/ row' = row

\* The rows of one recipient go one after the other.
First(r) ==
    /\ r \in due
    /\ \A q \in sending : RecipientOf[q] # RecipientOf[r]
    /\ \A q \in due : RecipientOf[q] = RecipientOf[r] => r <= q
    /\ Cardinality({RecipientOf[q] : q \in sending}) < FlushConcurrency

\* The row is read again, the handle still is the recipient's: deliver.
Begin(r) ==
    /\ First(r)
    /\ due' = due \ {r}
    /\ sending' = sending \cup {r}
    /\ ago' = [ago EXCEPT ![r] = 0]
    /\ UNCHANGED <<row, wakes, loopVars, reachable, received, crashes>>

\* The row cannot be read, the lookup fails, or the handle belongs to another account.
BeginFails(r) ==
    /\ First(r)
    /\ due' = due \ {r}
    /\ PutOrKeep(MarkWaiting(r) \/ Put(r, "failed"))
    /\ ago' = [ago EXCEPT ![r] = 0]
    /\ UNCHANGED <<wakes, loopVars, sending, reachable, received, crashes>>

\* The recipient stores the frame; the same frame again changes nothing there.
Receive(r) ==
    /\ r \in sending /\ r \notin received
    /\ RecipientOf[r] \in reachable
    /\ received' = received \cup {r}
    /\ UNCHANGED <<row, wakes, loopVars, due, sending, reachable, ago, crashes>>

\* Only the acknowledgement of this frame ends a delivery well.
Acknowledged(r) == r \in received

Delivered(r) ==
    /\ r \in sending /\ Acknowledged(r) /\ RecipientOf[r] \in reachable
    /\ sending' = sending \ {r}
    /\ PutOrKeep(Put(r, "sent"))
    /\ UNCHANGED <<wakes, loopVars, due, reachable, received, ago, crashes>>

Undelivered(r) ==
    /\ r \in sending
    /\ sending' = sending \ {r}
    /\ PutOrKeep(MarkWaiting(r))
    /\ UNCHANGED <<wakes, loopVars, due, reachable, received, ago, crashes>>

(***************************************************************************)
(* The loop.                                                               *)
(***************************************************************************)
Flush ==
    /\ pc = "flush"
    /\ \/ /\ due' = {r \in Queued : row[r].wait = 0 \/ RecipientOf[r] \in skip}
          /\ pc' = "flushing"
       \/ pc' = "read" /\ UNCHANGED due
    /\ UNCHANGED <<row, wakes, sleep, skip, pendingRows, sending, reachable, received, ago, crashes>>

Flushed ==
    /\ pc = "flushing"
    /\ due = {} /\ sending = {}
    /\ pc' = "read"
    /\ UNCHANGED <<row, wakes, sleep, skip, pendingRows, due, sending, reachable, received, ago, crashes>>

MutSleepFor(rows, readable) ==
    IF rows = {} THEN NoSleep
    ELSE Max({InitialBackoff, Min({row[r].wait : r \in rows})})
MutSpin(rows, readable) ==
    IF ~readable THEN InitialBackoff
    ELSE IF rows = {} THEN NoSleep
    ELSE Min({row[r].wait : r \in rows})
\* A read that failed is no empty outbox; rows that are due and still queued do not spin.
SleepFor(rows, readable) ==
    IF ~readable THEN InitialBackoff
    ELSE IF rows = {} THEN NoSleep
    ELSE Max({InitialBackoff, Min({row[r].wait : r \in rows})})

GoToSleep ==
    /\ pc = "read"
    /\ \E readable \in BOOLEAN :
         /\ pendingRows' = IF readable THEN Queued ELSE {}
         /\ sleep' = SleepFor(pendingRows', readable)
    /\ pc' = "wait"
    /\ UNCHANGED <<row, wakes, skip, due, sending, reachable, received, ago, crashes>>

\* What is left of the backoffs to ignore when no peer that connected needs to be looked up.
Kept(seen) == {}

\* A wake, or the end of the sleep; the queue is drained.
WakeUp ==
    /\ pc = "wait"
    /\ wakes # {} \/ sleep = 0
    /\ wakes' = {}
    /\ pendingRows' = {} /\ sleep' = NoSleep
    /\ IF wakes \cap Qids # {} /\ \E r \in pendingRows : row[r].wait > 0
       THEN skip' = wakes \cap Qids /\ pc' = "lookup"
       ELSE skip' = Kept(wakes) /\ pc' = "flush"
    /\ ago' = IF wakes = {} THEN ago ELSE [r \in Rows |-> InitialBackoff]
    /\ UNCHANGED <<row, due, sending, reachable, received, crashes>>

\* lookupPeerQid of each peer that connected; some may fail or time out.
Lookup ==
    /\ pc = "lookup"
    /\ skip' \in SUBSET skip
    /\ pc' = "flush"
    /\ UNCHANGED <<row, wakes, sleep, pendingRows, due, sending, reachable, received, ago, crashes>>

Loop == Flush \/ Flushed \/ GoToSleep \/ WakeUp \/ Lookup

Attempt(r) == Begin(r) \/ BeginFails(r) \/ Receive(r) \/ Delivered(r) \/ Undelivered(r)

RuntimeNext ==
    \/ \E r \in Rows : Enqueue(r) \/ Attempt(r)
    \/ \E q \in Qids : Connect(q) \/ Vanish(q)
    \/ TimePasses \/ Crash \/ Loop

RuntimeSpec == RuntimeInit /\ [][RuntimeNext]_runtimeVars

\* Time passes and the loop runs.  A delivery that is begun again and again, to a recipient that
\* answers, succeeds and is written in the end.
RuntimeFairness ==
    /\ WF_runtimeVars(TimePasses) /\ WF_runtimeVars(Loop)
    /\ SF_runtimeVars(Flush /\ pc' = "flushing")
    /\ WF_runtimeVars(\E r \in Rows : Begin(r) \/ BeginFails(r) \/ Delivered(r) \/ Undelivered(r))
    /\ SF_runtimeVars(\E r \in Rows : Receive(r))
    /\ SF_runtimeVars(\E r \in Rows : Delivered(r) /\ row' # row)
    /\ \A r \in Rows : SF_runtimeVars(Begin(r))

FairSpec == RuntimeSpec /\ RuntimeFairness

(***************************************************************************)
(* Properties.                                                             *)
(***************************************************************************)
\* The loop sleeps without an end only when nothing is queued that has not woken it, whatever reads
\* failed (cli/src/outbox.ts:360-374 "Don't treat a failed read as an empty outbox (that parks forever)").
NeverParked == pc = "wait" /\ sleep = NoSleep /\ Queued # {} => Enqueued \in wakes

\* With nothing to wake the loop, a row is not begun again before the initial backoff has passed since it
\* was begun last, whatever reads and writes failed in between (outbox.ts:369-373 "Due rows left queued
\* after a swallowed write must not spin at 0").
AttemptsAreSpaced == \A r \in due : ago[r] = InitialBackoff

\* A row whose recipient comes to stay reachable does not stay queued for ever, whatever read or
\* write failed, and with nothing else to wake the loop (outbox.ts:350-417).
QueuedIsResolved ==
    \A r \in Rows : (<>[](RecipientOf[r] \in reachable)) => (row[r].status = "queued" ~> row[r].status # "queued")
=============================================================================
