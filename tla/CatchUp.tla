------------------------------ MODULE CatchUp ------------------------------
(***************************************************************************)
(* Inbox catch-up: the phone copies the inbox of each of its holders over  *)
(* /qop/sync/1 and remembers, for each holder, the last row it has dealt   *)
(* with (mobile/src/lib/p2p-store-core.ts pullHolderInbox, cursors in      *)
(* mobile/src/lib/db.ts; cli/src/outbox-store.ts putInbox, inboxAfter).    *)
(* Jobs are not cancelled when the endpoint stops: they notice a new       *)
(* generation at some of their steps, and the jobs of one holder wait for  *)
(* each other.                                                             *)
(***************************************************************************)
EXTENDS Integers, Sequences, SequencesExt

CONSTANTS Holders,
          Msgs,          \* messages that arrive at a holder
          Senders,
          Sender,        \* who sent a message
          NoHolder,
          Jobs,          \* catch-ups that may exist at one time
          PageLimit,     \* INBOX_CATCHUP_ROW_LIMIT
          MaxRestarts, MaxLogouts, MaxWipes   \* bounds of the model

ASSUME CatchUpAssumption ==
    /\ Sender \in [Msgs -> Senders] /\ NoHolder \notin Holders
    /\ PageLimit \in Nat \ {0}
    /\ MaxRestarts \in Nat /\ MaxLogouts \in Nat /\ MaxWipes \in Nat

VARIABLES inbox,         \* the inbox table of each holder, rowid by rowid
          messages,      \* received messages in the phone's database
          contacts,      \* contacts in the phone's database
          cursor,        \* holder_cursors, 0 when there is no row
          generation,
          jobs,
          restarts, logouts, wipes,
          unseen,        \* history: holders that were wiped and the phone has not noticed
          dealt,         \* history: rows of the inbox as it is now that the phone saved or skipped
          since,         \* history: the generation that the phone's database was last emptied for
          gap            \* history: holders whose rows the phone may pass over, for one of two reasons: a
                         \* wiped inbox grew to its cursor unseen, or a job outlived a logout and wrote

phoneVars == <<messages, contacts, cursor>>
history   == <<unseen, dealt, since, gap>>
bounds    == <<restarts, logouts, wipes>>
vars      == <<inbox, messages, contacts, cursor, generation, jobs, restarts, logouts, wipes,
               unseen, dealt, since, gap>>

Idle == [pc |-> "idle", holder |-> NoHolder, gen |-> 0, after |-> 0, page |-> <<>>, last |-> 0,
         fresh |-> TRUE]

\* A page starts at row `after + 1`.  `fresh` is history: the holder was not wiped since it was read.
JobType == [pc : {"idle", "waiting", "asking", "page", "item", "lookup", "insert", "advance"},
            holder : Holders \cup {NoHolder}, gen : Nat, after : Nat, page : Seq(Msgs), last : Nat,
            fresh : BOOLEAN]

TypeOK ==
    /\ inbox \in [Holders -> Seq(Msgs)]
    /\ \A h \in Holders : IsInjective(inbox[h])
    /\ messages \subseteq Msgs /\ contacts \subseteq Senders
    /\ cursor \in [Holders -> Nat]
    /\ generation \in Nat /\ since \in Nat
    /\ jobs \in [Jobs -> JobType]
    /\ dealt \in [Holders -> SUBSET Msgs] /\ gap \subseteq Holders /\ unseen \subseteq Holders
    /\ \A m \in messages : Sender[m] \in contacts

Init ==
    /\ inbox = [h \in Holders |-> <<>>]
    /\ messages = {} /\ contacts = {}
    /\ cursor = [h \in Holders |-> 0]
    /\ generation = 0
    /\ jobs = [j \in Jobs |-> Idle]
    /\ restarts = 0 /\ logouts = 0 /\ wipes = 0
    /\ dealt = [h \in Holders |-> {}] /\ gap = {} /\ unseen = {} /\ since = 0

(***************************************************************************)
(* The holder.                                                             *)
(***************************************************************************)
\* putInbox: a row for each (sender, id), inserted once; its rowid is one more than the last.
PutInbox(h, m) ==
    /\ m \notin Range(inbox[h])
    /\ inbox' = [inbox EXCEPT ![h] = Append(@, m)]
    /\ gap' = IF h \in unseen /\ Len(inbox[h]) + 1 = cursor[h] THEN gap \cup {h} ELSE gap
    /\ UNCHANGED <<phoneVars, generation, jobs, bounds, unseen, dealt, since>>

\* The data directory is moved aside: rowids start again.
Wipe(h) ==
    /\ wipes < MaxWipes
    /\ inbox[h] # <<>>
    /\ wipes' = wipes + 1
    /\ inbox' = [inbox EXCEPT ![h] = <<>>]
    /\ dealt' = [dealt EXCEPT ![h] = {}]
    /\ unseen' = unseen \cup {h}
    /\ jobs' = [j \in Jobs |-> IF jobs[j].holder = h THEN [jobs[j] EXCEPT !.fresh = FALSE] ELSE jobs[j]]
    /\ UNCHANGED <<phoneVars, generation, restarts, logouts, since, gap>>

(***************************************************************************)
(* The phone's catch-up jobs.                                              *)
(***************************************************************************)
Live(j) == jobs[j].gen = generation
End(j) == jobs' = [jobs EXCEPT ![j] = Idle]
Moves(j, pc) == jobs' = [jobs EXCEPT ![j].pc = pc]

\* A job of the same holder that has not settled: no other one runs until it has.
Running(k, h) == jobs[k].holder = h /\ jobs[k].pc \notin {"idle", "waiting"}

MutTurnFree(h) == \A k \in Jobs : Running(k, h) => ~Live(k)
TurnFree(h) == \A k \in Jobs : ~Running(k, h)

\* A reconcile calls catchUpHolder for every holder it is connected to.
Schedule(j, h) ==
    /\ jobs[j].pc = "idle"
    /\ \A k \in Jobs : jobs[k].holder = h => ~(jobs[k].pc = "waiting" /\ Live(k))
    /\ jobs' = [jobs EXCEPT ![j] = [Idle EXCEPT !.pc = "waiting", !.holder = h, !.gen = generation]]
    /\ UNCHANGED <<inbox, phoneVars, generation, bounds, history>>

\* The job before it settled: read the cursor and ask, if the endpoint session is still this one.
Turn(j) ==
    /\ jobs[j].pc = "waiting"
    /\ TurnFree(jobs[j].holder)
    /\ IF Live(j)
       THEN jobs' = [jobs EXCEPT ![j].pc = "asking", ![j].after = cursor[jobs[j].holder], ![j].fresh = TRUE]
       ELSE End(j)
    /\ UNCHANGED <<inbox, phoneVars, generation, bounds, history>>

MutPacked(box, after, n) == SubSeq(box, Len(box) - n + 1, Len(box))
\* Of the rows above the cursor, the first ones are those that fit.
Packed(box, after, n) == SubSeq(box, after + 1, after + n)

\* inboxAfter: rows above the cursor, and the last rowid.
Serve(j) ==
    /\ jobs[j].pc = "asking"
    /\ LET box == inbox[jobs[j].holder]
           after == jobs[j].after
       IN \E n \in 0..PageLimit :
            /\ after + n <= Len(box) \/ n = 0
            /\ n = 0 => Len(box) <= after
            /\ jobs' = [jobs EXCEPT ![j].pc = "page", ![j].last = Len(box), ![j].fresh = TRUE,
                                    ![j].page = Packed(box, after, n)]
    /\ UNCHANGED <<inbox, phoneVars, generation, bounds, history>>

\* Dial, timeout, a failed read of the registry or of a database: the job ends, the cursor stays.
Fail(j) ==
    /\ jobs[j].pc \in {"asking", "lookup", "insert", "advance"}
    /\ End(j)
    /\ UNCHANGED <<inbox, phoneVars, generation, bounds, history>>

MutWiped(j) == FALSE
MutWipedEarly(j) == jobs[j].after >= jobs[j].last
\* The cursor is past the last rowid: the inbox was wiped.
Wiped(j) == jobs[j].after > jobs[j].last

ReadPage(j) ==
    /\ jobs[j].pc = "page"
    /\ \/ ~Live(j) /\ End(j) /\ UNCHANGED <<cursor, unseen>>
       \/ /\ Live(j) /\ Wiped(j)
          /\ cursor' = [cursor EXCEPT ![jobs[j].holder] = 0]
          /\ unseen' = unseen \ {jobs[j].holder}
          /\ jobs' = [jobs EXCEPT ![j].pc = "asking", ![j].after = 0, ![j].page = <<>>, ![j].last = 0]
       \/ /\ Live(j) /\ ~Wiped(j)
          /\ IF jobs[j].page = <<>> THEN End(j)
             ELSE jobs' = [jobs EXCEPT ![j].pc = "item", ![j].last = 0]
          /\ UNCHANGED <<cursor, unseen>>
    /\ UNCHANGED <<inbox, messages, contacts, generation, bounds, dealt, since, gap>>

\* applyItems: the next row of the page, or the next page.
Item(j) ==
    /\ jobs[j].pc = "item"
    /\ \/ ~Live(j) /\ End(j)
       \/ /\ Live(j) /\ jobs[j].page = <<>>
          /\ Moves(j, "asking")
       \/ /\ Live(j) /\ jobs[j].page # <<>>
          /\ Moves(j, IF Sender[Head(jobs[j].page)] \in contacts THEN "insert" ELSE "lookup")
    /\ UNCHANGED <<inbox, phoneVars, generation, bounds, history>>

\* ensureCatchupSender asked the registry: the sender becomes a contact.
SenderReady(j) ==
    /\ jobs[j].pc = "lookup"
    /\ contacts' = contacts \cup {Sender[Head(jobs[j].page)]}
    /\ Moves(j, "insert")
    /\ UNCHANGED <<inbox, messages, cursor, generation, bounds, history>>

\* The job began before a logout that did not wait for it.
Outlived(j) == jobs[j].gen < since

\* A row of the inbox as it is now, not of one that was wiped.
Deal(j) ==
    /\ dealt' = IF jobs[j].fresh THEN [dealt EXCEPT ![jobs[j].holder] = @ \cup {Head(jobs[j].page)}] ELSE dealt
    /\ gap' = IF Outlived(j) THEN gap \cup {jobs[j].holder} ELSE gap

\* The account has no device, or the handle is another's: the row is passed over.
SenderSkipped(j) ==
    /\ jobs[j].pc = "lookup"
    /\ Moves(j, "advance")
    /\ Deal(j)
    /\ UNCHANGED <<inbox, phoneVars, generation, bounds, unseen, since>>

\* insertMessage; a message needs its contact (the foreign key), and is stored once.
Insert(j) ==
    /\ jobs[j].pc = "insert"
    /\ IF Sender[Head(jobs[j].page)] \in contacts
       THEN /\ messages' = messages \cup {Head(jobs[j].page)}
            /\ Moves(j, "advance")
            /\ Deal(j)
       ELSE End(j) /\ UNCHANGED <<messages, dealt, gap>>
    /\ UNCHANGED <<inbox, contacts, cursor, generation, bounds, unseen, since>>

Later(a, b) == IF a < b THEN b ELSE a

\* The row a saved item stands for.
RowDone(j) == jobs[j].after + 1

\* setHolderInboxCursor never moves the cursor back.
Advance(j) ==
    /\ jobs[j].pc = "advance"
    /\ cursor' = [cursor EXCEPT ![jobs[j].holder] = Later(@, RowDone(j))]
    /\ jobs' = [jobs EXCEPT ![j].pc = "item", ![j].after = @ + 1, ![j].page = Tail(@)]
    /\ gap' = IF \/ Outlived(j)
                 \/ jobs[j].holder \in unseen /\ ~jobs[j].fresh /\ RowDone(j) <= Len(inbox[jobs[j].holder])
              THEN gap \cup {jobs[j].holder} ELSE gap
    /\ UNCHANGED <<inbox, messages, contacts, generation, bounds, unseen, dealt, since>>

(***************************************************************************)
(* The phone around them.                                                  *)
(***************************************************************************)
\* Stop and start: the jobs go on.
Restart ==
    /\ restarts < MaxRestarts
    /\ restarts' = restarts + 1
    /\ generation' = generation + 1
    /\ UNCHANGED <<inbox, phoneVars, jobs, logouts, wipes, history>>

\* The process dies: the jobs are gone.
Kill ==
    /\ restarts < MaxRestarts
    /\ restarts' = restarts + 1
    /\ generation' = generation + 1
    /\ jobs' = [j \in Jobs |-> Idle]
    /\ UNCHANGED <<inbox, phoneVars, logouts, wipes, history>>

\* resetIdentity: stop, which waits for the jobs but 5 s at most, then deleteAll; the account is
\* restored later.  A job that was past its generation check goes on.
Logout ==
    /\ logouts < MaxLogouts
    /\ logouts' = logouts + 1
    /\ generation' = generation + 1 /\ since' = generation + 1
    /\ messages' = {} /\ contacts' = {}
    /\ cursor' = [h \in Holders |-> 0]
    /\ dealt' = [h \in Holders |-> {}]
    /\ UNCHANGED <<inbox, jobs, restarts, wipes, unseen, gap>>

JobStep(j) ==
    \/ \E h \in Holders : Schedule(j, h)
    \/ Turn(j) \/ Serve(j) \/ ReadPage(j) \/ Item(j)
    \/ SenderReady(j) \/ SenderSkipped(j) \/ Insert(j) \/ Advance(j)

Next ==
    \/ \E h \in Holders : Wipe(h) \/ \E m \in Msgs : PutInbox(h, m)
    \/ \E j \in Jobs : JobStep(j) \/ Fail(j)
    \/ Restart \/ Kill \/ Logout

Spec == Init /\ [][Next]_vars

\* A connection to a holder, or a start, schedules a catch-up again and again, and not every one
\* fails; a job that can go on does.
Fairness ==
    /\ \A h \in Holders : SF_vars(\E j \in Jobs : Schedule(j, h))
    /\ WF_vars(\E j \in Jobs : Turn(j) \/ ReadPage(j) \/ Item(j))
    /\ SF_vars(\E j \in Jobs : Serve(j))
    /\ SF_vars(\E j \in Jobs : SenderReady(j) \/ SenderSkipped(j))
    /\ SF_vars(\E j \in Jobs : Insert(j))
    /\ SF_vars(\E j \in Jobs : Advance(j))

FairSpec == Spec /\ Fairness

(***************************************************************************)
(* Properties.                                                             *)
(***************************************************************************)
NoRowPassed(h) ==
    \A i \in 1..Len(inbox[h]) : i <= cursor[h] /\ cursor[h] <= Len(inbox[h]) => inbox[h][i] \in dealt[h]

\* Every row up to the cursor was saved or passed over on purpose, whatever failed, stopped or was
\* repeated in between; but for an inbox that was wiped and grew past the cursor before the phone
\* looked, and for a holder a job of before a logout wrote rows or the cursor of
\* (p2p-store-core.ts:829-841 and 887 "the cursor stays on the last saved row").
CursorCoversInbox == \A h \in Holders \ gap : NoRowPassed(h)

\* The same without the exceptions, which the code does not keep.
CursorCoversAll == \A h \in Holders : NoRowPassed(h)

\* The cursor moves back only to 0, and only when the holder has fewer rows than it said: a stalled
\* job of an earlier session rewinds nothing (p2p-store-core.ts:864-867, db.ts:546-559).
CursorNeverRewound ==
    [][\A h \in Holders : cursor'[h] < cursor[h] /\ logouts' = logouts => cursor'[h] = 0 /\ wipes > 0]_vars

\* Rows of a holder are saved in the order it received them (cli/README.md:5 "so replies saved while
\* it was away appear in conversation order").
SavedInOrder ==
    [][\A h \in Holders \ gap' : \A i, k \in 1..Len(inbox[h]) :
          i < k /\ inbox[h][k] \notin dealt[h] /\ inbox[h][k] \in dealt'[h] => inbox[h][i] \in dealt'[h]]_vars

\* Every row a holder keeps reaches the phone, also after it was restored onto the account or the
\* holder was wiped (p2p-store-core.ts:860-882).
InboxReachesPhone ==
    \A h \in Holders, m \in Msgs :
        m \in Range(inbox[h]) ~> (m \in dealt[h] \/ m \notin Range(inbox[h]) \/ h \in gap)
=============================================================================
