---------------------------- MODULE CatchUpProofs ----------------------------
(***************************************************************************)
(* For any number of holders, messages and jobs, any page limit, and       *)
(* whatever fails, restarts, is killed, wiped or logged out: no job moves a *)
(* cursor back, the cursor passes no row that was not dealt with and rows  *)
(* are saved in order, but for the two exceptions in `gap`.                *)
(*                                                                         *)
(* A job that may still write is the only one of its holder, and it is     *)
(* where the cursor is: what it reads as row `after + 1` is that row of    *)
(* the inbox, unless the inbox was wiped behind its back, which leaves a   *)
(* mark (`unseen`) until a job of the holder notices, or the cursor was    *)
(* deleted behind its back (`since`).                                      *)
(***************************************************************************)
EXTENDS CatchUp, TLAPS

Paging == {"page", "item", "lookup", "insert", "advance"}
Busy   == {"asking"} \cup Paging
Writing == {"lookup", "insert", "advance"}

\* The page is what the inbox has after the row the job is at.
Slice(x) ==
  \A i \in 1..Len(x.page) :
    /\ x.after + i <= Len(inbox[x.holder])
    /\ inbox[x.holder][x.after + i] = x.page[i]

\* What a job may rely on.
Right(x) ==
  /\ x.gen <= generation
  /\ x.pc # "idle" => x.holder \in Holders
  /\ x.pc \in {"lookup", "insert", "advance"} => x.page # <<>>
  /\ x.pc \in Busy /\ (x.gen = generation \/ (x.gen >= since /\ x.pc \in Writing)) => cursor[x.holder] = x.after
  /\ x.pc \in Paging /\ x.fresh => Slice(x)
  /\ x.pc \in Paging /\ ~x.fresh => x.holder \in unseen
  /\ x.pc = "page" /\ x.gen = generation /\ x.after > x.last => wipes > 0
  /\ x.gen >= since /\ x.pc = "advance" /\ x.fresh => x.page[1] \in dealt[x.holder]

\* One job of a holder has its turn.
OneRuns ==
  \A j, k \in Jobs : jobs[j].pc \in Busy /\ jobs[k].pc \in Busy /\ jobs[j].holder = jobs[k].holder => j = k

\* A cursor past the last row tells of a wipe.
WipesShow ==
  /\ wipes \in Nat
  /\ unseen # {} => wipes > 0
  /\ \A h \in Holders : cursor[h] > Len(inbox[h]) => h \in unseen

CatchUpInv ==
  /\ TypeOK /\ WipesShow /\ OneRuns
  /\ \A j \in Jobs : Right(jobs[j])
  /\ since <= generation
  /\ CursorCoversInbox

(***************************************************************************)
(* Types.                                                                  *)
(***************************************************************************)
USE DEF phoneVars, history, bounds, vars

\* The fields of a job have their types.
LEMMA JobFields ==
  ASSUME TypeOK, NEW j \in Jobs
  PROVE  /\ jobs[j] \in JobType /\ jobs[j].gen \in Nat /\ jobs[j].after \in Nat /\ jobs[j].last \in Nat
         /\ jobs[j].page \in Seq(Msgs) /\ jobs[j].holder \in Holders \cup {NoHolder}
         /\ jobs[j].fresh \in BOOLEAN
         /\ jobs[j].pc \in {"idle", "waiting", "asking", "page", "item", "lookup", "insert", "advance"}
BY DEF TypeOK, JobType

\* The job that does nothing.
LEMMA IdleJob == Idle \in JobType /\ Idle.pc = "idle" /\ Idle.gen = 0
BY DEF Idle, JobType

\* Jobs stay jobs when one of them is replaced by a job.
LEMMA OneJob ==
  ASSUME TypeOK, NEW j \in Jobs, NEW x \in JobType, jobs' = [jobs EXCEPT ![j] = x]
  PROVE  /\ jobs' \in [Jobs -> JobType] /\ jobs'[j] = x
         /\ \A k \in Jobs : k # j => jobs'[k] = jobs[k]
BY DEF TypeOK

\* A job that moves on keeps all but its place.
LEMMA Moved ==
  ASSUME TypeOK, NEW j \in Jobs, NEW pc \in {"idle", "waiting", "asking", "page", "item", "lookup", "insert", "advance"},
         Moves(j, pc)
  PROVE  /\ jobs' \in [Jobs -> JobType] /\ jobs'[j] = [jobs[j] EXCEPT !.pc = pc]
         /\ jobs'[j].pc = pc /\ jobs'[j].gen = jobs[j].gen /\ jobs'[j].after = jobs[j].after
         /\ jobs'[j].page = jobs[j].page /\ jobs'[j].holder = jobs[j].holder
         /\ jobs'[j].last = jobs[j].last /\ jobs'[j].fresh = jobs[j].fresh
         /\ \A k \in Jobs : k # j => jobs'[k] = jobs[k]
<1> DEFINE x == [jobs[j] EXCEPT !.pc = pc]
<1>1. /\ x \in JobType /\ x.pc = pc /\ x.gen = jobs[j].gen /\ x.after = jobs[j].after /\ x.page = jobs[j].page
      /\ x.holder = jobs[j].holder /\ x.last = jobs[j].last /\ x.fresh = jobs[j].fresh
  BY JobFields DEF JobType
<1>2. jobs' = [jobs EXCEPT ![j] = x]
  BY JobFields DEF Moves, TypeOK
<1> HIDE DEF x
<1>3. QED
  <2>1. /\ jobs' \in [Jobs -> JobType] /\ jobs'[j] = x /\ \A k \in Jobs : k # j => jobs'[k] = jobs[k]
    BY <1>1, <1>2, OneJob
  <2>2. QED BY <1>1, <2>1 DEF x

\* A job that ends is idle.
LEMMA Ended ==
  ASSUME TypeOK, NEW j \in Jobs, End(j)
  PROVE  /\ jobs' \in [Jobs -> JobType] /\ jobs'[j] = Idle /\ jobs'[j].pc = "idle" /\ jobs'[j].gen = 0
         /\ \A k \in Jobs : k # j => jobs'[k] = jobs[k]
BY IdleJob, OneJob DEF End

\* The row at the head of a page is a message.
LEMMA HeadOfPage ==
  ASSUME CatchUpInv, NEW j \in Jobs, jobs[j].pc \in Writing
  PROVE  /\ Head(jobs[j].page) \in Msgs /\ Head(jobs[j].page) = jobs[j].page[1]
         /\ Len(jobs[j].page) >= 1 /\ jobs[j].holder \in Holders
BY JobFields DEF CatchUpInv, Right, Writing

(***************************************************************************)
(* The invariant.  A step of job j that respects its turn disturbs nothing *)
(* of what the other jobs rely on.                                         *)
(***************************************************************************)
LEMMA OthersKeep ==
  ASSUME CatchUpInv, NEW j \in Jobs,
         \A k \in Jobs : k # j => jobs'[k] = jobs[k],
         UNCHANGED <<inbox, generation, wipes, since>>,
         \A h \in Holders : cursor'[h] # cursor[h] \/ (h \in unseen /\ h \notin unseen')
                              => jobs[j].pc \in Busy /\ jobs[j].holder = h,
         \A h \in Holders : dealt[h] \subseteq dealt'[h],
         Right(jobs[j])'
  PROVE  \A k \in Jobs : Right(jobs[k])'
<1> SUFFICES ASSUME NEW k \in Jobs, k # j PROVE Right(jobs[k])'
  OBVIOUS
<1> DEFINE x == jobs[k]
<1>1. jobs'[k] = x /\ x.holder \in Holders \cup {NoHolder}
  BY JobFields DEF CatchUpInv
<1>2. Right(x)
  BY DEF CatchUpInv
<1>3. ASSUME x.pc \in Busy
      PROVE  /\ x.holder \in Holders /\ cursor'[x.holder] = cursor[x.holder]
             /\ x.holder \in unseen => x.holder \in unseen'
  <2>1. x.holder \in Holders
    BY <1>2, <1>3 DEF Right, Busy, Paging
  <2>2. ~(jobs[j].pc \in Busy /\ jobs[j].holder = x.holder)
    BY <1>3 DEF CatchUpInv, OneRuns
  <2>3. QED BY <2>1, <2>2
<1>4. dealt[x.holder] \subseteq dealt'[x.holder] \/ x.holder \notin Holders
  OBVIOUS
<1> HIDE DEF x
<1>5. x.pc \in Paging => x.pc \in Busy
  BY DEF Busy
<1>6. (x.pc = "advance" \/ x.pc = "page" \/ x.pc \in Writing) => x.pc \in Busy
  BY DEF Busy, Paging, Writing
<1>7. x.pc = "advance" => x.holder \in Holders
  BY <1>2 DEF Right
<1>8. Right(x)'
  <2> USE <1>2
  <2>1. (x.gen <= generation)' BY <1>1 DEF Right, x
  <2> QED
    BY <1>1, <1>2, <1>3, <1>4, <1>5, <1>6, <1>7 DEF Right, Slice, x
<1>9. QED BY <1>1, <1>8 DEF x

\* A job takes its turn only when no other of its holder has it.
LEMMA TurnsKept ==
  ASSUME CatchUpInv, NEW j \in Jobs,
         \A k \in Jobs : k # j => jobs'[k] = jobs[k],
         jobs'[j].pc \in Busy => \/ jobs[j].pc \in Busy /\ jobs'[j].holder = jobs[j].holder
                                 \/ TurnFree(jobs'[j].holder)
  PROVE  OneRuns'
<1>1. \A k \in Jobs : jobs[k].pc \in Busy => jobs[k].pc \notin {"idle", "waiting"}
  BY DEF Busy, Paging
<1>2. \A k \in Jobs : k # j /\ jobs'[k].pc \in Busy /\ jobs'[j].pc \in Busy => jobs'[k].holder # jobs'[j].holder
  BY <1>1 DEF CatchUpInv, OneRuns, TurnFree, Running
<1>3. \A k, l \in Jobs : k # j /\ l # j /\ jobs'[k].pc \in Busy /\ jobs'[l].pc \in Busy
                          /\ jobs'[k].holder = jobs'[l].holder => k = l
  BY DEF CatchUpInv, OneRuns
<1>4. QED BY <1>2, <1>3 DEF OneRuns

\* The invariant of the next state, put together from what a step of a job shows.
LEMMA JobStepKeeps ==
  ASSUME CatchUpInv, NEW j \in Jobs, TypeOK',
         \A k \in Jobs : k # j => jobs'[k] = jobs[k],
         UNCHANGED <<inbox, generation, wipes, since>>,
         \A h \in Holders : cursor'[h] # cursor[h] \/ (h \in unseen /\ h \notin unseen')
                              => jobs[j].pc \in Busy /\ jobs[j].holder = h,
         \A h \in Holders : dealt[h] \subseteq dealt'[h],
         jobs'[j].pc \in Busy => \/ jobs[j].pc \in Busy /\ jobs'[j].holder = jobs[j].holder
                                 \/ TurnFree(jobs'[j].holder),
         Right(jobs[j])', WipesShow', CursorCoversInbox'
  PROVE  CatchUpInv'
<1>1. \A k \in Jobs : Right(jobs[k])'
  BY OthersKeep
<1>2. OneRuns'
  BY TurnsKept
<1>3. QED BY <1>1, <1>2 DEF CatchUpInv

\* Steps that touch neither the inbox, the cursor nor the histories.
LEMMA QuietStep ==
  ASSUME CatchUpInv, NEW j \in Jobs,
         jobs' \in [Jobs -> JobType],
         \A k \in Jobs : k # j => jobs'[k] = jobs[k],
         UNCHANGED <<inbox, generation, messages, cursor, unseen, dealt, since, gap, wipes>>,
         contacts \subseteq contacts', contacts' \subseteq Senders,
         jobs'[j].pc \in Busy => \/ jobs[j].pc \in Busy /\ jobs'[j].holder = jobs[j].holder
                                 \/ TurnFree(jobs'[j].holder),
         Right(jobs[j])'
  PROVE  CatchUpInv'
<1>1. TypeOK'
  BY DEF CatchUpInv, TypeOK
<1>2. WipesShow'
  BY DEF CatchUpInv, WipesShow
<1>3. CursorCoversInbox'
  BY DEF CatchUpInv, CursorCoversInbox, NoRowPassed
<1>4. \A h \in Holders : dealt[h] \subseteq dealt'[h]
  OBVIOUS
<1>5. QED BY <1>1, <1>2, <1>3, <1>4, JobStepKeeps

LEMMA NothingToKeep ==
  ASSUME NEW j \in Jobs, jobs'[j].pc \in {"idle", "waiting"}, jobs'[j].gen <= generation',
         jobs'[j].pc = "waiting" => jobs'[j].holder \in Holders
  PROVE  Right(jobs[j])' /\ jobs'[j].pc \notin Busy
BY DEF Right, Busy, Paging, Writing

LEMMA EndKeeps ==
  ASSUME CatchUpInv, NEW j \in Jobs, End(j),
         UNCHANGED <<inbox, generation, messages, contacts, cursor, unseen, dealt, since, gap, wipes>>
  PROVE  CatchUpInv'
<1>1. /\ jobs' \in [Jobs -> JobType] /\ \A k \in Jobs : k # j => jobs'[k] = jobs[k]
      /\ jobs'[j].pc = "idle" /\ jobs'[j].gen = 0
  BY Ended DEF CatchUpInv
<1>2. generation' \in Nat
  BY DEF CatchUpInv, TypeOK
<1>3. Right(jobs[j])' /\ jobs'[j].pc \notin Busy
  BY <1>1, <1>2, NothingToKeep
<1>4. contacts' \subseteq Senders
  BY DEF CatchUpInv, TypeOK
<1>5. QED BY <1>1, <1>3, <1>4, QuietStep

LEMMA ScheduleKeeps ==
  ASSUME CatchUpInv, NEW j \in Jobs, NEW h \in Holders, Schedule(j, h)
  PROVE  CatchUpInv'
<1> DEFINE x == [Idle EXCEPT !.pc = "waiting", !.holder = h, !.gen = generation]
<1>1. x \in JobType /\ x.pc = "waiting" /\ x.holder = h /\ x.gen = generation
  <2>1. generation \in Nat
    BY DEF CatchUpInv, TypeOK
  <2>2. QED BY <2>1, IdleJob DEF JobType
<1>2. jobs' = [jobs EXCEPT ![j] = x]
  BY DEF Schedule
<1>3. UNCHANGED <<inbox, messages, contacts, cursor, generation, unseen, dealt, since, gap, wipes>>
  BY DEF Schedule
<1> HIDE DEF x
<1>4. jobs' \in [Jobs -> JobType] /\ jobs'[j] = x /\ \A k \in Jobs : k # j => jobs'[k] = jobs[k]
  BY <1>1, <1>2, OneJob DEF CatchUpInv
<1>5. generation \in Nat /\ contacts' \subseteq Senders
  BY <1>3 DEF CatchUpInv, TypeOK
<1>6. Right(jobs[j])' /\ jobs'[j].pc \notin Busy
  BY <1>1, <1>3, <1>4, <1>5, NothingToKeep
<1>7. QED BY <1>3, <1>4, <1>5, <1>6, QuietStep

LEMMA TurnKeeps ==
  ASSUME CatchUpInv, NEW j \in Jobs, Turn(j)
  PROVE  CatchUpInv'
<1>1. CASE Live(j)
  <2> DEFINE x == [jobs[j] EXCEPT !.pc = "asking", !.after = cursor[jobs[j].holder], !.fresh = TRUE]
  <2>1. jobs[j] \in JobType /\ jobs[j].holder \in Holders /\ jobs[j].gen = generation
    BY <1>1, JobFields DEF CatchUpInv, Right, Turn, Live
  <2>2. cursor[jobs[j].holder] \in Nat /\ generation \in Nat /\ contacts \subseteq Senders
    BY <2>1 DEF CatchUpInv, TypeOK
  <2>3. /\ x \in JobType /\ x.pc = "asking" /\ x.after = cursor[jobs[j].holder] /\ x.holder = jobs[j].holder
        /\ x.gen = generation
    BY <2>1, <2>2 DEF JobType
  <2>4. jobs' = [jobs EXCEPT ![j] = x]
    BY <1>1 DEF Turn, CatchUpInv, TypeOK
  <2>5. UNCHANGED <<inbox, messages, contacts, cursor, generation, unseen, dealt, since, gap, wipes>>
    BY DEF Turn
  <2> HIDE DEF x
  <2>6. jobs' \in [Jobs -> JobType] /\ jobs'[j] = x /\ \A k \in Jobs : k # j => jobs'[k] = jobs[k]
    BY <2>3, <2>4, OneJob DEF CatchUpInv
  <2>7. TurnFree(jobs'[j].holder)
    BY <2>3, <2>6 DEF Turn
  <2>8. Right(jobs[j])'
    BY <2>1, <2>2, <2>3, <2>5, <2>6 DEF Right, Paging, Writing
  <2>9. QED BY <2>2, <2>5, <2>6, <2>7, <2>8, QuietStep
<1>2. CASE ~Live(j)
  BY <1>2, EndKeeps DEF Turn
<1>3. QED BY <1>1, <1>2

LEMMA FailKeeps ==
  ASSUME CatchUpInv, NEW j \in Jobs, Fail(j)
  PROVE  CatchUpInv'
BY EndKeeps DEF Fail

LEMMA ServeKeeps ==
  ASSUME CatchUpInv, NEW j \in Jobs, Serve(j)
  PROVE  CatchUpInv'
<1> DEFINE box == inbox[jobs[j].holder]
           a == jobs[j].after
<1>1. jobs[j] \in JobType /\ jobs[j].holder \in Holders /\ a \in Nat /\ jobs[j].pc = "asking"
  BY JobFields DEF CatchUpInv, Right, Serve
<1>2. box \in Seq(Msgs) /\ Len(box) \in Nat /\ contacts \subseteq Senders
  BY <1>1 DEF CatchUpInv, TypeOK
<1>3. PICK n \in 0..PageLimit :
         /\ a + n <= Len(box) \/ n = 0
         /\ n = 0 => Len(box) <= a
         /\ jobs' = [jobs EXCEPT ![j].pc = "page", ![j].last = Len(box), ![j].fresh = TRUE,
                                 ![j].page = Packed(box, a, n)]
  BY DEF Serve
<1> DEFINE p == Packed(box, a, n)
           x == [jobs[j] EXCEPT !.pc = "page", !.last = Len(box), !.fresh = TRUE, !.page = p]
<1> HIDE DEF box
<1>4. n \in Nat
  BY CatchUpAssumption
<1>5. p \in Seq(Msgs) /\ \A i \in 1..Len(p) : a + i <= Len(box) /\ box[a + i] = p[i]
  <2>1. CASE n = 0
    <3>1. p = <<>> BY <1>1, <2>1 DEF Packed
    <3>2. QED BY <3>1
  <2>2. CASE n # 0
    <3>1. a + n <= Len(box) /\ n >= 1 BY <1>3, <1>4, <2>2
    <3>2. p \in Seq(Msgs) BY <1>1, <1>2, <1>4, <3>1 DEF Packed
    <3>3. Len(p) = n BY <1>1, <1>2, <1>4, <3>1 DEF Packed
    <3>4. \A i \in 1..n : p[i] = box[a + i]
      BY <1>1, <1>2, <1>4, <3>1 DEF Packed
    <3>5. QED BY <1>1, <1>2, <1>4, <3>1, <3>2, <3>3, <3>4
  <2>3. QED BY <2>1, <2>2
<1> HIDE DEF p
<1>6. /\ x \in JobType /\ x.pc = "page" /\ x.page = p /\ x.holder = jobs[j].holder /\ x.after = a
      /\ x.last = Len(box) /\ x.fresh = TRUE /\ x.gen = jobs[j].gen
  BY <1>1, <1>2, <1>5 DEF JobType
<1>7. jobs' = [jobs EXCEPT ![j] = x]
  BY <1>3 DEF CatchUpInv, TypeOK, p
<1>8. UNCHANGED <<inbox, messages, contacts, cursor, generation, unseen, dealt, since, gap, wipes>>
  BY DEF Serve
<1> HIDE DEF x
<1>9. jobs' \in [Jobs -> JobType] /\ jobs'[j] = x /\ \A k \in Jobs : k # j => jobs'[k] = jobs[k]
  BY <1>6, <1>7, OneJob DEF CatchUpInv
<1>10. Right(jobs[j])
  BY DEF CatchUpInv
<1>11. jobs[j].gen <= generation /\ (jobs[j].gen = generation => cursor[jobs[j].holder] = a)
  BY <1>1, <1>10 DEF Right, Busy
<1>12. jobs[j].gen = generation /\ a > Len(box) => wipes > 0
  BY <1>1, <1>11 DEF CatchUpInv, WipesShow, box
<1>13. Right(jobs[j])'
  <2>1. jobs'[j] = x /\ x.pc = "page" /\ x.gen <= generation' /\ x.holder \in Holders
    BY <1>1, <1>6, <1>8, <1>9, <1>11
  <2>2. x.gen = generation' => cursor'[x.holder] = x.after
    BY <1>6, <1>8, <1>11
  <2>3. Slice(jobs[j])'
    BY <1>5, <1>6, <1>8, <2>1 DEF Slice, box
  <2>4. x.gen = generation' /\ x.after > x.last => wipes' > 0
    BY <1>6, <1>8, <1>12
  <2>5. QED BY <1>6, <2>1, <2>2, <2>3, <2>4 DEF Right, Writing
<1>14. jobs[j].pc \in Busy
  BY <1>1 DEF Busy
<1>15. jobs'[j].holder = jobs[j].holder
  BY <1>6, <1>9
<1>16. QED BY <1>2, <1>8, <1>9, <1>13, <1>14, <1>15, QuietStep

LEMMA ReadPageKeeps ==
  ASSUME CatchUpInv, NEW j \in Jobs, ReadPage(j)
  PROVE  CatchUpInv'
<1> DEFINE h == jobs[j].holder
<1>1. jobs[j] \in JobType /\ h \in Holders /\ jobs[j].pc = "page" /\ Right(jobs[j])
  BY JobFields DEF CatchUpInv, Right, ReadPage
<1>2. jobs[j].pc \in Busy /\ jobs[j].pc \in Paging
  BY <1>1 DEF Busy, Paging
<1>3. CASE ~Live(j)
  BY <1>3, EndKeeps DEF ReadPage
<1>4. CASE Live(j) /\ ~Wiped(j)
  <2>1. UNCHANGED <<inbox, messages, contacts, cursor, generation, unseen, dealt, since, gap, wipes>>
    BY <1>4 DEF ReadPage
  <2>2. CASE jobs[j].page = <<>>
    BY <1>4, <2>1, <2>2, EndKeeps DEF ReadPage
  <2>3. CASE jobs[j].page # <<>>
    <3> DEFINE x == [jobs[j] EXCEPT !.pc = "item", !.last = 0]
    <3>1. /\ x \in JobType /\ x.pc = "item" /\ x.holder = h /\ x.page = jobs[j].page /\ x.gen = jobs[j].gen
          /\ x.after = jobs[j].after /\ x.fresh = jobs[j].fresh
      BY <1>1 DEF JobType
    <3>2. jobs' = [jobs EXCEPT ![j] = x]
      BY <1>4, <2>3 DEF ReadPage, CatchUpInv, TypeOK
    <3> HIDE DEF x
    <3>3. jobs' \in [Jobs -> JobType] /\ jobs'[j] = x /\ \A k \in Jobs : k # j => jobs'[k] = jobs[k]
      BY <3>1, <3>2, OneJob DEF CatchUpInv
    <3>4. Right(jobs[j])'
      BY <1>1, <1>2, <2>1, <3>1, <3>3 DEF Right, Slice, Paging, Writing, Busy
    <3>5. jobs'[j].holder = jobs[j].holder /\ contacts \subseteq Senders
      BY <3>1, <3>3 DEF CatchUpInv, TypeOK
    <3>6. QED BY <1>2, <2>1, <3>3, <3>4, <3>5, QuietStep
  <2>4. QED BY <2>2, <2>3
<1>5. CASE Live(j) /\ Wiped(j)
  <2> DEFINE x == [jobs[j] EXCEPT !.pc = "asking", !.after = 0, !.page = <<>>, !.last = 0]
  <2>1. /\ x \in JobType /\ x.pc = "asking" /\ x.holder = h /\ x.gen = jobs[j].gen /\ x.after = 0
    <3>1. <<>> \in Seq(Msgs) /\ 0 \in Nat
      OBVIOUS
    <3>2. QED BY <1>1, <3>1 DEF JobType
  <2>2. jobs' = [jobs EXCEPT ![j] = x]
    BY <1>5 DEF ReadPage, CatchUpInv, TypeOK
  <2>3. /\ UNCHANGED <<inbox, messages, contacts, generation, dealt, since, gap, wipes>>
        /\ cursor' = [cursor EXCEPT ![h] = 0] /\ unseen' = unseen \ {h}
    BY <1>5 DEF ReadPage
  <2> HIDE DEF x
  <2>4. jobs' \in [Jobs -> JobType] /\ jobs'[j] = x /\ \A k \in Jobs : k # j => jobs'[k] = jobs[k]
    BY <2>1, <2>2, OneJob DEF CatchUpInv
  <2>5. cursor \in [Holders -> Nat] /\ \A g \in Holders : Len(inbox[g]) \in Nat
    BY DEF CatchUpInv, TypeOK
  <2>6. cursor' \in [Holders -> Nat] /\ cursor'[h] = 0 /\ \A g \in Holders : g # h => cursor'[g] = cursor[g]
    BY <1>1, <2>3, <2>5
  <2>7. TypeOK'
    BY <2>3, <2>4, <2>6 DEF CatchUpInv, TypeOK
  <2>8. WipesShow'
    BY <1>1, <2>3, <2>5, <2>6 DEF CatchUpInv, WipesShow
  <2>9. CursorCoversInbox'
    <3> SUFFICES ASSUME NEW g \in Holders \ gap, NEW i \in 1..Len(inbox[g]),
                        i <= cursor'[g], cursor'[g] <= Len(inbox[g])
                 PROVE  inbox[g][i] \in dealt[g]
      BY <2>3 DEF CursorCoversInbox, NoRowPassed
    <3>1. g # h BY <2>5, <2>6
    <3>2. QED BY <2>6, <3>1 DEF CatchUpInv, CursorCoversInbox, NoRowPassed
  <2>10. Right(jobs[j])'
    BY <1>1, <2>1, <2>3, <2>4, <2>6 DEF Right, Paging, Writing
  <2>11. \A g \in Holders : cursor'[g] # cursor[g] \/ (g \in unseen /\ g \notin unseen') => g = h
    BY <2>3, <2>6
  <2>12. jobs'[j].holder = jobs[j].holder
    BY <2>1, <2>4
  <2>13. \A g \in Holders : dealt[g] \subseteq dealt'[g]
    BY <2>3
  <2>14. QED BY <1>2, <2>3, <2>4, <2>7, <2>8, <2>9, <2>10, <2>11, <2>12, <2>13, JobStepKeeps
<1>6. QED BY <1>3, <1>4, <1>5

\* A job that only moves on, within its turn.
LEMMA MoveKeeps ==
  ASSUME CatchUpInv, NEW j \in Jobs, NEW pc \in {"asking", "item", "lookup", "insert"}, Moves(j, pc),
         UNCHANGED <<inbox, messages, cursor, generation, unseen, dealt, since, gap, wipes>>,
         contacts \subseteq contacts', contacts' \subseteq Senders,
         jobs[j].pc \in Paging,
         pc \in {"lookup", "insert"} => jobs[j].page # <<>>,
         jobs[j].gen = generation \/ jobs[j].pc \in Writing
  PROVE  CatchUpInv'
<1>1. /\ jobs' \in [Jobs -> JobType] /\ jobs'[j].pc = pc
      /\ jobs'[j].gen = jobs[j].gen /\ jobs'[j].after = jobs[j].after /\ jobs'[j].fresh = jobs[j].fresh
      /\ jobs'[j].page = jobs[j].page /\ jobs'[j].holder = jobs[j].holder
      /\ \A k \in Jobs : k # j => jobs'[k] = jobs[k]
  BY Moved DEF CatchUpInv
<1>2. jobs[j].pc \in Busy /\ Right(jobs[j])
  BY DEF Busy, CatchUpInv
<1>3. Right(jobs[j])'
  BY <1>1, <1>2 DEF Right, Slice, Paging, Writing, Busy
<1>4. QED BY <1>1, <1>2, <1>3, QuietStep

LEMMA ItemKeeps ==
  ASSUME CatchUpInv, NEW j \in Jobs, Item(j)
  PROVE  CatchUpInv'
<1>1. jobs[j].pc \in Paging /\ contacts \subseteq Senders
  BY DEF Item, Paging, CatchUpInv, TypeOK
<1>2. UNCHANGED <<inbox, messages, contacts, cursor, generation, unseen, dealt, since, gap, wipes>>
  BY DEF Item
<1>3. CASE ~Live(j)
  BY <1>2, <1>3, EndKeeps DEF Item
<1>4. CASE Live(j) /\ jobs[j].page = <<>>
  <2>1. Moves(j, "asking") BY <1>4 DEF Item
  <2>2. QED BY <1>1, <1>2, <1>4, <2>1, MoveKeeps DEF Live
<1>5. CASE Live(j) /\ jobs[j].page # <<>>
  <2>1. Moves(j, "insert") \/ Moves(j, "lookup") BY <1>5 DEF Item
  <2>2. CASE Moves(j, "insert") BY <1>1, <1>2, <1>5, <2>2, MoveKeeps DEF Live
  <2>3. CASE Moves(j, "lookup") BY <1>1, <1>2, <1>5, <2>3, MoveKeeps DEF Live
  <2>4. QED BY <2>1, <2>2, <2>3
<1>6. QED BY <1>3, <1>4, <1>5

LEMMA SenderReadyKeeps ==
  ASSUME CatchUpInv, NEW j \in Jobs, SenderReady(j)
  PROVE  CatchUpInv'
<1>1. jobs[j].pc \in Paging /\ jobs[j].pc \in Writing
  BY DEF SenderReady, Paging, Writing
<1>2. Head(jobs[j].page) \in Msgs /\ jobs[j].page # <<>>
  BY <1>1, HeadOfPage DEF SenderReady, CatchUpInv, Right
<1>3. contacts \subseteq contacts' /\ contacts' \subseteq Senders
  BY <1>2, CatchUpAssumption DEF SenderReady, CatchUpInv, TypeOK
<1>4. Moves(j, "insert") /\ UNCHANGED <<inbox, messages, cursor, generation, unseen, dealt, since, gap, wipes>>
  BY DEF SenderReady
<1>5. QED BY <1>1, <1>2, <1>3, <1>4, MoveKeeps

\* A row that is dealt with: the job goes on to move the cursor.
LEMMA DealKeeps ==
  ASSUME CatchUpInv, NEW j \in Jobs, jobs[j].pc \in {"lookup", "insert"}, Moves(j, "advance"), Deal(j),
         UNCHANGED <<inbox, contacts, cursor, generation, unseen, since, wipes>>,
         messages' \subseteq Msgs, \A m \in messages' : Sender[m] \in contacts
  PROVE  CatchUpInv'
<1> DEFINE h == jobs[j].holder
           m == Head(jobs[j].page)
<1>1. jobs[j].pc \in Paging /\ jobs[j].pc \in Writing /\ jobs[j].pc \in Busy
  BY DEF Busy, Paging, Writing
<1>2. m \in Msgs /\ m = jobs[j].page[1] /\ h \in Holders /\ jobs[j].page # <<>>
  BY <1>1, HeadOfPage DEF CatchUpInv, Right
<1>3. /\ jobs' \in [Jobs -> JobType] /\ jobs'[j].pc = "advance"
      /\ jobs'[j].gen = jobs[j].gen /\ jobs'[j].after = jobs[j].after /\ jobs'[j].fresh = jobs[j].fresh
      /\ jobs'[j].page = jobs[j].page /\ jobs'[j].holder = jobs[j].holder
      /\ \A k \in Jobs : k # j => jobs'[k] = jobs[k]
  BY Moved DEF CatchUpInv
<1>4. /\ dealt' \in [Holders -> SUBSET Msgs]
      /\ \A g \in Holders : dealt[g] \subseteq dealt'[g]
      /\ jobs[j].fresh => m \in dealt'[h]
      /\ gap \subseteq gap' /\ gap' \subseteq Holders
  <2>1. dealt \in [Holders -> SUBSET Msgs] /\ jobs[j].fresh \in BOOLEAN
    BY JobFields DEF CatchUpInv, TypeOK
  <2>5. gap \subseteq gap' /\ gap' \subseteq Holders
    BY <1>2 DEF Deal, CatchUpInv, TypeOK
  <2>2. CASE jobs[j].fresh
    <3>1. dealt' = [dealt EXCEPT ![h] = dealt[h] \cup {m}]
      BY <2>2 DEF Deal
    <3> HIDE DEF m, h
    <3>2. QED BY <1>2, <2>1, <2>5, <3>1
  <2>3. CASE ~jobs[j].fresh
    BY <2>1, <2>3, <2>5 DEF Deal
  <2>4. QED BY <2>2, <2>3
<1>5. TypeOK'
  BY <1>3, <1>4 DEF CatchUpInv, TypeOK
<1>6. WipesShow'
  BY DEF CatchUpInv, WipesShow
<1>7. CursorCoversInbox'
  BY <1>4 DEF CatchUpInv, CursorCoversInbox, NoRowPassed
<1>8. Right(jobs[j])
  BY DEF CatchUpInv
<1> HIDE DEF h, m
<1>9. Right(jobs[j])'
  BY <1>1, <1>2, <1>3, <1>4, <1>8 DEF Right, Slice, Paging, Writing, Busy, h, m
<1>10. QED BY <1>1, <1>3, <1>4, <1>5, <1>6, <1>7, <1>9, JobStepKeeps

LEMMA SenderSkippedKeeps ==
  ASSUME CatchUpInv, NEW j \in Jobs, SenderSkipped(j)
  PROVE  CatchUpInv'
<1>1. messages' \subseteq Msgs /\ \A m \in messages' : Sender[m] \in contacts
  BY DEF SenderSkipped, CatchUpInv, TypeOK
<1>2. QED BY <1>1, DealKeeps DEF SenderSkipped

LEMMA InsertKeeps ==
  ASSUME CatchUpInv, NEW j \in Jobs, Insert(j)
  PROVE  CatchUpInv'
<1>1. CASE Sender[Head(jobs[j].page)] \in contacts
  <2>1. Head(jobs[j].page) \in Msgs
    BY HeadOfPage DEF Insert, Writing
  <2>2. messages' \subseteq Msgs /\ \A m \in messages' : Sender[m] \in contacts
    BY <1>1, <2>1 DEF Insert, CatchUpInv, TypeOK
  <2>3. QED BY <1>1, <2>2, DealKeeps DEF Insert
<1>2. CASE Sender[Head(jobs[j].page)] \notin contacts
  BY <1>2, EndKeeps DEF Insert
<1>3. QED BY <1>1, <1>2

LEMMA AdvanceKeeps ==
  ASSUME CatchUpInv, NEW j \in Jobs, Advance(j)
  PROVE  CatchUpInv'
<1> DEFINE h == jobs[j].holder
           a == jobs[j].after
           p == jobs[j].page
           t == Tail(p)
           x == [jobs[j] EXCEPT !.pc = "item", !.after = a + 1, !.page = t]
<1>1. /\ jobs[j] \in JobType /\ jobs[j].pc = "advance" /\ Right(jobs[j])
      /\ h \in Holders /\ a \in Nat /\ p \in Seq(Msgs) /\ Len(p) >= 1
  BY JobFields, HeadOfPage DEF CatchUpInv, Advance, Writing
<1>2. jobs[j].pc \in Paging /\ jobs[j].pc \in Writing /\ jobs[j].pc \in Busy
  BY <1>1 DEF Busy, Paging, Writing
<1>3. /\ t \in Seq(Msgs) /\ Len(t) = Len(p) - 1
      /\ \A i \in 1..Len(t) : t[i] = p[i + 1]
  BY <1>1
<1>4. jobs' = [jobs EXCEPT ![j] = x]
  BY DEF Advance, CatchUpInv, TypeOK
<1>5. /\ UNCHANGED <<inbox, messages, contacts, generation, unseen, dealt, since, wipes>>
      /\ cursor' = [cursor EXCEPT ![h] = Later(cursor[h], a + 1)]
      /\ gap' = IF Outlived(j) \/ (h \in unseen /\ ~jobs[j].fresh /\ a + 1 <= Len(inbox[h]))
                THEN gap \cup {h} ELSE gap
  BY DEF Advance, RowDone
<1> HIDE DEF h, a, p, t
<1>6. /\ x \in JobType /\ x.pc = "item" /\ x.holder = h /\ x.gen = jobs[j].gen /\ x.after = a + 1
      /\ x.page = t /\ x.fresh = jobs[j].fresh
  <2>1. a + 1 \in Nat BY <1>1
  <2>2. QED BY <1>1, <1>3, <2>1 DEF JobType, h
<1> HIDE DEF x
<1>7. jobs' \in [Jobs -> JobType] /\ jobs'[j] = x /\ \A k \in Jobs : k # j => jobs'[k] = jobs[k]
  BY <1>4, <1>6, OneJob DEF CatchUpInv
<1>8. cursor \in [Holders -> Nat] /\ \A g \in Holders : Len(inbox[g]) \in Nat
  BY DEF CatchUpInv, TypeOK
<1>9. /\ cursor' \in [Holders -> Nat] /\ \A g \in Holders : g # h => cursor'[g] = cursor[g]
      /\ cursor'[h] = IF cursor[h] < a + 1 THEN a + 1 ELSE cursor[h]
  BY <1>1, <1>5, <1>8 DEF Later
<1>10. gap' \subseteq Holders /\ gap \subseteq gap'
  BY <1>1, <1>5 DEF CatchUpInv, TypeOK
<1>11. TypeOK'
  BY <1>5, <1>7, <1>9, <1>10 DEF CatchUpInv, TypeOK
<1>12. jobs[j].fresh => /\ \A i \in 1..Len(p) : a + i <= Len(inbox[h]) /\ inbox[h][a + i] = p[i]
                        /\ jobs[j].gen >= since => p[1] \in dealt[h]
  BY <1>1, <1>2 DEF Right, Slice, h, a, p
<1>13. ~jobs[j].fresh => h \in unseen
  BY <1>1, <1>2 DEF Right, h
<1>14. jobs[j].gen = generation \/ jobs[j].gen >= since => cursor[h] = a
  BY <1>1, <1>2 DEF Right, h, a
<1>15. jobs[j].fresh => a + 1 <= Len(inbox[h])
  BY <1>1, <1>12
<1>16. WipesShow'
  <2>1. ASSUME NEW g \in Holders, cursor'[g] > Len(inbox[g]) PROVE g \in unseen
    <3>1. CASE g # h BY <1>9, <2>1, <3>1 DEF CatchUpInv, WipesShow
    <3>2. CASE g = h
      BY <1>1, <1>8, <1>9, <1>13, <1>15, <2>1, <3>2 DEF CatchUpInv, WipesShow
    <3>3. QED BY <3>1, <3>2
  <2>2. QED BY <1>5, <2>1 DEF CatchUpInv, WipesShow
<1>17. CursorCoversInbox'
  <2> SUFFICES ASSUME NEW g \in Holders \ gap', NEW i \in 1..Len(inbox[g]),
                      i <= cursor'[g], cursor'[g] <= Len(inbox[g])
               PROVE  inbox[g][i] \in dealt[g]
    BY <1>5 DEF CursorCoversInbox, NoRowPassed
  <2>1. g \in Holders \ gap BY <1>10
  <2>2. CASE g # h BY <1>9, <2>1, <2>2 DEF CatchUpInv, CursorCoversInbox, NoRowPassed
  <2>3. CASE g = h
    <3>7. jobs[j].gen >= since
      <4>1. jobs[j].gen \in Nat /\ since \in Nat /\ h \in gap \cup {h}
        BY JobFields DEF CatchUpInv, TypeOK
      <4>2. ~Outlived(j) BY <1>5, <2>3, <4>1
      <4>3. QED BY <4>1, <4>2 DEF Outlived
    <3>1. cursor[h] = a /\ cursor'[h] = a + 1
      BY <1>1, <1>9, <1>14, <3>7
    <3>2. jobs[j].fresh
      BY <1>5, <1>13, <2>3, <3>1
    <3>3. CASE i = a + 1
      BY <1>1, <1>12, <2>3, <3>2, <3>3, <3>7
    <3>4. CASE i <= a
      <4>1. NoRowPassed(g)
        BY <2>1 DEF CatchUpInv, CursorCoversInbox
      <4>2. i <= cursor[g] /\ cursor[g] <= Len(inbox[g])
        BY <1>1, <1>8, <2>3, <3>1, <3>4
      <4>3. QED BY <4>1, <4>2 DEF NoRowPassed
    <3>5. i \in Nat BY <1>8, <2>1
    <3>6. QED BY <1>1, <2>3, <3>1, <3>3, <3>4, <3>5
  <2>4. QED BY <2>2, <2>3
<1>18. Right(jobs[j])'
  <2>1. (jobs[j].gen <= generation)'
    BY <1>1, <1>5, <1>6, <1>7 DEF Right
  <2>2. x.gen = generation => cursor'[h] = x.after
    BY <1>1, <1>6, <1>9, <1>14
  <2>3. x.fresh => \A i \in 1..Len(x.page) : x.after + i <= Len(inbox[h]) /\ inbox[h][x.after + i] = x.page[i]
    <3> SUFFICES ASSUME x.fresh, NEW i \in 1..Len(t)
                 PROVE  (a + 1) + i <= Len(inbox[h]) /\ inbox[h][(a + 1) + i] = t[i]
      BY <1>6
    <3>1. i + 1 \in 1..Len(p) /\ (a + 1) + i = a + (i + 1)
      BY <1>1, <1>3
    <3>2. a + (i + 1) <= Len(inbox[h]) /\ inbox[h][a + (i + 1)] = p[i + 1]
      BY <1>6, <1>12, <3>1
    <3>3. QED BY <1>3, <3>1, <3>2
  <2>4. QED
    BY <1>1, <1>5, <1>6, <1>7, <1>13, <2>1, <2>2, <2>3 DEF Right, Slice, Writing
<1>19. \A g \in Holders : dealt[g] \subseteq dealt'[g]
  BY <1>5
<1>20. jobs'[j].holder = jobs[j].holder
  BY <1>6, <1>7 DEF h
<1>21. \A g \in Holders : cursor'[g] # cursor[g] \/ (g \in unseen /\ g \notin unseen') => g = jobs[j].holder
  BY <1>5, <1>9 DEF h
<1>22. QED
  BY <1>2, <1>5, <1>7, <1>11, <1>16, <1>17, <1>18, <1>19, <1>20, <1>21, JobStepKeeps

LEMMA JobStepsKeep ==
  ASSUME CatchUpInv, NEW j \in Jobs, JobStep(j) \/ Fail(j)
  PROVE  CatchUpInv'
BY ScheduleKeeps, TurnKeeps, ServeKeeps, FailKeeps, ReadPageKeeps, ItemKeeps, SenderReadyKeeps,
   SenderSkippedKeeps, InsertKeeps, AdvanceKeeps DEF JobStep

(***************************************************************************)
(* The steps around the jobs.                                              *)
(***************************************************************************)
\* An inbox that grows keeps its rows, and a row is added once.
LEMMA Grown ==
  ASSUME NEW s \in Seq(Msgs), IsInjective(s), NEW m \in Msgs, m \notin Range(s)
  PROVE  /\ Append(s, m) \in Seq(Msgs) /\ Len(Append(s, m)) = Len(s) + 1
         /\ \A i \in 1..Len(s) : Append(s, m)[i] = s[i]
         /\ IsInjective(Append(s, m))
<1> DEFINE t == Append(s, m)
<1>1. t \in Seq(Msgs) /\ Len(t) = Len(s) + 1 /\ Len(s) \in Nat
  OBVIOUS
<1>2. (\A i \in 1..Len(s) : t[i] = s[i]) /\ t[Len(s) + 1] = m
  OBVIOUS
<1>3. DOMAIN t = 1..(Len(s) + 1) /\ DOMAIN s = 1..Len(s)
  OBVIOUS
<1>4. \A i \in 1..Len(s) : s[i] # m
  BY <1>3 DEF Range
<1>5. \A i, k \in 1..Len(s) : s[i] = s[k] => i = k
  BY <1>3 DEF IsInjective
<1> HIDE DEF t
<1>6. \A i \in 1..(Len(s) + 1) : i \in 1..Len(s) \/ i = Len(s) + 1
  BY <1>1
<1>7. \A i, k \in 1..(Len(s) + 1) : t[i] = t[k] => i = k
  BY <1>2, <1>4, <1>5, <1>6
<1>8. IsInjective(t)
  BY <1>3, <1>7 DEF IsInjective
<1>9. QED BY <1>1, <1>2, <1>8 DEF t

LEMMA PutInboxKeeps ==
  ASSUME CatchUpInv, NEW h \in Holders, NEW m \in Msgs, PutInbox(h, m)
  PROVE  CatchUpInv'
<1> DEFINE s == inbox[h]
<1>1. s \in Seq(Msgs) /\ IsInjective(s) /\ m \notin Range(s) /\ Len(s) \in Nat
  BY DEF CatchUpInv, TypeOK, PutInbox
<1>2. /\ inbox' = [inbox EXCEPT ![h] = Append(s, m)]
      /\ gap' = IF h \in unseen /\ Len(s) + 1 = cursor[h] THEN gap \cup {h} ELSE gap
      /\ UNCHANGED <<messages, contacts, cursor, generation, jobs, restarts, logouts, wipes, unseen, dealt, since>>
  BY DEF PutInbox
<1>3. inbox \in [Holders -> Seq(Msgs)] /\ cursor \in [Holders -> Nat] /\ \A g \in Holders : Len(inbox[g]) \in Nat
  BY DEF CatchUpInv, TypeOK
<1>4. /\ inbox'[h] = Append(s, m) /\ \A g \in Holders : g # h => inbox'[g] = inbox[g]
      /\ gap \subseteq gap' /\ gap' \subseteq Holders
  BY <1>2, <1>3 DEF CatchUpInv, TypeOK
<1>5. /\ Append(s, m) \in Seq(Msgs) /\ Len(Append(s, m)) = Len(s) + 1
      /\ \A i \in 1..Len(s) : Append(s, m)[i] = s[i]
      /\ IsInjective(Append(s, m))
  BY <1>1, Grown
<1>6. \A g \in Holders : /\ Len(inbox[g]) <= Len(inbox'[g])
                         /\ \A i \in 1..Len(inbox[g]) : inbox'[g][i] = inbox[g][i]
  <2>1. ASSUME NEW g \in Holders, g # h PROVE inbox'[g] = inbox[g] /\ Len(inbox[g]) \in Nat
    BY <1>3, <1>4, <2>1
  <2>2. Len(inbox[h]) <= Len(inbox'[h]) /\ \A i \in 1..Len(inbox[h]) : inbox'[h][i] = inbox[h][i]
    BY <1>1, <1>4, <1>5
  <2>3. QED BY <2>1, <2>2
<1>7. TypeOK'
  <2>1. inbox' \in [Holders -> Seq(Msgs)]
    BY <1>2, <1>3, <1>5
  <2>2. \A g \in Holders : IsInjective(inbox'[g])
    BY <1>4, <1>5 DEF CatchUpInv, TypeOK
  <2>3. QED BY <1>2, <1>4, <2>1, <2>2 DEF CatchUpInv, TypeOK
<1>8. WipesShow'
  <2>1. ASSUME NEW g \in Holders, cursor[g] > Len(inbox'[g]) PROVE g \in unseen
    <3>1. Len(inbox'[g]) \in Nat BY <1>7 DEF TypeOK
    <3>2. cursor[g] > Len(inbox[g]) BY <1>3, <1>6, <2>1, <3>1
    <3>3. QED BY <3>2 DEF CatchUpInv, WipesShow
  <2>2. QED BY <1>2, <2>1 DEF CatchUpInv, WipesShow
<1>9. OneRuns'
  BY <1>2 DEF CatchUpInv, OneRuns
<1>10. ASSUME NEW j \in Jobs PROVE Right(jobs[j])'
  <2>1. Right(jobs[j]) /\ jobs[j].page \in Seq(Msgs) /\ jobs[j].after \in Nat
    BY JobFields DEF CatchUpInv
  <2>2. ASSUME jobs[j].holder \in Holders, Slice(jobs[j]) PROVE Slice(jobs[j])'
    <3> DEFINE g == jobs[j].holder
    <3> SUFFICES ASSUME NEW i \in 1..Len(jobs[j].page)
                 PROVE  /\ jobs[j].after + i <= Len(inbox'[g])
                        /\ inbox'[g][jobs[j].after + i] = jobs[j].page[i]
      BY <1>2 DEF Slice
    <3>1. jobs[j].after + i <= Len(inbox[g]) /\ inbox[g][jobs[j].after + i] = jobs[j].page[i]
      BY <2>2 DEF Slice
    <3>2. jobs[j].after + i \in 1..Len(inbox[g]) BY <1>3, <2>1, <2>2, <3>1
    <3>3. Len(inbox'[g]) \in Nat BY <1>7, <2>2 DEF TypeOK
    <3>4. jobs[j].after + i <= Len(inbox'[g])
      BY <1>3, <1>6, <2>1, <2>2, <3>1, <3>3
    <3>5. inbox'[g][jobs[j].after + i] = inbox[g][jobs[j].after + i]
      BY <1>6, <2>2, <3>2
    <3>6. QED BY <3>1, <3>4, <3>5
  <2>3. jobs[j].pc \in Paging => jobs[j].holder \in Holders
    BY <2>1 DEF Right, Paging
  <2>4. QED BY <1>2, <2>1, <2>2, <2>3 DEF Right
<1>11. CursorCoversInbox'
  <2> SUFFICES ASSUME NEW g \in Holders \ gap', NEW i \in 1..Len(inbox'[g]),
                      i <= cursor[g], cursor[g] <= Len(inbox'[g])
               PROVE  inbox'[g][i] \in dealt[g]
    BY <1>2 DEF CursorCoversInbox, NoRowPassed
  <2>1. g \in Holders \ gap BY <1>4
  <2>2. CASE cursor[g] <= Len(inbox[g])
    <3>1. Len(inbox'[g]) \in Nat BY <1>7 DEF TypeOK
    <3>2. i \in 1..Len(inbox[g]) BY <1>3, <2>2, <3>1
    <3>3. QED BY <1>6, <2>1, <2>2, <3>2 DEF CatchUpInv, CursorCoversInbox, NoRowPassed
  <2>3. CASE cursor[g] > Len(inbox[g])
    <3>1. g \in unseen BY <2>1, <2>3 DEF CatchUpInv, WipesShow
    <3>2. g = h
      <4>1. g # h => inbox'[g] = inbox[g] BY <1>4
      <4>2. cursor[g] \in Nat /\ Len(inbox[g]) \in Nat BY <1>3
      <4>3. QED BY <2>3, <4>1, <4>2
    <3>3. cursor[h] = Len(s) + 1
      BY <1>1, <1>3, <1>4, <1>5, <2>3, <3>2
    <3>4. QED BY <1>2, <3>1, <3>2, <3>3
  <2>4. QED BY <1>3, <2>2, <2>3
<1>12. QED BY <1>2, <1>7, <1>8, <1>9, <1>10, <1>11 DEF CatchUpInv

LEMMA WipeKeeps ==
  ASSUME CatchUpInv, NEW h \in Holders, Wipe(h)
  PROVE  CatchUpInv'
<1>1. /\ inbox' = [inbox EXCEPT ![h] = <<>>] /\ dealt' = [dealt EXCEPT ![h] = {}]
      /\ wipes' = wipes + 1 /\ unseen' = unseen \cup {h}
      /\ jobs' = [j \in Jobs |-> IF jobs[j].holder = h THEN [jobs[j] EXCEPT !.fresh = FALSE] ELSE jobs[j]]
      /\ UNCHANGED <<messages, contacts, cursor, generation, since, gap>>
  BY DEF Wipe
<1>2. /\ inbox \in [Holders -> Seq(Msgs)] /\ cursor \in [Holders -> Nat] /\ dealt \in [Holders -> SUBSET Msgs]
      /\ \A g \in Holders : Len(inbox[g]) \in Nat
  BY DEF CatchUpInv, TypeOK
<1>3. /\ inbox'[h] = <<>> /\ \A g \in Holders : g # h => inbox'[g] = inbox[g] /\ dealt'[g] = dealt[g]
      /\ inbox' \in [Holders -> Seq(Msgs)] /\ dealt' \in [Holders -> SUBSET Msgs]
  BY <1>1, <1>2
<1>4. ASSUME NEW j \in Jobs
      PROVE  /\ jobs'[j] \in JobType /\ jobs'[j].pc = jobs[j].pc /\ jobs'[j].gen = jobs[j].gen
             /\ jobs'[j].after = jobs[j].after /\ jobs'[j].page = jobs[j].page /\ jobs'[j].last = jobs[j].last
             /\ jobs'[j].holder = jobs[j].holder
             /\ jobs'[j].fresh <=> jobs[j].fresh /\ jobs[j].holder # h
  <2>1. jobs[j] \in JobType BY JobFields DEF CatchUpInv
  <2>2. QED BY <1>1, <2>1 DEF JobType
<1>5. jobs' \in [Jobs -> JobType]
  BY <1>1, <1>4
<1>6. TypeOK'
  <2>1. \A g \in Holders : IsInjective(inbox'[g])
    <3>1. IsInjective(<<>>) BY DEF IsInjective
    <3>2. QED BY <1>3, <3>1 DEF CatchUpInv, TypeOK
  <2>2. QED BY <1>1, <1>3, <1>5, <2>1 DEF CatchUpInv, TypeOK
<1>7. WipesShow'
  BY <1>1, <1>3 DEF CatchUpInv, WipesShow
<1>8. OneRuns'
  BY <1>4 DEF CatchUpInv, OneRuns
<1>9. ASSUME NEW j \in Jobs PROVE Right(jobs[j])'
  <2>1. Right(jobs[j]) /\ jobs[j].fresh \in BOOLEAN
    BY JobFields DEF CatchUpInv
  <2>2. jobs[j].pc \in Paging => jobs[j].holder \in Holders
    BY <2>1 DEF Right, Paging
  <2>3. jobs[j].pc = "advance" => jobs[j].pc \in Paging
    BY DEF Paging
  <2>4. wipes \in Nat /\ wipes' > 0
    BY <1>1 DEF CatchUpInv, WipesShow
  <2>5. jobs[j].holder # h /\ jobs[j].pc \in Paging /\ Slice(jobs[j]) => Slice(jobs[j])'
    <3>1. jobs[j].holder # h /\ jobs[j].pc \in Paging => inbox'[jobs[j].holder] = inbox[jobs[j].holder]
      BY <1>3, <2>2
    <3>2. jobs'[j].page = jobs[j].page /\ jobs'[j].after = jobs[j].after /\ jobs'[j].holder = jobs[j].holder
      BY <1>4
    <3>3. QED BY <3>1, <3>2 DEF Slice
  <2>6. QED BY <1>1, <1>3, <1>4, <2>1, <2>2, <2>3, <2>4, <2>5 DEF Right
<1>10. CursorCoversInbox'
  <2> SUFFICES ASSUME NEW g \in Holders \ gap, NEW i \in 1..Len(inbox'[g]),
                      i <= cursor[g], cursor[g] <= Len(inbox'[g])
               PROVE  inbox'[g][i] \in dealt'[g]
    BY <1>1 DEF CursorCoversInbox, NoRowPassed
  <2>1. g # h BY <1>3
  <2>2. QED BY <1>3, <2>1 DEF CatchUpInv, CursorCoversInbox, NoRowPassed
<1>11. QED BY <1>1, <1>6, <1>7, <1>8, <1>9, <1>10 DEF CatchUpInv

\* A new generation: no job is of it, and those that write are where they were.
LEMMA Stale ==
  ASSUME CatchUpInv, NEW j \in Jobs, jobs[j].gen <= generation
  PROVE  jobs[j].gen # generation + 1 /\ jobs[j].gen <= generation + 1
BY JobFields DEF CatchUpInv, TypeOK

LEMMA RestartKeeps ==
  ASSUME CatchUpInv, Restart
  PROVE  CatchUpInv'
<1>1. /\ UNCHANGED <<inbox, messages, contacts, cursor, jobs, wipes, unseen, dealt, since, gap>>
      /\ generation' = generation + 1
  BY DEF Restart
<1>2. TypeOK' BY <1>1 DEF CatchUpInv, TypeOK
<1>3. WipesShow' /\ OneRuns' BY <1>1 DEF CatchUpInv, WipesShow, OneRuns
<1>4. CursorCoversInbox' BY <1>1 DEF CatchUpInv, CursorCoversInbox, NoRowPassed
<1>5. ASSUME NEW j \in Jobs PROVE Right(jobs[j])'
  <2>1. Right(jobs[j]) BY DEF CatchUpInv
  <2>2. jobs[j].gen # generation' /\ jobs[j].gen <= generation'
    BY <1>1, <2>1, Stale DEF Right
  <2>3. QED BY <1>1, <2>1, <2>2 DEF Right, Slice
<1>6. since' <= generation' BY <1>1 DEF CatchUpInv, TypeOK
<1>7. QED BY <1>2, <1>3, <1>4, <1>5, <1>6 DEF CatchUpInv

LEMMA KillKeeps ==
  ASSUME CatchUpInv, Kill
  PROVE  CatchUpInv'
<1>1. /\ UNCHANGED <<inbox, messages, contacts, cursor, wipes, unseen, dealt, since, gap>>
      /\ generation' = generation + 1 /\ jobs' = [j \in Jobs |-> Idle]
  BY DEF Kill
<1>2. TypeOK' BY <1>1, IdleJob DEF CatchUpInv, TypeOK
<1>3. WipesShow' /\ (CursorCoversInbox') BY <1>1 DEF CatchUpInv, WipesShow, CursorCoversInbox, NoRowPassed
<1>4. ASSUME NEW j \in Jobs PROVE Right(jobs[j])' /\ jobs'[j].pc \notin Busy
  BY <1>1, <1>2, IdleJob, NothingToKeep DEF TypeOK
<1>5. since' <= generation' BY <1>1 DEF CatchUpInv, TypeOK
<1>6. QED BY <1>2, <1>3, <1>4, <1>5 DEF CatchUpInv, OneRuns

LEMMA LogoutKeeps ==
  ASSUME CatchUpInv, Logout
  PROVE  CatchUpInv'
<1>1. /\ UNCHANGED <<inbox, jobs, wipes, unseen, gap>>
      /\ generation' = generation + 1 /\ messages' = {} /\ contacts' = {}
      /\ cursor' = [h \in Holders |-> 0] /\ dealt' = [h \in Holders |-> {}]
      /\ since' = generation + 1
  BY DEF Logout
<1>2. TypeOK' BY <1>1 DEF CatchUpInv, TypeOK
<1>3. WipesShow' BY <1>1, <1>2 DEF CatchUpInv, WipesShow, TypeOK
<1>4. OneRuns' BY <1>1 DEF CatchUpInv, OneRuns
<1>5. CursorCoversInbox' BY <1>1, <1>2 DEF CursorCoversInbox, NoRowPassed, TypeOK
<1>6. ASSUME NEW j \in Jobs PROVE Right(jobs[j])'
  <2>1. Right(jobs[j]) BY DEF CatchUpInv
  <2>2. jobs[j].gen # generation' /\ jobs[j].gen <= generation'
    BY <1>1, <2>1, Stale DEF Right
  <2>3. ~(jobs[j].gen >= since')
    BY <1>1, <2>2, JobFields DEF CatchUpInv, TypeOK
  <2>4. QED BY <1>1, <2>1, <2>2, <2>3 DEF Right, Slice
<1>7. since' <= generation' BY <1>1 DEF CatchUpInv, TypeOK
<1>8. QED BY <1>2, <1>3, <1>4, <1>5, <1>6, <1>7 DEF CatchUpInv

LEMMA CatchUpInit == Init => CatchUpInv
<1> SUFFICES ASSUME Init PROVE CatchUpInv
  OBVIOUS
<1>1. \A j \in Jobs : jobs[j] = Idle
  BY DEF Init
<1>2. TypeOK
  <2>1. IsInjective(<<>>) BY DEF IsInjective
  <2>2. QED BY <2>1, IdleJob DEF Init, TypeOK
<1>3. \A j \in Jobs : Right(jobs[j]) /\ jobs[j].pc \notin Busy
  BY <1>1, IdleJob DEF Init, Right, Busy, Paging, Writing
<1>4. WipesShow /\ since <= generation /\ CursorCoversInbox
  BY DEF Init, WipesShow, CursorCoversInbox, NoRowPassed
<1>5. QED BY <1>2, <1>3, <1>4 DEF CatchUpInv, OneRuns

LEMMA CatchUpStep == CatchUpInv /\ [Next]_vars => CatchUpInv'
<1> SUFFICES ASSUME CatchUpInv, [Next]_vars PROVE CatchUpInv'
  OBVIOUS
<1>1. CASE \E h \in Holders : Wipe(h) \/ \E m \in Msgs : PutInbox(h, m)
  BY <1>1, WipeKeeps, PutInboxKeeps
<1>2. CASE \E j \in Jobs : JobStep(j) \/ Fail(j)
  BY <1>2, JobStepsKeep
<1>3. CASE Restart \/ Kill \/ Logout
  BY <1>3, RestartKeeps, KillKeeps, LogoutKeeps
<1>4. CASE UNCHANGED vars
  BY <1>4 DEF CatchUpInv, TypeOK, WipesShow, OneRuns, Right, Slice, CursorCoversInbox, NoRowPassed
<1>5. QED BY <1>1, <1>2, <1>3, <1>4 DEF Next

\* The invariant holds throughout.
THEOREM CatchUpInvariant == Spec => []CatchUpInv
<1>1. QED BY CatchUpInit, CatchUpStep, PTL DEF Spec

\* Every variable has its type: in particular no row is twice in an inbox and every message the
\* phone keeps has its contact.
THEOREM CatchUpTypes == Spec => []TypeOK
<1>1. CatchUpInv => TypeOK BY DEF CatchUpInv
<1>2. QED BY <1>1, CatchUpInvariant, PTL

(***************************************************************************)
(* What the invariant gives.                                               *)
(***************************************************************************)
\* The cursor passes no row that was not saved or skipped on purpose, whatever fails, restarts, is
\* killed, wiped, logged out or repeated, outside the two exceptions of `gap`.
THEOREM CursorIsCovered == Spec => []CursorCoversInbox
<1>1. CatchUpInv => CursorCoversInbox BY DEF CatchUpInv, CursorCoversInbox
<1>2. QED BY <1>1, CatchUpInvariant, PTL

LogoutsOK == logouts \in Nat

LEMMA LogoutsCount == Spec => []LogoutsOK
<1>1. Init => LogoutsOK
  BY DEF Init, LogoutsOK
<1>2. ASSUME LogoutsOK, [Next]_vars PROVE LogoutsOK'
  <2>1. logouts' = logouts \/ Logout
    BY <1>2 DEF Next, JobStep, Wipe, PutInbox, Schedule, Turn, Serve, Fail, ReadPage, Item, SenderReady,
                SenderSkipped, Insert, Advance, Restart, Kill
  <2>2. Logout => logouts' = logouts + 1
    BY DEF Logout
  <2>3. QED BY <1>2, <2>1, <2>2 DEF LogoutsOK
<1>3. QED BY <1>1, <1>2, PTL DEF Spec

\* A step that leaves the cursors or moves them as the code does.
LEMMA CursorStep ==
  ASSUME CatchUpInv, LogoutsOK, [Next]_vars
  PROVE  \A h \in Holders : cursor'[h] < cursor[h] /\ logouts' = logouts => cursor'[h] = 0 /\ wipes > 0
<1>1. cursor \in [Holders -> Nat]
  BY DEF CatchUpInv, TypeOK
<1>2. ASSUME NEW j \in Jobs, ReadPage(j), NEW h \in Holders, cursor'[h] < cursor[h]
      PROVE  cursor'[h] = 0 /\ wipes > 0
  <2>1. Right(jobs[j]) /\ jobs[j].pc = "page"
    BY <1>2 DEF CatchUpInv, ReadPage
  <2>2. cursor' # cursor
    BY <1>1, <1>2
  <2>3. Live(j) /\ Wiped(j) /\ cursor' = [cursor EXCEPT ![jobs[j].holder] = 0]
    BY <1>2, <2>2 DEF ReadPage
  <2>4. h = jobs[j].holder
    BY <1>1, <1>2, <2>3
  <2>5. wipes > 0
    BY <2>1, <2>3 DEF Right, Live, Wiped
  <2>6. QED BY <1>1, <2>3, <2>4, <2>5
<1>3. ASSUME NEW j \in Jobs, Advance(j), NEW h \in Holders
      PROVE  ~(cursor'[h] < cursor[h])
  <2>1. jobs[j].after \in Nat
    BY JobFields DEF CatchUpInv
  <2>2. cursor' = [cursor EXCEPT ![jobs[j].holder] = Later(@, RowDone(j))]
    BY <1>3 DEF Advance
  <2>3. QED BY <1>1, <2>1, <2>2 DEF Later, RowDone
<1>4. Logout => logouts' # logouts
  BY DEF Logout, LogoutsOK
<1>5. \/ cursor' = cursor
      \/ \E j \in Jobs : ReadPage(j) \/ Advance(j)
      \/ Logout
  BY DEF Next, JobStep, Wipe, PutInbox, Schedule, Turn, Serve, Fail, Item, SenderReady,
         SenderSkipped, Insert, Restart, Kill
<1>6. QED BY <1>1, <1>2, <1>3, <1>4, <1>5

\* The cursor moves back only to 0 and only after a wipe, whether or not a logout waits: a stalled
\* job of an earlier session rewinds nothing (p2p-store-core.ts:864-867, db.ts:546-559).
THEOREM CursorOnlyForward == Spec => CursorNeverRewound
<1>1. CatchUpInv /\ LogoutsOK /\ [Next]_vars
        => [\A h \in Holders : cursor'[h] < cursor[h] /\ logouts' = logouts => cursor'[h] = 0 /\ wipes > 0]_vars
  BY CursorStep
<1>2. QED BY <1>1, CatchUpInvariant, LogoutsCount, PTL DEF Spec, CursorNeverRewound

\* A row that is dealt with is the next one after the cursor.
LEMMA DealIsNext ==
  ASSUME CatchUpInv, NEW j \in Jobs, jobs[j].pc \in Writing, Deal(j),
         NEW h \in Holders \ gap', NEW i \in 1..Len(inbox[h]), NEW k \in 1..Len(inbox[h]),
         i < k, inbox[h][k] \notin dealt[h], inbox[h][k] \in dealt'[h]
  PROVE  inbox[h][i] \in dealt'[h]
<1> DEFINE m == Head(jobs[j].page)
           g == jobs[j].holder
           a == jobs[j].after
<1>1. m \in Msgs /\ m = jobs[j].page[1] /\ Len(jobs[j].page) >= 1 /\ g \in Holders
  BY HeadOfPage
<1>2. dealt \in [Holders -> SUBSET Msgs] /\ a \in Nat /\ jobs[j].page \in Seq(Msgs) /\ jobs[j].fresh \in BOOLEAN
  BY JobFields DEF CatchUpInv, TypeOK
<1>3. jobs[j].fresh /\ dealt' = [dealt EXCEPT ![g] = dealt[g] \cup {m}] /\ gap \subseteq gap'
  BY DEF Deal
<1> HIDE DEF m
<1>4. h = g /\ inbox[h][k] = m /\ dealt[h] \subseteq dealt'[h]
  BY <1>1, <1>2, <1>3
<1>5. Right(jobs[j]) /\ jobs[j].pc \in Paging /\ jobs[j].pc \in Busy
  BY DEF CatchUpInv, Busy, Paging, Writing
<1>15. jobs[j].gen >= since /\ h \in Holders \ gap
  <2>1. jobs[j].gen \in Nat /\ since \in Nat
    BY JobFields DEF CatchUpInv, TypeOK
  <2>2. Outlived(j) => gap' = gap \cup {g}
    BY DEF Deal
  <2>3. QED BY <1>3, <1>4, <2>1, <2>2 DEF Outlived
<1>6. cursor[h] = a /\ Slice(jobs[j])
  BY <1>3, <1>4, <1>5, <1>15 DEF Right
<1>7. 1 \in 1..Len(jobs[j].page)
  BY <1>1, <1>2
<1>8. a + 1 <= Len(inbox[h]) /\ inbox[h][a + 1] = m
  BY <1>1, <1>4, <1>6, <1>7 DEF Slice
<1>9. inbox[h] \in Seq(Msgs) /\ IsInjective(inbox[h]) /\ Len(inbox[h]) \in Nat /\ DOMAIN inbox[h] = 1..Len(inbox[h])
  BY DEF CatchUpInv, TypeOK
<1>10. a + 1 \in 1..Len(inbox[h])
  BY <1>2, <1>8, <1>9
<1>11. k = a + 1
  BY <1>4, <1>8, <1>9, <1>10 DEF IsInjective
<1>12. i <= cursor[h] /\ cursor[h] <= Len(inbox[h])
  BY <1>2, <1>6, <1>8, <1>9, <1>11
<1>13. inbox[h][i] \in dealt[h]
  BY <1>12, <1>15 DEF CatchUpInv, CursorCoversInbox, NoRowPassed
<1>14. QED BY <1>4, <1>13

\* The rows of a holder are saved in the order it received them (cli/README.md:5), outside the same
\* exceptions.
THEOREM RowsSavedInOrder == Spec => SavedInOrder
<1> DEFINE Order == \A h \in Holders \ gap' : \A i, k \in 1..Len(inbox[h]) :
                      i < k /\ inbox[h][k] \notin dealt[h] /\ inbox[h][k] \in dealt'[h]
                        => inbox[h][i] \in dealt'[h]
<1>1. ASSUME CatchUpInv, [Next]_vars PROVE Order
  <2>1. CASE \A h \in Holders : dealt'[h] \subseteq dealt[h]
    BY <2>1
  <2>2. CASE \E j \in Jobs : jobs[j].pc \in Writing /\ Deal(j)
    BY <1>1, <2>2, DealIsNext
  <2>3. dealt \in [Holders -> SUBSET Msgs]
    BY <1>1 DEF CatchUpInv, TypeOK
  <2>4. ASSUME NEW h \in Holders, Wipe(h) PROVE \A g \in Holders : dealt'[g] \subseteq dealt[g]
    BY <2>3, <2>4 DEF Wipe
  <2>5. Logout => \A g \in Holders : dealt'[g] \subseteq dealt[g]
    BY DEF Logout
  <2>6. \/ dealt' = dealt
        \/ \E h \in Holders : Wipe(h)
        \/ Logout
        \/ \E j \in Jobs : jobs[j].pc \in Writing /\ Deal(j)
    BY <1>1 DEF Next, JobStep, PutInbox, Schedule, Turn, Serve, Fail, ReadPage, Item, SenderReady,
                SenderSkipped, Insert, Advance, Restart, Kill, Writing
  <2>7. QED BY <2>1, <2>2, <2>4, <2>5, <2>6
<1>2. QED BY <1>1, CatchUpInvariant, PTL DEF Spec, SavedInOrder
=============================================================================
