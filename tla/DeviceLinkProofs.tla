-------------------------- MODULE DeviceLinkProofs --------------------------
(***************************************************************************)
(* Linking and removing a CLI, for any number of keys, flows, commands and *)
(* actions of the account: one approval at most is out that can still be   *)
(* executed, an addition is saved by the CLI before the API has it, the    *)
(* CLI keeps the secret of every key that is or may become active, and the *)
(* phone calls no key removed that the registry did not remove.            *)
(*                                                                         *)
(* What can still be executed is what the phone has stored: the phone puts *)
(* another approval in its place only when the one before can never be     *)
(* executed again, and nothing makes it executable later.  What the phone  *)
(* and the CLI know of the account is behind it, never ahead.              *)
(***************************************************************************)
EXTENDS DeviceLink, TLAPS

\* What becomes of an account: no key is forgotten, none comes back, and it costs a nonce.
Grows(old, new) ==
  /\ old.time <= new.time /\ old.nonce <= new.nonce
  /\ old.removed \subseteq new.removed
  /\ old.active \cup old.removed \subseteq new.active \cup new.removed
  /\ old.nonce = new.nonce => old.active = new.active /\ old.removed = new.removed

\* What a node shows was so.
Behind(view) == Grows(view, account)

\* A stored action: what the phone was told of it is so.
Told(x) ==
  /\ x.apiStatus \in Terminal => IsAt(x.rec, x.apiStatus)
  /\ x.historicallyAdded => x.rec # NoApproval /\ x.rec.key \in phoneView.active \cup phoneView.removed
  /\ x.acknowledged => x.rec # NoApproval /\ (x.rec.op = "add" => x.rec \in saved)
SlotTold ==
  /\ Told(slot)
  /\ call.answer \in Terminal => IsAt(slot.rec, call.answer)

\* A flow and the stream it has sent its approval over.
Carries == {"persist", "send", "sent", "mark"}
FlowFits(f) ==
  /\ flows[f].pc \in {"resume", "sign"} \cup Carries => flows[f].key \in Keys
  /\ flows[f].pc \in Carries =>
       /\ flows[f].rec \in Approvals
       /\ flows[f].rec.op = flows[f].op /\ flows[f].rec.key = flows[f].key
  /\ flows[f].pc \in {"send", "sent", "mark"} => flows[f].op = "add"
  /\ flows[f].pc = "mark" => flows[f].rec \in saved
  /\ flows[f].pc = "sent" /\ handlers[f].pc \in {"load", "check", "save"} => handlers[f].rec = flows[f].rec
  /\ flows[f].pc = "sent" /\ handlers[f].pc = "reply" => flows[f].rec \in saved
  /\ flows[f].pc = "submit" /\ call.by = f => slot.acknowledged

HandlerFits(h) ==
  /\ handlers[h].seen.pending \in saved \cup {NoApproval}
  /\ handlers[h].pc \in {"load", "check", "save"} => handlers[h].rec \in Approvals

\* Every approval there ever was, but for those forgotten.
Recs == (saved \cup posted \cup {slot.rec} \cup {flows[f].rec : f \in Flows}
           \cup {handlers[h].rec : h \in Handlers}) \ {NoApproval}
RecsFit == \A d \in Recs : d.nonce <= account.nonce

\* A key that left the CLI.
Seen(k) ==
  \/ \E d \in Recs : d.key = k
  \/ \E f \in Flows : flows[f].key = k
  \/ k \in account.active \cup account.removed
KeysTold ==
  /\ \A k \in Keys : Seen(k) => k \in minted /\ (k = secret \/ k \in account.removed)
  /\ secret # identity => ~Seen(secret)

\* Where the command is, and which key it is about.
CliFits ==
  /\ cli.pc \notin {"off", "mint"} => identity # NoKey
  /\ cli.pc \notin {"off", "mint", "unlink"} => cli.key = identity
  /\ cli.pc = "mint" => secret # NoKey
  /\ cli.pc \in {"rotate", "rewrite", "unlink"} => cli.key \in account.removed
  /\ Up => cli.pc \notin {"off", "mint"} /\ (cli.endpoint = secret \/ cli.pc \in {"rewrite", "unlink"})

\* Only what the phone has stored can still be executed.
OutIsStored ==
  /\ \A d \in Out : Alive(d) => d = slot.rec
  /\ \A f \in Flows : At(f, "send") /\ Alive(flows[f].rec) => flows[f].rec = slot.rec

LinkInv ==
  /\ TypeOK /\ Behind(phoneView) /\ Behind(cliView)
  /\ SlotTold /\ SubmittedIsSaved
  /\ \A f \in Flows : FlowFits(f) /\ HandlerFits(f)
  /\ RecsFit /\ KeysTold /\ CliFits /\ OutIsStored

USE DEF serviceVars, phoneVars, files, cliVars

(***************************************************************************)
(* The registry and the API.                                               *)
(***************************************************************************)
LEMMA AccountFields ==
  ASSUME NEW a \in Accounts
  PROVE  /\ a.time \in Nat /\ a.time <= MaxTime /\ a.nonce \in Nat /\ a.nonce <= MaxNonce
         /\ a.active \subseteq Keys /\ a.removed \subseteq Keys
BY ServiceAssumption DEF Accounts

LEMMA GrowsRefl == ASSUME NEW a \in Accounts PROVE Grows(a, a)
BY AccountFields DEF Grows

LEMMA GrowsTrans ==
  ASSUME NEW a \in Accounts, NEW b \in Accounts, NEW c \in Accounts, Grows(a, b), Grows(b, c)
  PROVE  Grows(a, c)
<1>1. /\ a.time \in Nat /\ b.time \in Nat /\ c.time \in Nat
      /\ a.nonce \in Nat /\ b.nonce \in Nat /\ c.nonce \in Nat
  BY AccountFields
<1>2. a.time <= c.time /\ a.nonce <= c.nonce
  BY <1>1 DEF Grows
<1>3. a.nonce = c.nonce => a.nonce = b.nonce /\ b.nonce = c.nonce
  BY <1>1 DEF Grows
<1>4. QED BY <1>2, <1>3 DEF Grows

LEMMA ServiceTypes ==
  ASSUME ServiceTypeOK
  PROVE  account \in Accounts /\ phoneView \in Accounts /\ cliView \in Accounts
BY DEF ServiceTypeOK

\* The account after an action: the nonce is spent.
LEMMA SpentAccount ==
  ASSUME account \in Accounts, account.nonce < MaxNonce,
         NEW on \in SUBSET Keys, NEW off \in SUBSET Keys,
         account.removed \subseteq off, account.active \cup account.removed \subseteq on \cup off
  PROVE  LET next == [account EXCEPT !.nonce = @ + 1, !.active = on, !.removed = off]
         IN  next \in Accounts /\ Grows(account, next) /\ next.active = on /\ next.removed = off
<1> DEFINE next == [account EXCEPT !.nonce = @ + 1, !.active = on, !.removed = off]
<1>1. /\ account.time \in Nat /\ account.nonce \in Nat
      /\ account.nonce + 1 \in 0..MaxNonce /\ account.time \in 0..MaxTime
  BY ServiceAssumption, AccountFields DEF Accounts
<1>2. ASSUME NEW n \in 0..MaxNonce
      PROVE  LET x == [account EXCEPT !.nonce = n, !.active = on, !.removed = off]
             IN  x \in Accounts /\ x.time = account.time /\ x.nonce = n /\ x.active = on /\ x.removed = off
  BY DEF Accounts
<1>3. next \in Accounts
  BY <1>1, <1>2
<1>4. next.time = account.time /\ next.nonce = account.nonce + 1 /\ next.active = on /\ next.removed = off
  BY <1>1, <1>2
<1> HIDE DEF next
<1>5. Grows(account, next)
  BY <1>1, <1>4 DEF Grows
<1>6. QED BY <1>3, <1>4, <1>5 DEF next

\* A head that moves on leaves the nodes where they may be.
LEMMA HeadMoves ==
  ASSUME ServiceTypeOK, Behind(phoneView), Behind(cliView), NEW next \in Accounts, Grows(account, next),
         Becomes(next)
  PROVE  /\ account' = next /\ phoneView' \in Accounts /\ cliView' \in Accounts
         /\ Grows(phoneView, phoneView') /\ Grows(phoneView', next) /\ Grows(cliView', next)
<1>1. account \in Accounts /\ phoneView \in Accounts /\ cliView \in Accounts
  BY ServiceTypes
<1>2. account' = next /\ phoneView' \in {account, next} /\ cliView' \in {account, next}
  BY DEF Becomes
<1>3. Grows(next, next) /\ Grows(phoneView, account) /\ Grows(phoneView, next)
  BY <1>1, GrowsRefl, GrowsTrans DEF Behind
<1>4. QED BY <1>1, <1>2, <1>3

\* An action keeps the sets of keys apart and adds only the key it is about.
LEMMA SpendMoves ==
  ASSUME ServiceTypeOK, Behind(phoneView), Behind(cliView),
         NEW on \in SUBSET Keys, NEW off \in SUBSET Keys, on \cap off = {},
         account.removed \subseteq off, account.active \cup account.removed \subseteq on \cup off,
         Spend(on, off)
  PROVE  /\ account' \in Accounts /\ account'.active = on /\ account'.removed = off
         /\ phoneView' \in Accounts /\ cliView' \in Accounts /\ Grows(account, account')
         /\ Grows(phoneView, phoneView') /\ Grows(phoneView', account') /\ Grows(cliView', account')
<1> DEFINE next == [account EXCEPT !.nonce = @ + 1, !.active = on, !.removed = off]
<1>1. account \in Accounts /\ account.nonce < MaxNonce /\ Becomes(next)
  BY ServiceTypes DEF Spend
<1>2. next \in Accounts /\ Grows(account, next) /\ next.active = on /\ next.removed = off
  BY <1>1, SpentAccount
<1> HIDE DEF next
<1>3. QED BY <1>1, <1>2, HeadMoves

\* The accounts that follow from a step of the registry and the nodes.
AccountsMove ==
  /\ account' \in Accounts /\ phoneView' \in Accounts /\ cliView' \in Accounts
  /\ account'.active \cap account'.removed = {}
  /\ Grows(account, account') /\ Grows(phoneView, phoneView')
  /\ Grows(phoneView', account') /\ Grows(cliView', account')
  /\ \A k \in account'.active \cup account'.removed :
       k \in account.active \cup account.removed \/ \E d \in posted : d.key = k

\* A final status stays, and only a new action becomes active.
RowsMove ==
  /\ DOMAIN rows \subseteq DOMAIN rows' /\ DOMAIN rows' \subseteq posted
  /\ \A d \in DOMAIN rows' : rows'[d] \in RowStates
  /\ \A d \in DOMAIN rows : /\ rows[d] \in Terminal => rows'[d] = rows[d]
                            /\ rows'[d] = "active" => rows[d] = "active"

LEMMA NoRowMoves ==
  ASSUME ServiceTypeOK, UNCHANGED rows PROVE RowsMove
BY DEF ServiceTypeOK, RowsMove

LEMMA OneRowMoves ==
  ASSUME ServiceTypeOK, NEW d \in posted, NEW state \in RowStates, SetRow(d, state),
         d \in DOMAIN rows => rows[d] \notin Terminal /\ state # "active"
  PROVE  RowsMove
BY DEF ServiceTypeOK, RowsMove, SetRow

LEMMA ServiceMoves ==
  ASSUME ServiceTypeOK, Behind(phoneView), Behind(cliView), ServiceStep
  PROVE  AccountsMove /\ RowsMove /\ posted' = posted
<1>1. account \in Accounts /\ phoneView \in Accounts /\ cliView \in Accounts
  BY ServiceTypes
<1>2. /\ account.active \subseteq Keys /\ account.removed \subseteq Keys
      /\ account.active \cap account.removed = {}
      /\ DOMAIN rows \subseteq posted /\ posted \subseteq Approvals
  BY <1>1, AccountFields DEF ServiceTypeOK
<1>3. CASE OthersAct
  <2>1. PICK k \in account.active : Spend(account.active \ {k}, account.removed \cup {k})
    BY <1>3 DEF OthersAct
  <2> DEFINE on == account.active \ {k}
             off == account.removed \cup {k}
  <2>2. on \in SUBSET Keys /\ off \in SUBSET Keys /\ on \cap off = {} /\ account.removed \subseteq off
        /\ account.active \cup account.removed = on \cup off
    BY <1>2
  <2>3. Spend(on, off) BY <2>1
  <2> HIDE DEF on, off
  <2>4. AccountsMove
    BY <2>2, <2>3, SpendMoves DEF AccountsMove
  <2>5. QED BY <1>3, <2>4, NoRowMoves DEF OthersAct
<1>4. CASE Tick
  <2> DEFINE next == [account EXCEPT !.time = @ + 1]
  <2>1. account.time < MaxTime /\ Becomes(next) /\ UNCHANGED <<rows, posted>>
    BY <1>4 DEF Tick
  <2>2. next = [time |-> account.time + 1, nonce |-> account.nonce, active |-> account.active,
                removed |-> account.removed]
    BY <1>1 DEF Accounts
  <2>3. account.time + 1 \in 0..MaxTime /\ account.time <= account.time + 1 /\ account.nonce <= account.nonce
    BY <1>1, <2>1, AccountFields, ServiceAssumption
  <2>4. next \in Accounts
    BY <1>1, <2>2, <2>3 DEF Accounts
  <2>5. Grows(account, next) /\ next.active = account.active /\ next.removed = account.removed
    BY <2>2, <2>3 DEF Grows
  <2> HIDE DEF next
  <2>6. AccountsMove
    BY <1>2, <2>1, <2>4, <2>5, HeadMoves DEF AccountsMove
  <2>7. QED BY <2>1, <2>6, NoRowMoves
<1>5. CASE NodesCatchUp
  BY <1>1, <1>2, <1>5, NoRowMoves, GrowsRefl DEF NodesCatchUp, AccountsMove, Behind
<1>6. ASSUME NEW d \in posted, Arrive(d) PROVE AccountsMove /\ RowsMove /\ posted' = posted
  <2>1. RowsMove
    BY <1>6, OneRowMoves DEF Arrive, Accepts, RowStates
  <2>2. QED BY <1>1, <1>2, <1>6, <2>1, GrowsRefl DEF Arrive, AccountsMove, Behind
<1>7. ASSUME NEW d \in DOMAIN rows, Resolve(d) PROVE AccountsMove /\ RowsMove /\ posted' = posted
  <2>1. RowsMove
    BY <1>2, <1>7, OneRowMoves DEF Resolve, IsAt, Terminal, RowStates
  <2>2. QED BY <1>1, <1>2, <1>7, <2>1, GrowsRefl DEF Resolve, AccountsMove, Behind
<1>8. ASSUME NEW d \in DOMAIN rows, Mine(d) PROVE AccountsMove /\ RowsMove /\ posted' = posted
  <2>1. d \in posted /\ d.key \in Keys
    BY <1>2 DEF Approvals
  <2>2. RowsMove
    BY <1>8, <2>1, OneRowMoves DEF Mine, IsAt, Terminal, RowStates
  <2>3. AccountsMove
    <3>1. CASE d.op = "add"
      <4> DEFINE on == account.active \cup {d.key}
                 off == account.removed
      <4>1. Spend(on, off) /\ d.key \notin account.active \cup account.removed
        BY <1>8, <3>1 DEF Mine, Executable
      <4>2. on \in SUBSET Keys /\ off \in SUBSET Keys /\ on \cap off = {} /\ account.removed \subseteq off
            /\ account.active \cup account.removed \subseteq on \cup off
            /\ \A k \in on \cup off : k \in account.active \cup account.removed \/ k = d.key
        BY <1>2, <2>1, <4>1
      <4> HIDE DEF on, off
      <4>3. QED BY <2>1, <4>1, <4>2, SpendMoves DEF AccountsMove
    <3>2. CASE d.op # "add"
      <4> DEFINE on == account.active \ {d.key}
                 off == account.removed \cup {d.key}
      <4>1. Spend(on, off) /\ d.key \in account.active
        BY <1>8, <3>2 DEF Mine, Executable
      <4>2. on \in SUBSET Keys /\ off \in SUBSET Keys /\ on \cap off = {} /\ account.removed \subseteq off
            /\ account.active \cup account.removed = on \cup off
        BY <1>2, <2>1, <4>1
      <4> HIDE DEF on, off
      <4>3. QED BY <4>1, <4>2, SpendMoves DEF AccountsMove
    <3>3. QED BY <3>1, <3>2
  <2>4. QED BY <1>8, <2>2, <2>3 DEF Mine
<1>9. QED BY <1>3, <1>4, <1>5, <1>6, <1>7, <1>8 DEF ServiceStep

\* Nothing becomes executable again.
LEMMA DeadStaysDead ==
  ASSUME account \in Accounts, AccountsMove, RowsMove,
         NEW d \in Approvals, d.nonce <= account.nonce, Alive(d)'
  PROVE  Alive(d)
<1>1. /\ account.nonce \in Nat /\ account'.nonce \in Nat /\ account.time \in Nat /\ account'.time \in Nat
      /\ d.nonce \in Nat /\ d.deadline \in Nat
  BY AccountFields, ServiceAssumption DEF AccountsMove, Approvals
<1>2. Executable(d)' /\ (d \in DOMAIN rows' => rows'[d] = "active")
  BY DEF Alive
<1>3. d.nonce = account'.nonce /\ ~(account'.time > d.deadline)
  BY <1>2 DEF Executable, Expired
<1>4. account.nonce <= account'.nonce /\ account.time <= account'.time
  BY DEF AccountsMove, Grows
<1>5. account.nonce = account'.nonce
  BY <1>1, <1>3, <1>4
<1>6. account.active = account'.active /\ account.removed = account'.removed
  BY <1>5 DEF AccountsMove, Grows
<1>7. ~Expired(d)
  BY <1>1, <1>3, <1>4 DEF Expired
<1>8. d \in DOMAIN rows => rows[d] = "active"
  BY <1>2 DEF RowsMove
<1>9. QED BY <1>2, <1>3, <1>5, <1>6, <1>7, <1>8 DEF Alive, Executable

\* The approvals there are, by type.
LEMMA RecsTyped == ASSUME LinkInv PROVE Recs \subseteq Approvals /\ Out \subseteq Recs
<1>1. saved \subseteq Approvals /\ posted \subseteq Approvals /\ slot.rec \in Approvals \cup {NoApproval}
      /\ approval \in saved \cup {NoApproval}
  BY DEF LinkInv, TypeOK, ServiceTypeOK, PhoneTypeOK, CliTypeOK
<1>2. \A f \in Flows : flows[f].rec \in Approvals \cup {NoApproval}
  BY DEF LinkInv, TypeOK, PhoneTypeOK
<1>3. \A h \in Handlers : handlers[h].rec \in Approvals \cup {NoApproval}
  BY DEF LinkInv, TypeOK, CliTypeOK
<1>4. QED BY <1>1, <1>2, <1>3 DEF Recs, Out

LEMMA ServiceKeeps ==
  ASSUME LinkInv, ServiceStep, UNCHANGED <<phoneVars, cliVars>>
  PROVE  LinkInv'
<1>1. AccountsMove /\ RowsMove /\ posted' = posted /\ account \in Accounts
  BY ServiceMoves, ServiceTypes DEF LinkInv, TypeOK
<1>2. TypeOK'
  <2>1. ServiceTypeOK' BY <1>1 DEF LinkInv, TypeOK, ServiceTypeOK, AccountsMove, RowsMove
  <2>2. PhoneTypeOK' /\ CliTypeOK' BY DEF LinkInv, TypeOK, PhoneTypeOK, CliTypeOK
  <2>3. QED BY <2>1, <2>2 DEF TypeOK
<1>3. Behind(phoneView)' /\ Behind(cliView)'
  BY <1>1 DEF AccountsMove, Behind
<1>4. SlotTold'
  <2>1. ASSUME NEW status \in Terminal, IsAt(slot.rec, status) PROVE IsAt(slot.rec, status)'
    BY <1>1, <2>1 DEF IsAt, RowsMove
  <2>2. slot.historicallyAdded => slot.rec.key \in phoneView'.active \cup phoneView'.removed
    BY <1>1 DEF LinkInv, SlotTold, Told, AccountsMove, Grows
  <2>3. QED BY <2>1, <2>2 DEF LinkInv, SlotTold, Told, IsAt
<1>5. SubmittedIsSaved'
  BY <1>1 DEF LinkInv, SubmittedIsSaved
<1>6. \A f \in Flows : FlowFits(f)' /\ HandlerFits(f)'
  BY DEF LinkInv, FlowFits, HandlerFits
<1>7. Recs' = Recs
  BY <1>1 DEF Recs
<1>8. RecsFit'
  <2>1. \A d \in Recs : d.nonce \in Nat
    BY RecsTyped, ServiceAssumption DEF Approvals
  <2>2. account.nonce \in Nat /\ account'.nonce \in Nat /\ account.nonce <= account'.nonce
    BY <1>1, AccountFields DEF AccountsMove, Grows
  <2>3. QED BY <1>7, <2>1, <2>2 DEF LinkInv, RecsFit
<1>9. KeysTold'
  <2>1. \A k \in Keys : Seen(k)' => Seen(k)
    <3>1. posted \subseteq Recs
      BY NothingAssumption DEF Recs, LinkInv, TypeOK, ServiceTypeOK
    <3>2. QED BY <1>1, <1>7, <3>1 DEF Seen, AccountsMove
  <2>2. secret # identity => secret \in Keys
    BY DEF LinkInv, TypeOK, CliTypeOK
  <2>3. account.removed \subseteq account'.removed
    BY <1>1 DEF AccountsMove, Grows
  <2>4. QED BY <2>1, <2>2, <2>3 DEF LinkInv, KeysTold
<1>10. CliFits'
  BY <1>1 DEF LinkInv, CliFits, Up, AccountsMove, Grows
<1>11. OutIsStored'
  <2>1. Out' = Out
    BY <1>1 DEF Out
  <2>2. ASSUME NEW d \in Recs, Alive(d)' PROVE Alive(d)
    BY <1>1, <2>2, RecsTyped, DeadStaysDead DEF LinkInv, RecsFit
  <2>3. ASSUME NEW d \in Out, Alive(d)' PROVE d = slot.rec
    BY <2>2, <2>3, RecsTyped DEF LinkInv, OutIsStored
  <2>4. ASSUME NEW f \in Flows, At(f, "send"), Alive(flows[f].rec)' PROVE flows[f].rec = slot.rec
    <3> DEFINE d == flows[f].rec
    <3>1. d \in Recs
      BY <2>4, NothingAssumption DEF Recs, LinkInv, FlowFits, At, Carries
    <3>2. Alive(d)'
      BY <2>4
    <3>3. Alive(d)
      BY <3>1, <3>2, <2>2
    <3>4. QED BY <2>4, <3>3 DEF LinkInv, OutIsStored
  <2>5. QED BY <2>1, <2>3, <2>4 DEF OutIsStored, At
<1>12. QED
  BY <1>2, <1>3, <1>4, <1>5, <1>6, <1>8, <1>9, <1>10, <1>11 DEF LinkInv

(***************************************************************************)
(* The CLI.                                                                *)
(***************************************************************************)
LEMMA Streams == Handlers = Flows
BY StreamAssumption

\* What a step of the CLI has to show.
LEMMA CliFrame ==
  ASSUME LinkInv, UNCHANGED <<serviceVars, phoneVars>>, CliTypeOK',
         saved \subseteq saved', saved' \subseteq saved \cup {handlers[h].rec : h \in Handlers},
         approval' \in {approval, NoApproval} \cup {handlers[h].rec : h \in Handlers},
         \A h \in Handlers : handlers'[h].rec \in {handlers[h].rec, NoApproval},
         \A f \in Flows : FlowFits(f)' /\ HandlerFits(f)',
         KeysTold', CliFits'
  PROVE  LinkInv'
<1>1. TypeOK'
  BY DEF LinkInv, TypeOK, ServiceTypeOK, PhoneTypeOK
<1>2. Behind(phoneView)' /\ Behind(cliView)' /\ SubmittedIsSaved'
  BY DEF LinkInv, Behind, SubmittedIsSaved
<1>3. SlotTold'
  BY DEF LinkInv, SlotTold, Told, IsAt
<1>4. Recs' \subseteq Recs
  <2>1. \A d \in saved' : d \in Approvals
    BY <1>1 DEF TypeOK, CliTypeOK
  <2>2. QED BY <2>1, NothingAssumption DEF Recs
<1>5. RecsFit'
  BY <1>4 DEF LinkInv, RecsFit
<1>6. Out' \subseteq Out
  BY DEF Out
<1>7. OutIsStored'
  BY <1>6 DEF LinkInv, OutIsStored, Alive, Executable, Expired, At
<1>8. QED BY <1>1, <1>2, <1>3, <1>5, <1>7 DEF LinkInv

\* Keys that stay, and approvals that were there.
LEMMA KeysStay ==
  ASSUME LinkInv, UNCHANGED <<serviceVars, phoneVars, secret, identity, minted>>,
         saved' \subseteq saved \cup {handlers[h].rec : h \in Handlers},
         \A h \in Handlers : handlers'[h].rec \in {handlers[h].rec, NoApproval}
  PROVE  KeysTold'
<1>1. Recs' \subseteq Recs
  BY NothingAssumption DEF Recs, LinkInv, TypeOK, CliTypeOK
<1>2. \A k \in Keys : Seen(k)' => Seen(k)
  BY <1>1 DEF Seen
<1>3. secret # identity => secret \in Keys
  BY DEF LinkInv, TypeOK, CliTypeOK
<1>4. QED BY <1>2, <1>3 DEF LinkInv, KeysTold

\* Streams that stay as they are, or end with the command.
LEMMA StreamsStay ==
  ASSUME LinkInv, UNCHANGED <<serviceVars, phoneVars, saved>>,
         \/ UNCHANGED handlers
         \/ handlers' = [h \in Handlers |-> IdleHandler]
  PROVE  /\ \A f \in Flows : FlowFits(f)' /\ HandlerFits(f)'
         /\ handlers' \in [Handlers -> [pc : {"idle", "load", "check", "save", "reply"},
                                        rec : Approvals \cup {NoApproval}, fits : BOOLEAN, seen : Reading]]
         /\ \A h \in Handlers : handlers'[h].rec \in {handlers[h].rec, NoApproval}
<1>1. CASE UNCHANGED handlers
  BY <1>1, Streams DEF LinkInv, FlowFits, HandlerFits, TypeOK, CliTypeOK
<1>2. CASE handlers' = [h \in Handlers |-> IdleHandler]
  <2>1. /\ IdleHandler \in [pc : {"idle", "load", "check", "save", "reply"},
                            rec : Approvals \cup {NoApproval}, fits : BOOLEAN, seen : Reading]
        /\ IdleHandler.pc = "idle" /\ IdleHandler.rec = NoApproval /\ IdleHandler.seen.pending = NoApproval
    BY DEF IdleHandler, NotRead, Reading
  <2>2. \A f \in Flows : handlers'[f] = IdleHandler
    BY <1>2, Streams
  <2>3. \A f \in Flows : FlowFits(f)' /\ HandlerFits(f)'
    BY <2>1, <2>2 DEF LinkInv, FlowFits, HandlerFits
  <2>4. QED BY <1>2, <2>1, <2>3
<1>3. QED BY <1>1, <1>2

CliTypes == [pc : {"off", "mint", "ask", "look", "rotate", "rewrite", "unlink", "clear", "load", "free"},
             endpoint : Keys \cup {NoKey}, key : Keys \cup {NoKey}, seen : Reading]

\* A step of the command that neither mints a key nor saves an approval.
LEMMA CommandFrame ==
  ASSUME LinkInv, UNCHANGED <<serviceVars, phoneVars, saved, secret, identity, minted>>,
         \/ UNCHANGED handlers
         \/ handlers' = [h \in Handlers |-> IdleHandler],
         approval' \in {approval, NoApproval}, commands' \in 0..MaxCommands,
         cli' \in CliTypes, CliFits'
  PROVE  LinkInv'
<1>1. /\ \A f \in Flows : FlowFits(f)' /\ HandlerFits(f)'
      /\ handlers' \in [Handlers -> [pc : {"idle", "load", "check", "save", "reply"},
                                     rec : Approvals \cup {NoApproval}, fits : BOOLEAN, seen : Reading]]
      /\ \A h \in Handlers : handlers'[h].rec \in {handlers[h].rec, NoApproval}
  BY StreamsStay
<1>2. KeysTold'
  BY <1>1, KeysStay
<1>3. CliTypeOK'
  BY <1>1 DEF LinkInv, TypeOK, CliTypeOK, CliTypes
<1>4. QED BY <1>1, <1>2, <1>3, CliFrame

LEMMA CliFields ==
  ASSUME LinkInv
  PROVE  /\ cli \in CliTypes /\ cli.key \in Keys \cup {NoKey} /\ cli.endpoint \in Keys \cup {NoKey}
         /\ cli.seen \in Reading /\ commands \in 0..MaxCommands
         /\ secret \in Keys \cup {NoKey} /\ identity \in Keys \cup {NoKey}
         /\ identity # NoKey => secret # NoKey
BY DEF LinkInv, TypeOK, CliTypeOK, CliTypes

LEMMA ReadTypes ==
  /\ NotRead \in Reading /\ Off \in CliTypes
  /\ Off.pc = "off" /\ Off.endpoint = NoKey /\ Off.key = NoKey
<1>1. NotRead \in Reading BY DEF NotRead, Reading
<1>2. QED BY <1>1 DEF Off, CliTypes

LEMMA ReadingsTyped ==
  ASSUME LinkInv
  PROVE  Readings \subseteq Reading /\ \A x \in Readings : x.pending = approval
<1>1. approval \in Approvals \cup {NoApproval}
  BY DEF LinkInv, TypeOK, CliTypeOK
<1>2. \A d : Answer(d) \in {"missing", "active"} \cup Terminal
  BY DEF Answer
<1>3. QED BY <1>1, <1>2 DEF Readings, Reading

\* The command is over: no session is up.
LEMMA OffFits == ASSUME cli' = Off PROVE CliFits'
BY ReadTypes DEF CliFits, Up

\* The command goes from one place to the next.
LEMMA CommandGoes ==
  ASSUME LinkInv, cli.pc # "off",
         NEW pc \in {"ask", "look", "rotate", "rewrite", "unlink", "clear", "load", "free"},
         NEW seen \in Reading, CliGoto(pc, seen)
  PROVE  /\ cli' \in CliTypes /\ cli'.pc = pc /\ cli'.key = cli.key /\ cli'.endpoint = cli.endpoint
         /\ UNCHANGED handlers
<1>1. [cli EXCEPT !.pc = pc, !.seen = seen] \in CliTypes
  BY CliFields DEF CliTypes
<1>2. QED BY <1>1, CliFields DEF CliGoto, CliTypes

LEMMA EndsKeeps ==
  ASSUME LinkInv, Exit \/ Die, UNCHANGED <<serviceVars, phoneVars, saved, secret, identity, minted, commands>>,
         approval' \in {approval, NoApproval}
  PROVE  LinkInv'
<1>1. /\ cli' = Off /\ cli' \in CliTypes /\ CliFits'
      /\ UNCHANGED handlers \/ handlers' = [h \in Handlers |-> IdleHandler]
  BY ReadTypes, OffFits DEF Exit, Die
<1>2. commands' \in 0..MaxCommands
  BY CliFields
<1>3. QED BY <1>1, <1>2, CommandFrame

LEMMA BeginCommandKeeps ==
  ASSUME LinkInv, BeginCommand, UNCHANGED phoneVars PROVE LinkInv'
<1>1. /\ identity # NoKey /\ cli.pc = "off" /\ commands < MaxCommands /\ commands' = commands + 1
      /\ cli' = [Off EXCEPT !.pc = "ask", !.key = identity]
      /\ UNCHANGED <<serviceVars, files, handlers>>
  BY DEF BeginCommand, StartCommand
<1>2. commands' \in 0..MaxCommands
  BY <1>1, CliFields, CliAssumption
<1>3. cli' \in CliTypes /\ cli'.pc = "ask" /\ cli'.key = identity /\ cli'.endpoint = NoKey
  BY <1>1, ReadTypes, CliFields DEF CliTypes
<1>4. CliFits'
  BY <1>1, <1>3 DEF CliFits, Up
<1>5. QED BY <1>1, <1>2, <1>3, <1>4, CommandFrame

\* A key nobody has seen.
LEMMA NewKey ==
  ASSUME LinkInv, UNCHANGED <<serviceVars, phoneVars, identity, handlers, saved>>, NewSecret,
         secret = identity => secret = NoKey \/ secret \in account.removed
  PROVE  /\ KeysTold' /\ secret' \in Keys /\ secret' \in minted' /\ minted \subseteq minted'
         /\ minted' \subseteq Keys
<1>1. PICK k \in Keys \ minted : secret' = k /\ minted' = minted \cup {k}
  BY DEF NewSecret
<1>2. \A x \in Keys : Seen(x)' <=> Seen(x)
  BY DEF Seen, Recs
<1>3. ~Seen(k)
  BY <1>1 DEF LinkInv, KeysTold
<1>4. ASSUME NEW x \in Keys, Seen(x) PROVE x \in minted' /\ x \in account.removed
  <2>1. x \in minted /\ (x = secret \/ x \in account.removed)
    BY <1>4 DEF LinkInv, KeysTold
  <2>2. x # NoKey BY ServiceAssumption
  <2>3. x = secret => x \in account.removed
    BY <1>4, <2>2 DEF LinkInv, KeysTold
  <2>4. QED BY <1>1, <2>1, <2>3
<1>5. KeysTold'
  BY <1>1, <1>2, <1>3, <1>4 DEF KeysTold
<1>6. QED BY <1>1, <1>5 DEF LinkInv, TypeOK, CliTypeOK

LEMMA FirstCommandKeeps ==
  ASSUME LinkInv, FirstCommand, UNCHANGED phoneVars PROVE LinkInv'
<1>1. /\ identity = NoKey /\ secret = NoKey /\ NewSecret
      /\ commands < MaxCommands /\ commands' = commands + 1
      /\ cli' = [Off EXCEPT !.pc = "mint", !.key = NoKey]
      /\ UNCHANGED <<serviceVars, identity, approval, saved, handlers>>
  BY DEF FirstCommand, StartCommand
<1>2. commands' \in 0..MaxCommands
  BY <1>1, CliFields, CliAssumption
<1>3. cli' \in CliTypes /\ cli'.pc = "mint" /\ cli'.endpoint = NoKey
  BY <1>1, ReadTypes DEF CliTypes
<1>4. /\ KeysTold' /\ secret' \in Keys /\ secret' \in minted'
      /\ minted \subseteq minted' /\ minted' \subseteq Keys
  BY <1>1, NewKey
<1>5. CliFits'
  BY <1>3, <1>4, ServiceAssumption DEF CliFits, Up
<1>6. /\ \A f \in Flows : FlowFits(f)' /\ HandlerFits(f)'
      /\ \A h \in Handlers : handlers'[h].rec \in {handlers[h].rec, NoApproval}
  BY <1>1, StreamsStay
<1>7. CliTypeOK'
  BY <1>1, <1>2, <1>3, <1>4 DEF LinkInv, TypeOK, CliTypeOK, CliTypes
<1>8. QED BY <1>1, <1>4, <1>5, <1>6, <1>7, CliFrame

\* The identity follows the secret.
LEMMA IdentityKeeps ==
  ASSUME LinkInv, UNCHANGED <<serviceVars, phoneVars, secret, approval, minted, saved, handlers, commands>>,
         secret # NoKey, identity' = secret, cli' \in CliTypes, CliFits'
  PROVE  LinkInv'
<1>1. \A x \in Keys : Seen(x)' <=> Seen(x)
  BY DEF Seen, Recs
<1>2. KeysTold'
  BY <1>1 DEF LinkInv, KeysTold
<1>3. /\ \A f \in Flows : FlowFits(f)' /\ HandlerFits(f)'
      /\ \A h \in Handlers : handlers'[h].rec \in {handlers[h].rec, NoApproval}
  BY StreamsStay
<1>4. CliTypeOK'
  BY DEF LinkInv, TypeOK, CliTypeOK, CliTypes
<1>5. QED BY <1>2, <1>3, <1>4, CliFrame

LEMMA WriteIdentityKeeps ==
  ASSUME LinkInv, WriteIdentity, UNCHANGED phoneVars PROVE LinkInv'
<1>1. /\ cli.pc = "mint" /\ identity' = secret /\ cli' = [Off EXCEPT !.pc = "ask", !.key = secret]
      /\ UNCHANGED <<serviceVars, secret, approval, minted, saved, handlers, commands>>
  BY DEF WriteIdentity
<1>2. secret # NoKey
  BY <1>1 DEF LinkInv, CliFits
<1>3. cli' \in CliTypes /\ cli'.pc = "ask" /\ cli'.key = secret /\ cli'.endpoint = NoKey
  BY <1>1, ReadTypes, CliFields DEF CliTypes
<1>4. CliFits'
  BY <1>1, <1>2, <1>3 DEF CliFits, Up
<1>5. QED BY <1>1, <1>2, <1>3, <1>4, IdentityKeeps

LEMMA RotateSecretKeeps ==
  ASSUME LinkInv, RotateSecret, UNCHANGED phoneVars PROVE LinkInv'
<1>1. /\ cli.pc = "rotate" /\ NewSecret /\ CliGoto("rewrite", NotRead)
      /\ UNCHANGED <<serviceVars, identity, approval, saved, commands>>
  BY DEF RotateSecret
<1>2. cli' \in CliTypes /\ cli'.pc = "rewrite" /\ cli'.key = cli.key /\ UNCHANGED handlers
  BY <1>1, ReadTypes, CommandGoes
<1>3. cli.key = identity /\ identity # NoKey /\ cli.key \in account.removed
  BY <1>1 DEF LinkInv, CliFits
<1>4. /\ KeysTold' /\ secret' \in Keys /\ secret' \in minted'
      /\ minted \subseteq minted' /\ minted' \subseteq Keys
  BY <1>1, <1>2, <1>3, NewKey
<1>5. CliFits'
  BY <1>1, <1>2, <1>3 DEF CliFits
<1>6. /\ \A f \in Flows : FlowFits(f)' /\ HandlerFits(f)'
      /\ \A h \in Handlers : handlers'[h].rec \in {handlers[h].rec, NoApproval}
  BY <1>1, <1>2, StreamsStay
<1>7. CliTypeOK'
  BY <1>1, <1>2, <1>4, ServiceAssumption DEF LinkInv, TypeOK, CliTypeOK, CliTypes
<1>8. QED BY <1>1, <1>2, <1>4, <1>5, <1>6, <1>7, CliFrame

LEMMA RotateIdentityKeeps ==
  ASSUME LinkInv, RotateIdentity, UNCHANGED phoneVars PROVE LinkInv'
<1>1. /\ cli.pc = "rewrite" /\ identity' = secret /\ CliGoto("unlink", NotRead)
      /\ UNCHANGED <<serviceVars, secret, approval, minted, saved, commands>>
  BY DEF RotateIdentity
<1>2. cli' \in CliTypes /\ cli'.pc = "unlink" /\ cli'.key = cli.key /\ UNCHANGED handlers
  BY <1>1, ReadTypes, CommandGoes
<1>3. cli.key \in account.removed /\ secret # NoKey
  BY <1>1, CliFields DEF LinkInv, CliFits
<1>4. CliFits'
  BY <1>1, <1>2, <1>3 DEF CliFits
<1>5. QED BY <1>1, <1>2, <1>3, <1>4, IdentityKeeps

LEMMA ClearApprovalKeeps ==
  ASSUME LinkInv, ClearApproval, UNCHANGED phoneVars PROVE LinkInv'
<1>1. /\ cli.pc \in {"unlink", "clear"} /\ approval' = NoApproval
      /\ UNCHANGED <<serviceVars, secret, identity, minted, saved, commands>>
  BY DEF ClearApproval
<1>2. CASE Up
  BY <1>1, <1>2, EndsKeeps DEF ClearApproval
<1>3. CASE ~Up
  <2>1. cli' = [cli EXCEPT !.pc = "load", !.key = identity] /\ UNCHANGED handlers
    BY <1>3 DEF ClearApproval
  <2>2. cli' \in CliTypes /\ cli'.pc = "load" /\ cli'.key = identity /\ cli'.endpoint = cli.endpoint
    BY <2>1, CliFields DEF CliTypes
  <2>3. CliFits'
    BY <1>1, <1>3, <2>2 DEF LinkInv, CliFits, Up
  <2>4. QED BY <1>1, <2>1, <2>2, <2>3, CliFields, CommandFrame
<1>4. QED BY <1>2, <1>3

\* A command that goes on in the session or before it.
LEMMA GoesOnKeeps ==
  ASSUME LinkInv, cli.pc \notin {"off", "mint", "rewrite", "unlink"},
         NEW pc \in {"ask", "look", "rotate", "clear", "load", "free"},
         NEW seen \in Reading, CliGoto(pc, seen), pc = "rotate" => cli.key \in account.removed,
         UNCHANGED <<serviceVars, phoneVars, files, commands>>
  PROVE  LinkInv'
<1>1. /\ cli' \in CliTypes /\ cli'.pc = pc /\ cli'.key = cli.key /\ cli'.endpoint = cli.endpoint
      /\ UNCHANGED handlers
  BY CommandGoes
<1>2. CliFits'
  BY <1>1 DEF LinkInv, CliFits, Up
<1>3. QED BY <1>1, <1>2, CliFields, CommandFrame

LEMMA AskStatusKeeps ==
  ASSUME LinkInv, AskStatus, UNCHANGED phoneVars PROVE LinkInv'
<1>1. cli.pc = "ask" /\ UNCHANGED <<serviceVars, files, commands>>
  BY DEF AskStatus
<1>2. PICK seen \in Readings :
        CliGoto("look", [NotRead EXCEPT !.answer = IF seen.answer = "missing" THEN @ ELSE seen.answer])
  BY DEF AskStatus
<1>3. seen.answer \in {"missing", "unknown"} \cup Terminal
  BY ReadingsTyped DEF Reading
<1>4. [NotRead EXCEPT !.answer = IF seen.answer = "missing" THEN @ ELSE seen.answer] \in Reading
  BY <1>3, ReadTypes DEF Reading, NotRead
<1>5. QED BY <1>1, <1>2, <1>4, GoesOnKeeps

LEMMA LookKeeps ==
  ASSUME LinkInv, Look, UNCHANGED phoneVars PROVE LinkInv'
<1>1. cli.pc = "look" /\ UNCHANGED <<serviceVars, files, commands>>
  BY DEF Look
<1>2. PICK marker \in {FALSE, cli.key \in cliView.removed} :
        LET membership == Membership(cli.key, cliView, Added(marker))
        IN  CASE membership = "linked" -> Exit
              [] membership = "removed" -> CliGoto("rotate", NotRead)
              [] membership = "pending" /\ cli.seen.answer = "failed" -> CliGoto("clear", NotRead)
              [] OTHER -> CliGoto(IF Up THEN "ask" ELSE "load", NotRead)
  BY DEF Look
<1> DEFINE membership == Membership(cli.key, cliView, Added(marker))
<1>3. membership = "removed" => cli.key \in account.removed
  <2>1. membership = "removed" => marker
    BY DEF Membership, Added
  <2>2. marker => cli.key \in cliView.removed
    OBVIOUS
  <2>3. QED BY <2>1, <2>2 DEF LinkInv, Behind, Grows
<1>4. \/ Exit
      \/ membership = "removed" /\ CliGoto("rotate", NotRead)
      \/ CliGoto("clear", NotRead) \/ CliGoto("ask", NotRead) \/ CliGoto("load", NotRead)
  <2> HIDE DEF membership
  <2>1. CASE membership = "linked" BY <1>2, <2>1 DEF membership
  <2>2. CASE membership = "removed" BY <1>2, <2>2 DEF membership
  <2>3. CASE membership \notin {"linked", "removed"} BY <1>2, <2>3 DEF membership
  <2>4. QED BY <2>1, <2>2, <2>3
<1> HIDE DEF membership
<1>5. QED BY <1>1, <1>3, <1>4, ReadTypes, GoesOnKeeps, EndsKeeps

LEMMA LoadFirstKeeps ==
  ASSUME LinkInv, LoadFirst, UNCHANGED phoneVars PROVE LinkInv'
BY ReadingsTyped, GoesOnKeeps DEF LoadFirst

LEMMA FreeFirstKeeps ==
  ASSUME LinkInv, FreeFirst, UNCHANGED phoneVars PROVE LinkInv'
<1>1. /\ cli.pc = "free" /\ cli' = [cli EXCEPT !.pc = "ask", !.endpoint = secret, !.seen = NotRead]
      /\ UNCHANGED <<serviceVars, secret, identity, minted, saved, handlers, commands>>
      /\ approval' \in {approval, NoApproval}
  BY DEF FreeFirst, FreeSlot
<1>2. cli' \in CliTypes /\ cli'.pc = "ask" /\ cli'.key = cli.key /\ cli'.endpoint = secret
  BY <1>1, CliFields, ReadTypes DEF CliTypes
<1>3. CliFits'
  BY <1>1, <1>2 DEF LinkInv, CliFits, Up
<1>4. QED BY <1>1, <1>2, <1>3, CliFields, CommandFrame

LEMMA CliStopsKeeps ==
  ASSUME LinkInv, CliStops, UNCHANGED phoneVars PROVE LinkInv'
BY EndsKeeps DEF CliStops

HandlerTypes == [pc : {"idle", "load", "check", "save", "reply"}, rec : Approvals \cup {NoApproval},
                 fits : BOOLEAN, seen : Reading]

LEMMA HandlerFields ==
  ASSUME LinkInv, NEW h \in Handlers
  PROVE  /\ handlers \in [Handlers -> HandlerTypes] /\ handlers[h] \in HandlerTypes
         /\ handlers[h].rec \in Approvals \cup {NoApproval} /\ handlers[h].seen \in Reading
         /\ handlers[h].fits \in BOOLEAN
         /\ FlowFits(h) /\ HandlerFits(h)
         /\ IdleHandler \in HandlerTypes /\ IdleHandler.pc = "idle" /\ IdleHandler.rec = NoApproval
         /\ IdleHandler.seen.pending = NoApproval
         /\ Replying \in HandlerTypes /\ Replying.pc = "reply" /\ Replying.rec = NoApproval
         /\ Replying.seen.pending = NoApproval
<1>1. /\ handlers \in [Handlers -> HandlerTypes] /\ handlers[h] \in HandlerTypes
      /\ FlowFits(h) /\ HandlerFits(h)
  BY Streams DEF LinkInv, TypeOK, CliTypeOK, HandlerTypes
<1>2. /\ handlers[h].rec \in Approvals \cup {NoApproval} /\ handlers[h].seen \in Reading
      /\ handlers[h].fits \in BOOLEAN
  BY <1>1 DEF HandlerTypes
<1>3. /\ IdleHandler \in HandlerTypes /\ IdleHandler.pc = "idle" /\ IdleHandler.rec = NoApproval
      /\ IdleHandler.seen.pending = NoApproval
  BY ReadTypes DEF IdleHandler, NotRead, HandlerTypes
<1>4. /\ Replying \in HandlerTypes /\ Replying.pc = "reply" /\ Replying.rec = NoApproval
      /\ Replying.seen.pending = NoApproval
  BY <1>3 DEF Replying, HandlerTypes
<1>5. QED BY <1>1, <1>2, <1>3, <1>4

\* A step of one stream.
LEMMA StreamFrame ==
  ASSUME LinkInv, NEW h \in Handlers, NEW x \in HandlerTypes, handlers' = [handlers EXCEPT ![h] = x],
         UNCHANGED <<serviceVars, phoneVars, secret, identity, minted, cli, commands>>,
         saved \subseteq saved', saved' \subseteq saved \cup {handlers[h].rec}, saved' \subseteq Approvals,
         approval' \in {approval, NoApproval, handlers[h].rec}, approval' \in saved' \cup {NoApproval},
         x.rec \in {handlers[h].rec, NoApproval},
         x.seen.pending \in saved' \cup {NoApproval},
         x.pc \in {"load", "check", "save"} =>
           handlers[h].pc \in {"load", "check", "save"} /\ x.rec = handlers[h].rec,
         x.pc = "reply" => handlers[h].pc \in {"load", "check", "save"} /\ handlers[h].rec \in saved'
  PROVE  LinkInv'
<1>1. /\ handlers \in [Handlers -> HandlerTypes] /\ handlers' \in [Handlers -> HandlerTypes]
      /\ handlers'[h] = x /\ \A g \in Handlers : g # h => handlers'[g] = handlers[g]
  BY HandlerFields
<1>2. FlowFits(h) /\ HandlerFits(h)
  BY HandlerFields
<1>3. FlowFits(h)' /\ HandlerFits(h)'
  BY <1>1, <1>2 DEF FlowFits, HandlerFits
<1>4. ASSUME NEW f \in Flows, f # h PROVE FlowFits(f)' /\ HandlerFits(f)'
  BY <1>1, <1>4, Streams DEF LinkInv, FlowFits, HandlerFits
<1>5. CliTypeOK'
  BY <1>1 DEF LinkInv, TypeOK, CliTypeOK, HandlerTypes
<1>6. \A g \in Handlers : handlers'[g].rec \in {handlers[g].rec, NoApproval}
  BY <1>1
<1>7. KeysTold'
  BY <1>6, KeysStay
<1>8. CliFits'
  BY DEF LinkInv, CliFits, Up
<1>9. QED BY <1>3, <1>4, <1>5, <1>6, <1>7, <1>8, CliFrame

LEMMA LoadPendingKeeps ==
  ASSUME LinkInv, NEW h \in Handlers, LoadPending(h), UNCHANGED phoneVars PROVE LinkInv'
<1>1. PICK seen \in Readings : handlers' = [handlers EXCEPT ![h].pc = "check", ![h].seen = seen]
  BY DEF LoadPending
<1>2. handlers[h].pc = "load" /\ UNCHANGED <<serviceVars, files, cli, commands>>
  BY DEF LoadPending
<1> DEFINE x == [handlers[h] EXCEPT !.pc = "check", !.seen = seen]
<1>3. /\ seen \in Reading /\ seen.pending = approval
      /\ approval \in saved \cup {NoApproval} /\ saved \subseteq Approvals
  BY ReadingsTyped DEF LinkInv, TypeOK, CliTypeOK
<1>4. x \in HandlerTypes /\ x.pc = "check" /\ x.rec = handlers[h].rec /\ x.seen = seen
  BY <1>3, HandlerFields DEF HandlerTypes
<1>5. handlers' = [handlers EXCEPT ![h] = x]
  BY <1>1, HandlerFields
<1> HIDE DEF x
<1>6. QED BY <1>2, <1>3, <1>4, <1>5, StreamFrame

LEMMA CheckApprovalKeeps ==
  ASSUME LinkInv, NEW h \in Handlers, CheckApproval(h), UNCHANGED phoneVars PROVE LinkInv'
<1> DEFINE y == handlers[h]
<1>1. PICK time \in ViewTimes :
        LET pending == Loaded(y.seen, time) IN
        /\ FreeSlot(y.seen, time)
        /\ handlers' = [handlers EXCEPT ![h] =
             CASE pending = y.rec -> Replying
               [] pending = NoApproval /\ @.fits -> [@ EXCEPT !.pc = "save", !.seen = NotRead, !.fits = FALSE]
               [] OTHER -> IdleHandler]
  BY DEF CheckApproval
<1>2. handlers[h].pc = "check" /\ UNCHANGED <<serviceVars, secret, identity, minted, saved, cli, commands>>
  BY DEF CheckApproval
<1>3. /\ y \in HandlerTypes /\ y.rec \in Approvals /\ y.seen.pending \in saved \cup {NoApproval}
      /\ approval \in saved \cup {NoApproval} /\ saved \subseteq Approvals
  BY <1>2, HandlerFields DEF HandlerFits, LinkInv, TypeOK, CliTypeOK
<1>4. approval' \in {approval, NoApproval}
  BY <1>1 DEF FreeSlot
<1> DEFINE s == [y EXCEPT !.pc = "save", !.seen = NotRead, !.fits = FALSE]
<1>5. /\ s \in HandlerTypes /\ s.pc = "save" /\ s.rec = y.rec /\ s.seen = NotRead
      /\ NotRead.pending = NoApproval
  BY <1>3, ReadTypes DEF HandlerTypes, NotRead
<1>6. \/ Loaded(y.seen, time) = y.rec /\ handlers' = [handlers EXCEPT ![h] = Replying]
      \/ handlers' = [handlers EXCEPT ![h] = s]
      \/ handlers' = [handlers EXCEPT ![h] = IdleHandler]
  <2> DEFINE pending == Loaded(y.seen, time)
  <2> HIDE DEF pending
  <2>1. handlers' = [handlers EXCEPT ![h] = CASE pending = y.rec -> Replying
                                              [] pending = NoApproval /\ y.fits -> s
                                              [] OTHER -> IdleHandler]
    BY <1>1 DEF pending
  <2>2. CASE pending = y.rec
    BY <1>3, <2>1, <2>2, NothingAssumption DEF pending
  <2>3. CASE pending # y.rec /\ pending = NoApproval /\ y.fits
    BY <2>1, <2>3
  <2>4. CASE pending # y.rec /\ ~(pending = NoApproval /\ y.fits)
    BY <2>1, <2>4
  <2>5. QED BY <2>2, <2>3, <2>4
<1>7. CASE Loaded(y.seen, time) = y.rec /\ handlers' = [handlers EXCEPT ![h] = Replying]
  <2>1. y.rec \in saved
    BY <1>3, <1>7, NothingAssumption DEF Loaded
  <2>2. QED BY <1>2, <1>3, <1>4, <1>7, <2>1, HandlerFields, StreamFrame
<1>8. CASE handlers' = [handlers EXCEPT ![h] = s]
  <2> HIDE DEF s
  <2>1. QED BY <1>2, <1>3, <1>4, <1>5, <1>8, StreamFrame
<1>9. CASE handlers' = [handlers EXCEPT ![h] = IdleHandler]
  BY <1>2, <1>3, <1>4, <1>9, HandlerFields, StreamFrame
<1>10. QED BY <1>6, <1>7, <1>8, <1>9

LEMMA SaveApprovalKeeps ==
  ASSUME LinkInv, NEW h \in Handlers, SaveApproval(h), UNCHANGED phoneVars PROVE LinkInv'
<1>1. /\ handlers[h].pc = "save" /\ approval' = handlers[h].rec /\ saved' = saved \cup {handlers[h].rec}
      /\ handlers' = [handlers EXCEPT ![h] = Replying]
      /\ UNCHANGED <<serviceVars, secret, identity, minted, cli, commands>>
  BY DEF SaveApproval
<1>2. handlers[h].rec \in Approvals /\ saved \subseteq Approvals
  BY <1>1, HandlerFields DEF HandlerFits, LinkInv, TypeOK, CliTypeOK
<1>3. QED BY <1>1, <1>2, HandlerFields, StreamFrame

\* The reply goes out: what the phone makes of it is a step of its own.
LEMMA RepliedKeeps ==
  ASSUME LinkInv, NEW h \in Handlers, Replied(h), UNCHANGED phoneVars PROVE LinkInv'
<1>1. /\ handlers' = [handlers EXCEPT ![h] = IdleHandler]
      /\ UNCHANGED <<serviceVars, files, cli, commands>>
  BY DEF Replied
<1>2. approval \in saved \cup {NoApproval} /\ saved \subseteq Approvals
  BY DEF LinkInv, TypeOK, CliTypeOK
<1>3. QED BY <1>1, <1>2, HandlerFields, StreamFrame

LEMMA CliKeeps ==
  ASSUME LinkInv, CliStep, UNCHANGED phoneVars PROVE LinkInv'
BY CliStopsKeeps, BeginCommandKeeps, FirstCommandKeeps, WriteIdentityKeeps, RotateSecretKeeps,
   RotateIdentityKeeps, ClearApprovalKeeps, AskStatusKeeps, LookKeeps, LoadFirstKeeps, FreeFirstKeeps,
   LoadPendingKeeps, CheckApprovalKeeps, SaveApprovalKeeps, RepliedKeeps DEF CliStep

(***************************************************************************)
(* The phone.                                                              *)
(***************************************************************************)
SlotTypes == [rec : Approvals \cup {NoApproval}, acknowledged : BOOLEAN,
              apiStatus : {"none"} \cup Statuses, historicallyAdded : BOOLEAN, submitted : BOOLEAN]
FlowTypes == [pc : Refreshes \cup {"new", "sign", "send", "sent", "mark", "submit", "done"},
              op : {"add", "remove"}, key : Keys \cup {NoKey}, rec : Approvals \cup {NoApproval}]
CallTypes == [by : Flows \cup {NoFlow}, answer : {"missing", "unknown"} \cup Statuses]

LEMMA PhoneFields ==
  ASSUME LinkInv
  PROVE  /\ slot \in SlotTypes /\ call \in CallTypes /\ flows \in [Flows -> FlowTypes]
         /\ slot.submitted => slot.acknowledged
         /\ slot.rec \in Approvals \cup {NoApproval} /\ slot.apiStatus \in {"none"} \cup Statuses
         /\ slot.acknowledged \in BOOLEAN /\ slot.historicallyAdded \in BOOLEAN /\ slot.submitted \in BOOLEAN
         /\ call.answer \in {"missing", "unknown"} \cup Statuses
         /\ phoneView \in Accounts /\ account \in Accounts
         /\ NoCall \in CallTypes /\ NoCall.answer = "unknown" /\ NoCall.by = NoFlow
<1>1. /\ slot \in SlotTypes /\ call \in CallTypes /\ flows \in [Flows -> FlowTypes]
      /\ slot.submitted => slot.acknowledged
  BY DEF LinkInv, TypeOK, PhoneTypeOK, SlotTypes, CallTypes, FlowTypes
<1>2. /\ slot.rec \in Approvals \cup {NoApproval} /\ slot.apiStatus \in {"none"} \cup Statuses
      /\ slot.acknowledged \in BOOLEAN /\ slot.historicallyAdded \in BOOLEAN /\ slot.submitted \in BOOLEAN
  BY <1>1 DEF SlotTypes
<1>3. call.answer \in {"missing", "unknown"} \cup Statuses
  BY <1>1 DEF CallTypes
<1>4. phoneView \in Accounts /\ account \in Accounts
  BY DEF LinkInv, TypeOK, ServiceTypeOK
<1>5. NoCall \in CallTypes /\ NoCall.answer = "unknown" /\ NoCall.by = NoFlow
  BY DEF NoCall, CallTypes
<1>6. QED BY <1>1, <1>2, <1>3, <1>4, <1>5

\* A flow that follows the stored action carries nothing of its own.
LEMMA Followed ==
  ASSUME LinkInv, NEW f \in Flows, NEW pc \in {"poll", "submit", "done"}
  PROVE  LET x == [NewFlow EXCEPT !.pc = pc]
         IN  x \in FlowTypes /\ x.pc = pc /\ x.rec = NoApproval /\ x.key = NoKey
BY DEF NewFlow, FlowTypes, Refreshes

\* A flow that goes on with what it has.
LEMMA FlowGoes ==
  ASSUME LinkInv, NEW f \in Flows,
         NEW pc \in Refreshes \cup {"new", "sign", "send", "sent", "mark", "submit", "done"},
         NEW rec \in Approvals \cup {NoApproval}
  PROVE  LET x == [flows[f] EXCEPT !.pc = pc, !.rec = rec]
         IN  /\ x \in FlowTypes /\ x.pc = pc /\ x.rec = rec /\ x.key = flows[f].key /\ x.op = flows[f].op
             /\ [flows EXCEPT ![f].pc = pc, ![f].rec = rec] = [flows EXCEPT ![f] = x]
             /\ rec = flows[f].rec => [flows EXCEPT ![f].pc = pc] = [flows EXCEPT ![f] = x]
             /\ flows[f].key \in Keys \cup {NoKey} /\ flows[f].op \in {"add", "remove"}
             /\ flows[f].rec \in Approvals \cup {NoApproval}
<1> DEFINE x == [flows[f] EXCEPT !.pc = pc, !.rec = rec]
<1>1. flows \in [Flows -> FlowTypes] /\ flows[f] \in FlowTypes
  BY PhoneFields
<1>2. /\ x \in FlowTypes /\ x.pc = pc /\ x.rec = rec /\ x.key = flows[f].key /\ x.op = flows[f].op
      /\ flows[f].key \in Keys \cup {NoKey} /\ flows[f].op \in {"add", "remove"}
      /\ flows[f].rec \in Approvals \cup {NoApproval}
  BY <1>1 DEF FlowTypes
<1>3. [flows EXCEPT ![f].pc = pc, ![f].rec = rec] = [flows EXCEPT ![f] = x]
  BY <1>1
<1>4. rec = flows[f].rec => [flows EXCEPT ![f].pc = pc] = [flows EXCEPT ![f] = x]
  <2>1. rec = flows[f].rec => [flows[f] EXCEPT !.pc = pc] = x
    BY <1>1 DEF FlowTypes
  <2>2. QED BY <1>1, <2>1
<1>5. QED BY <1>2, <1>3, <1>4

LEMMA SamePlace ==
  ASSUME LinkInv, NEW f \in Flows, NEW pc
  PROVE  /\ flows \in [Flows -> FlowTypes] /\ flows[f] \in FlowTypes
         /\ flows[f].op \in {"add", "remove"}
         /\ [flows EXCEPT ![f].pc = pc] = [flows EXCEPT ![f].pc = pc, ![f].rec = flows[f].rec]
<1>1. flows \in [Flows -> FlowTypes] /\ flows[f] \in FlowTypes
  BY PhoneFields
<1>2. [flows[f] EXCEPT !.pc = pc] = [flows[f] EXCEPT !.pc = pc, !.rec = flows[f].rec]
  BY <1>1 DEF FlowTypes
<1>3. QED BY <1>1, <1>2 DEF FlowTypes

\* A step of one flow that leaves the approval that is stored.
LEMMA FlowFrame ==
  ASSUME LinkInv, NEW f \in Flows, NEW x \in FlowTypes, flows' = [flows EXCEPT ![f] = x],
         UNCHANGED <<serviceVars, cliVars>>,
         slot' \in SlotTypes, call' \in CallTypes, slot'.submitted => slot'.acknowledged,
         slot'.rec = slot.rec, SlotTold', call'.by \in {f, NoFlow},
         x.rec \in {flows[f].rec, slot.rec, NoApproval}, x.key \in {flows[f].key, NoKey},
         FlowFits(f)', x.pc = "send" /\ Alive(x.rec) => x.rec = slot.rec
  PROVE  LinkInv'
<1>1. /\ flows' \in [Flows -> FlowTypes] /\ flows'[f] = x
      /\ \A g \in Flows : g # f => flows'[g] = flows[g]
  BY PhoneFields
<1>2. TypeOK'
  <2>1. PhoneTypeOK' BY <1>1 DEF PhoneTypeOK, SlotTypes, FlowTypes, CallTypes
  <2>2. ServiceTypeOK' /\ CliTypeOK' BY DEF LinkInv, TypeOK, ServiceTypeOK, CliTypeOK
  <2>3. QED BY <2>1, <2>2 DEF TypeOK
<1>3. Behind(phoneView)' /\ Behind(cliView)' /\ SubmittedIsSaved' /\ CliFits'
  BY DEF LinkInv, Behind, SubmittedIsSaved, CliFits, Up
<1>4. \A g \in Flows : FlowFits(g)' /\ HandlerFits(g)'
  BY <1>1, FlowAssumption DEF LinkInv, FlowFits, HandlerFits
<1>5. Recs' \subseteq Recs
  BY <1>1 DEF Recs
<1>6. RecsFit'
  BY <1>5 DEF LinkInv, RecsFit
<1>7. KeysTold'
  <2>1. \A k \in Keys : Seen(k)' => Seen(k)
    BY <1>1, <1>5, ServiceAssumption DEF Seen
  <2>2. secret # identity => secret \in Keys
    BY CliFields
  <2>3. QED BY <2>1, <2>2 DEF LinkInv, KeysTold
<1>8. OutIsStored'
  <2>1. Out' = Out BY DEF Out
  <2>2. \A d : Alive(d)' <=> Alive(d)
    BY DEF Alive, Executable, Expired
  <2>3. ASSUME NEW g \in Flows, At(g, "send")', Alive(flows[g].rec)' PROVE flows'[g].rec = slot'.rec
    BY <1>1, <2>2, <2>3 DEF LinkInv, OutIsStored, At
  <2>4. QED BY <2>1, <2>2, <2>3 DEF LinkInv, OutIsStored
<1>9. QED BY <1>2, <1>3, <1>4, <1>6, <1>7, <1>8 DEF LinkInv

\* What a refresh writes was so.
LEMMA RefreshFits ==
  ASSUME LinkInv
  PROVE  /\ Refreshed \in SlotTypes /\ Refreshed.rec = slot.rec /\ Told(Refreshed)
         /\ Refreshed.acknowledged = slot.acknowledged /\ Refreshed.submitted = slot.submitted
<1>1. CASE ~Stored
  BY <1>1, PhoneFields DEF Refreshed, LinkInv, SlotTold
<1>2. CASE Stored
  <2> DEFINE status == IF call.answer \in Statuses THEN call.answer ELSE slot.apiStatus
             added == Historically(slot.rec.key \in phoneView.active)
             x == [slot EXCEPT !.apiStatus = status, !.historicallyAdded = added]
  <2>1. status \in {"none"} \cup Statuses /\ added \in BOOLEAN
    BY PhoneFields DEF Historically
  <2>2. status \in Terminal => IsAt(slot.rec, status)
    BY DEF LinkInv, SlotTold, Told
  <2>3. added => slot.rec.key \in phoneView.active \cup phoneView.removed
    BY DEF LinkInv, SlotTold, Told, Historically
  <2>4. Refreshed = x
    BY <1>2, PhoneFields DEF Refreshed, SlotTypes
  <2> HIDE DEF status, added
  <2>5. /\ x \in SlotTypes /\ x.rec = slot.rec /\ x.acknowledged = slot.acknowledged
        /\ x.submitted = slot.submitted /\ x.apiStatus = status /\ x.historicallyAdded = added
    BY <2>1, PhoneFields DEF SlotTypes
  <2> HIDE DEF x
  <2>6. Told(x)
    BY <1>2, <2>2, <2>3, <2>5 DEF LinkInv, SlotTold, Told, Stored
  <2>7. QED BY <2>4, <2>5, <2>6
<1>3. QED BY <1>1, <1>2

\* A key the phone calls removed is removed, one that it calls linked or removed was added.
LEMMA MembershipTells ==
  ASSUME LinkInv, Stored
  PROVE  /\ SlotMembership = "removed" => slot.rec.key \in account.removed
         /\ SlotMembership # "pending" => slot.rec.key \in account.active \cup account.removed
<1>1. Refreshed.historicallyAdded => slot.rec.key \in phoneView.active \cup phoneView.removed
  BY RefreshFits DEF Told
<1>2. phoneView.removed \subseteq account.removed
      /\ phoneView.active \cup phoneView.removed \subseteq account.active \cup account.removed
  BY DEF LinkInv, Behind, Grows
<1>3. SlotMembership = "removed" => slot.rec.key \notin phoneView.active /\ Refreshed.historicallyAdded
  BY DEF SlotMembership, Membership
<1>4. SlotMembership # "pending" => slot.rec.key \in phoneView.active \/ Refreshed.historicallyAdded
  BY DEF SlotMembership, Membership
<1>5. QED BY <1>1, <1>2, <1>3, <1>4

\* An approval is put out of its place only when it can never be executed again.
LEMMA FreedIsDead ==
  ASSUME LinkInv, Stored, NEW time \in Times, ~Pending(time)
  PROVE  ~Alive(slot.rec)
<1> DEFINE d == slot.rec
<1>1. d \in Approvals /\ d.deadline \in Nat /\ d.op \in {"add", "remove"}
  BY PhoneFields, ServiceAssumption DEF Stored, Approvals
<1>2. ~Occupies(d, call.answer, Refreshed.apiStatus, time, SlotMembership)
  BY DEF Pending
<1>3. CASE Refreshed.apiStatus \in Terminal
  <2>1. IsAt(d, Refreshed.apiStatus)
    BY <1>3, RefreshFits DEF Told
  <2>2. QED BY <1>3, <2>1 DEF IsAt, Alive, Terminal
<1>4. CASE time # Unknown /\ ExpiredFor(d, time)
  <2>1. time = phoneView.time /\ phoneView.time \in Nat /\ account.time \in Nat
    BY <1>4, PhoneFields, AccountFields DEF Times
  <2>2. phoneView.time <= account.time /\ phoneView.time > d.deadline
    BY <1>4, <2>1 DEF LinkInv, Behind, Grows, ExpiredFor
  <2>3. QED BY <1>1, <2>1, <2>2 DEF Alive, Executable, Expired
<1>5. CASE d.op = "remove" /\ SlotMembership = "removed"
  <2>1. d.key \notin account.active
    BY <1>5, MembershipTells DEF LinkInv, TypeOK, ServiceTypeOK
  <2>2. QED BY <1>5, <2>1 DEF Alive, Executable
<1>6. CASE d.op = "add" /\ SlotMembership # "pending"
  BY <1>6, MembershipTells DEF Alive, Executable
<1>7. QED BY <1>1, <1>2, <1>3, <1>4, <1>5, <1>6 DEF Occupies

\* What the API says is final is so.
LEMMA AnswerTells ==
  ASSUME NEW d
  PROVE  /\ Answer(d) \in {"missing"} \cup Statuses
         /\ Answer(d) \in Terminal => IsAt(d, Answer(d))
<1>1. CASE d \notin DOMAIN rows
  <2>1. Answer(d) = "missing" BY <1>1 DEF Answer
  <2>2. QED BY <2>1 DEF Terminal
<1>2. CASE d \in DOMAIN rows /\ rows[d] \in Terminal
  <2>1. Answer(d) = rows[d] BY <1>2 DEF Answer
  <2>2. QED BY <1>2, <2>1 DEF IsAt, Terminal, Statuses
<1>3. CASE d \in DOMAIN rows /\ rows[d] \notin Terminal
  <2>1. Answer(d) = "active" BY <1>3 DEF Answer
  <2>2. QED BY <2>1 DEF Terminal, Statuses
<1>4. QED BY <1>1, <1>2, <1>3

LEMMA AskKeeps ==
  ASSUME LinkInv, NEW f \in Flows, Ask(f), UNCHANGED cliVars PROVE LinkInv'
<1>1. PICK answer \in {Answer(slot.rec), "unknown"} : call' = [by |-> f, answer |-> answer]
  BY DEF Ask
<1>2. UNCHANGED <<serviceVars, slot, flows>>
  BY DEF Ask
<1>3. answer \in {"missing", "unknown"} \cup Statuses /\ (answer \in Terminal => IsAt(slot.rec, answer))
  BY AnswerTells DEF Terminal
<1>4. call' \in CallTypes /\ call'.answer = answer /\ call'.by = f
  BY <1>1, <1>3 DEF CallTypes
<1>5. SlotTold'
  BY <1>2, <1>3, <1>4 DEF LinkInv, SlotTold, Told, IsAt
<1>6. flows[f] \in FlowTypes /\ flows' = [flows EXCEPT ![f] = flows[f]]
  BY <1>2, PhoneFields
<1>7. FlowFits(f)'
  <2>1. flows[f].pc # "submit" BY DEF Ask, Refreshes
  <2>2. QED BY <1>2, <2>1 DEF LinkInv, FlowFits
<1>8. flows[f].pc = "send" /\ Alive(flows[f].rec) => flows[f].rec = slot.rec
  BY DEF LinkInv, OutIsStored, At
<1>9. QED BY <1>2, <1>4, <1>5, <1>6, <1>7, <1>8, PhoneFields, FlowFrame

\* The call is over, and the stored action is the same approval.
LEMMA UnlockTold ==
  ASSUME LinkInv, NEW x \in SlotTypes, Told(x), x.rec = slot.rec, slot' = x,
         call' = NoCall \/ call' = call, call'.by = NoFlow,
         UNCHANGED <<serviceVars, cliVars>>
  PROVE  SlotTold'
<1>1. Told(slot)'
  BY DEF Told, IsAt
<1>2. call'.answer \in Terminal => call' = call
  BY PhoneFields DEF Terminal
<1>3. (call.answer \in Terminal => IsAt(slot.rec, call.answer))'
  BY <1>2 DEF LinkInv, SlotTold, IsAt
<1>4. QED BY <1>1, <1>3 DEF SlotTold

\* A flow that goes on with the stored action, or ends.
LEMMA FollowKeeps ==
  ASSUME LinkInv, NEW f \in Flows, NEW pc \in {"poll", "submit", "done"}, Follow(f, pc),
         NEW x \in SlotTypes, Told(x), x.rec = slot.rec, slot' = x, x.submitted => x.acknowledged,
         call' = NoCall \/ call' = call, call'.by = NoFlow,
         UNCHANGED <<serviceVars, cliVars>>
  PROVE  LinkInv'
<1> DEFINE y == [NewFlow EXCEPT !.pc = pc]
<1>1. y \in FlowTypes /\ y.pc = pc /\ y.rec = NoApproval /\ y.key = NoKey
  BY Followed
<1>2. flows' = [flows EXCEPT ![f] = y]
  BY DEF Follow
<1> HIDE DEF y
<1>3. flows'[f] = y
  BY <1>2, PhoneFields
<1>4. FlowFits(f)'
  BY <1>1, <1>3, FlowAssumption DEF FlowFits, Carries
<1>5. SlotTold' /\ call' \in CallTypes
  BY UnlockTold, PhoneFields
<1>6. QED BY <1>1, <1>2, <1>4, <1>5, FlowFrame

\* A flow that goes on by itself, with the approval it has or with the stored one.
LEMMA GotoKeeps ==
  ASSUME LinkInv, NEW f \in Flows, NEW pc \in {"sign", "persist", "send"},
         NEW rec \in {flows[f].rec, slot.rec},
         flows' = [flows EXCEPT ![f].pc = pc, ![f].rec = rec],
         NEW x \in SlotTypes, Told(x), x.rec = slot.rec, slot' = x, x.submitted => x.acknowledged,
         call' = NoCall \/ call' = call, call'.by = NoFlow,
         UNCHANGED <<serviceVars, cliVars>>,
         flows[f].key \in Keys,
         pc \in Carries => rec \in Approvals /\ rec.op = flows[f].op /\ rec.key = flows[f].key,
         pc = "send" => flows[f].op = "add" /\ rec = slot.rec
  PROVE  LinkInv'
<1> DEFINE y == [flows[f] EXCEPT !.pc = pc, !.rec = rec]
<1>1. /\ rec \in Approvals \cup {NoApproval}
      /\ pc \in Refreshes \cup {"new", "sign", "send", "sent", "mark", "submit", "done"}
  <2>1. slot.rec \in Approvals \cup {NoApproval} /\ flows \in [Flows -> FlowTypes]
    BY PhoneFields
  <2>2. flows[f].rec \in Approvals \cup {NoApproval}
    BY <2>1 DEF FlowTypes
  <2>3. QED BY <2>1, <2>2 DEF Refreshes
<1>2. /\ y \in FlowTypes /\ y.pc = pc /\ y.rec = rec /\ y.key = flows[f].key /\ y.op = flows[f].op
      /\ flows' = [flows EXCEPT ![f] = y]
  <2>1. flows \in [Flows -> FlowTypes] /\ flows[f] \in FlowTypes
    BY PhoneFields
  <2>2. y \in FlowTypes /\ y.pc = pc /\ y.rec = rec /\ y.key = flows[f].key /\ y.op = flows[f].op
    BY <1>1, <2>1 DEF FlowTypes
  <2>3. QED BY <2>1, <2>2
<1> HIDE DEF y
<1>3. flows'[f] = y
  BY <1>2, PhoneFields
<1>4. FlowFits(f)'
  BY <1>2, <1>3, FlowAssumption DEF FlowFits, Carries
<1>5. SlotTold' /\ call' \in CallTypes
  BY UnlockTold, PhoneFields
<1>6. QED BY <1>2, <1>4, <1>5, FlowFrame

LEMMA SlotAsIs == ASSUME LinkInv PROVE slot \in SlotTypes /\ Told(slot)
BY PhoneFields DEF LinkInv, SlotTold

LEMMA ResumeKeeps ==
  ASSUME LinkInv, NEW f \in Flows, Resume(f), UNCHANGED cliVars PROVE LinkInv'
<1> DEFINE same == Stored /\ slot.rec.op = flows[f].op /\ slot.rec.key = flows[f].key
<1>1. /\ flows[f].pc = "resume" /\ call' = NoCall /\ call'.by = NoFlow
      /\ slot' = Refreshed /\ UNCHANGED serviceVars
  BY PhoneFields DEF Resume, Answered, At, Unlock
<1>2. PICK time \in Times :
        CASE same /\ flows[f].op = "add" /\ SlotMembership = "linked" -> Follow(f, "poll")
          [] same /\ Pending(time) -> flows' = [flows EXCEPT ![f].pc = "persist", ![f].rec = slot.rec]
          [] OTHER -> Goto(f, "sign")
  BY DEF Resume
<1>3. flows[f].key \in Keys
  BY <1>1 DEF LinkInv, FlowFits
<1>4. Refreshed \in SlotTypes /\ Told(Refreshed) /\ Refreshed.rec = slot.rec
      /\ (Refreshed.submitted => Refreshed.acknowledged)
  BY RefreshFits, PhoneFields
<1>5. CASE Follow(f, "poll")
  BY <1>1, <1>4, <1>5, FollowKeeps
<1>6. CASE same /\ flows' = [flows EXCEPT ![f].pc = "persist", ![f].rec = slot.rec]
  <2>1. slot.rec \in Approvals
    BY <1>6, PhoneFields DEF Stored
  <2>2. QED BY <1>1, <1>3, <1>4, <1>6, <2>1, GotoKeeps
<1>7. CASE Goto(f, "sign")
  <2>1. flows' = [flows EXCEPT ![f].pc = "sign", ![f].rec = flows[f].rec]
    BY <1>7, SamePlace DEF Goto
  <2>2. QED BY <1>1, <1>3, <1>4, <2>1, GotoKeeps DEF Carries
<1>8. Follow(f, "poll") \/ (same /\ flows' = [flows EXCEPT ![f].pc = "persist", ![f].rec = slot.rec])
      \/ Goto(f, "sign")
  <2> DEFINE a == same /\ flows[f].op = "add" /\ SlotMembership = "linked"
             b == same /\ Pending(time)
  <2>1. CASE a BY <1>2, <2>1
  <2>2. CASE ~a /\ b BY <1>2, <2>2
  <2>3. CASE ~a /\ ~b BY <1>2, <2>3
  <2>4. QED BY <2>1, <2>2, <2>3
<1>9. QED BY <1>5, <1>6, <1>7, <1>8

\* The approval the phone has stored is replaced: nothing else that is out can be executed.
LEMMA ReplaceKeeps ==
  ASSUME LinkInv, NEW f \in Flows, flows[f].pc = "persist", flows[f].rec # slot.rec,
         Stored => ~Alive(slot.rec),
         slot' = [EmptySlot EXCEPT !.rec = flows[f].rec, !.acknowledged = (flows[f].op = "remove")],
         call' = NoCall,
         IF flows[f].op = "add" THEN Goto(f, "send") ELSE Follow(f, "submit"),
         UNCHANGED <<serviceVars, cliVars>>
  PROVE  LinkInv'
<1> DEFINE r == flows[f].rec
<1>1. /\ r \in Approvals /\ r.op = flows[f].op /\ r.key = flows[f].key /\ flows[f].key \in Keys
      /\ flows[f].op \in {"add", "remove"} /\ flows \in [Flows -> FlowTypes] /\ flows[f] \in FlowTypes
  <2>1. FlowFits(f) BY DEF LinkInv
  <2>2. QED BY <2>1, SamePlace DEF FlowFits, Carries
<1>2. /\ slot' \in SlotTypes /\ slot'.rec = r /\ (slot'.acknowledged <=> flows[f].op = "remove")
      /\ slot'.apiStatus = "none" /\ slot'.historicallyAdded = FALSE /\ slot'.submitted = FALSE
  <2>1. ASSUME NEW ack \in BOOLEAN
        PROVE  LET x == [EmptySlot EXCEPT !.rec = r, !.acknowledged = ack]
               IN  /\ x \in SlotTypes /\ x.rec = r /\ x.acknowledged = ack
                   /\ x.apiStatus = "none" /\ x.historicallyAdded = FALSE /\ x.submitted = FALSE
    BY <1>1 DEF EmptySlot, SlotTypes
  <2>2. (flows[f].op = "remove") \in BOOLEAN OBVIOUS
  <2>3. QED BY <2>1, <2>2
<1>3. PICK x \in FlowTypes :
        /\ flows' = [flows EXCEPT ![f] = x]
        /\ \/ x.pc = "send" /\ x.rec = r /\ x.key = flows[f].key /\ x.op = "add" /\ flows[f].op = "add"
           \/ x.pc = "submit" /\ x.rec = NoApproval /\ x.key = NoKey
  <2>1. CASE flows[f].op = "add"
    <3> DEFINE y == [flows[f] EXCEPT !.pc = "send"]
    <3>1. y \in FlowTypes /\ y.pc = "send" /\ y.rec = r /\ y.key = flows[f].key /\ y.op = flows[f].op
      BY <1>1 DEF FlowTypes
    <3>2. flows' = [flows EXCEPT ![f] = y]
      BY <1>1, <2>1 DEF Goto
    <3> HIDE DEF y
    <3>3. QED BY <2>1, <3>1, <3>2
  <2>2. CASE flows[f].op # "add"
    BY <2>2, Followed DEF Follow
  <2>3. QED BY <2>1, <2>2
<1>4. /\ flows' \in [Flows -> FlowTypes] /\ flows'[f] = x
      /\ \A g \in Flows : g # f => flows'[g] = flows[g]
  BY <1>1, <1>3
<1> HIDE DEF r
<1>5. TypeOK'
  <2>1. PhoneTypeOK'
    <3>1. call' \in CallTypes BY PhoneFields
    <3>2. QED BY <1>2, <1>4, <3>1 DEF PhoneTypeOK, SlotTypes, FlowTypes, CallTypes
  <2>2. ServiceTypeOK' /\ CliTypeOK' BY DEF LinkInv, TypeOK, ServiceTypeOK, CliTypeOK
  <2>3. QED BY <2>1, <2>2 DEF TypeOK
<1>6. Behind(phoneView)' /\ Behind(cliView)' /\ SubmittedIsSaved' /\ CliFits'
  BY DEF LinkInv, Behind, SubmittedIsSaved, CliFits, Up
<1>7. SlotTold'
  <2>1. r # NoApproval /\ (flows[f].op = "remove" => r.op # "add")
    BY <1>1, NothingAssumption DEF r
  <2>2. Told(slot)'
    BY <1>2, <2>1 DEF Told, Terminal
  <2>3. call'.answer \notin Terminal
    BY PhoneFields DEF Terminal
  <2>4. QED BY <2>2, <2>3 DEF SlotTold
<1>8. \A g \in Flows : FlowFits(g)' /\ HandlerFits(g)'
  <2>0. call'.by = NoFlow BY PhoneFields
  <2>1. FlowFits(f)'
    BY <1>1, <1>3, <1>4, <2>0, FlowAssumption DEF FlowFits, Carries, r
  <2>2. \A g \in Flows : g # f => FlowFits(g)'
    BY <1>4, <2>0, FlowAssumption DEF LinkInv, FlowFits
  <2>3. \A g \in Flows : HandlerFits(g)'
    BY DEF LinkInv, HandlerFits
  <2>4. QED BY <2>1, <2>2, <2>3
<1>9. Recs' \subseteq Recs
  <2>1. slot'.rec \in Recs
    BY <1>1, <1>2, NothingAssumption DEF Recs, r
  <2>2. \A g \in Flows : flows'[g].rec \in {flows[g].rec, NoApproval}
    BY <1>3, <1>4 DEF r
  <2>3. QED BY <2>1, <2>2 DEF Recs
<1>10. RecsFit'
  BY <1>9 DEF LinkInv, RecsFit
<1>11. KeysTold'
  <2>1. \A k \in Keys : Seen(k)' => Seen(k)
    BY <1>3, <1>4, <1>9, ServiceAssumption DEF Seen
  <2>2. secret # identity => secret \in Keys
    BY CliFields
  <2>3. QED BY <2>1, <2>2 DEF LinkInv, KeysTold
<1>12. OutIsStored'
  <2>1. \A d : Alive(d)' <=> Alive(d)
    BY DEF Alive, Executable, Expired
  <2>2. Out' \subseteq Out \cup {r}
    BY <1>2 DEF Out
  <2>3. ASSUME NEW d \in Out PROVE ~Alive(d)
    <3>1. d # NoApproval BY DEF Out
    <3>2. QED BY <3>1 DEF LinkInv, OutIsStored, Stored
  <2>4. ASSUME NEW g \in Flows, At(g, "send")', Alive(flows[g].rec)' PROVE flows'[g].rec = r
    <3>1. CASE g = f BY <1>3, <1>4, <2>4, <3>1 DEF At
    <3>2. CASE g # f
      <4>1. flows[g].pc = "send" /\ Alive(flows[g].rec)
        BY <1>4, <2>1, <2>4, <3>2 DEF At
      <4>2. flows[g].rec = slot.rec /\ flows[g].rec \in Approvals
        BY <4>1 DEF LinkInv, OutIsStored, At, FlowFits, Carries
      <4>3. QED BY <4>1, <4>2, NothingAssumption DEF Stored
    <3>3. QED BY <3>1, <3>2
  <2>5. QED BY <1>2, <2>1, <2>2, <2>3, <2>4 DEF OutIsStored
<1>13. QED BY <1>5, <1>6, <1>7, <1>8, <1>10, <1>11, <1>12 DEF LinkInv

LEMMA PersistKeeps ==
  ASSUME LinkInv, NEW f \in Flows, Persist(f), UNCHANGED cliVars PROVE LinkInv'
<1>1. flows[f].pc = "persist" /\ call' = NoCall /\ call'.by = NoFlow /\ UNCHANGED serviceVars
  BY PhoneFields DEF Persist, Answered, At, Unlock
<1>2. PICK time \in Times :
        IF Pending(time) /\ slot.rec # flows[f].rec
        THEN slot' = Refreshed /\ End(f)
        ELSE /\ slot' = Incoming(flows[f].rec, flows[f].op = "remove")
             /\ IF flows[f].op = "add" THEN Goto(f, "send") ELSE Follow(f, "submit")
  BY DEF Persist
<1>3. /\ Refreshed \in SlotTypes /\ Told(Refreshed) /\ Refreshed.rec = slot.rec
      /\ (Refreshed.submitted => Refreshed.acknowledged)
  BY RefreshFits, PhoneFields
<1>4. /\ flows[f].rec \in Approvals /\ flows[f].rec.op = flows[f].op /\ flows[f].rec.key = flows[f].key
      /\ flows[f].key \in Keys
  BY <1>1 DEF LinkInv, FlowFits, Carries
<1>5. CASE Pending(time) /\ slot.rec # flows[f].rec
  BY <1>1, <1>2, <1>3, <1>5, FollowKeeps DEF End
<1>6. CASE slot.rec = flows[f].rec
  <2> DEFINE x == [Refreshed EXCEPT !.acknowledged = @ \/ (flows[f].op = "remove")]
  <2>1. slot' = x /\ IF flows[f].op = "add" THEN Goto(f, "send") ELSE Follow(f, "submit")
    BY <1>2, <1>6 DEF Incoming
  <2>2. Refreshed.acknowledged \in BOOLEAN
    BY <1>3 DEF SlotTypes
  <2>3. ASSUME NEW ack \in BOOLEAN
        PROVE  LET y == [Refreshed EXCEPT !.acknowledged = ack]
               IN  /\ y \in SlotTypes /\ y.acknowledged = ack /\ y.rec = Refreshed.rec
                   /\ y.submitted = Refreshed.submitted /\ y.apiStatus = Refreshed.apiStatus
                   /\ y.historicallyAdded = Refreshed.historicallyAdded
    BY <1>3 DEF SlotTypes
  <2>4. (Refreshed.acknowledged \/ (flows[f].op = "remove")) \in BOOLEAN
    BY <2>2
  <2>5. /\ x \in SlotTypes /\ (x.acknowledged <=> Refreshed.acknowledged \/ flows[f].op = "remove")
        /\ x.rec = slot.rec /\ x.submitted = Refreshed.submitted /\ x.apiStatus = Refreshed.apiStatus
        /\ x.historicallyAdded = Refreshed.historicallyAdded
    BY <1>3, <2>3, <2>4
  <2> HIDE DEF x
  <2>6. Told(x) /\ (x.submitted => x.acknowledged)
    BY <1>3, <1>4, <1>6, <2>5, NothingAssumption DEF Told
  <2>7. CASE flows[f].op = "add"
    <3>1. flows' = [flows EXCEPT ![f].pc = "send", ![f].rec = flows[f].rec]
      BY <2>1, <2>7, SamePlace DEF Goto
    <3>2. QED BY <1>1, <1>4, <1>6, <2>1, <2>5, <2>6, <2>7, <3>1, GotoKeeps
  <2>8. CASE flows[f].op # "add"
    BY <1>1, <2>1, <2>5, <2>6, <2>8, FollowKeeps
  <2>9. QED BY <2>7, <2>8
<1>7. CASE ~Pending(time) /\ slot.rec # flows[f].rec
  <2>1. /\ slot' = [EmptySlot EXCEPT !.rec = flows[f].rec, !.acknowledged = (flows[f].op = "remove")]
        /\ IF flows[f].op = "add" THEN Goto(f, "send") ELSE Follow(f, "submit")
    BY <1>2, <1>7 DEF Incoming
  <2>2. Stored => ~Alive(slot.rec)
    BY <1>7, FreedIsDead
  <2>3. QED BY <1>1, <1>7, <2>1, <2>2, ReplaceKeeps
<1>8. QED BY <1>5, <1>6, <1>7

LEMMA MarkKeeps ==
  ASSUME LinkInv, NEW f \in Flows, Mark(f), UNCHANGED cliVars PROVE LinkInv'
<1>1. flows[f].pc = "mark" /\ call'.by = NoFlow /\ UNCHANGED <<serviceVars, call>>
  BY DEF Mark, At
<1>2. flows[f].rec \in Approvals /\ flows[f].rec \in saved
  BY <1>1 DEF LinkInv, FlowFits, Carries
<1>3. CASE slot.rec = flows[f].rec
  <2> DEFINE x == [slot EXCEPT !.acknowledged = TRUE]
  <2>1. /\ x \in SlotTypes /\ x.acknowledged = TRUE /\ x.rec = slot.rec /\ x.apiStatus = slot.apiStatus
        /\ x.historicallyAdded = slot.historicallyAdded
    BY PhoneFields DEF SlotTypes
  <2>2. slot' = x /\ Follow(f, "submit")
    BY <1>3 DEF Mark
  <2> HIDE DEF x
  <2>3. Told(x)
    BY <1>2, <1>3, <2>1, SlotAsIs, NothingAssumption DEF Told
  <2>4. QED BY <1>1, <2>1, <2>2, <2>3, FollowKeeps
<1>4. CASE slot.rec # flows[f].rec
  BY <1>1, <1>4, SlotAsIs, PhoneFields, FollowKeeps DEF Mark, End
<1>5. QED BY <1>3, <1>4

\* What the API answered is written down.
LEMMA StatusKeeps ==
  ASSUME LinkInv, NEW f \in Flows, Follow(f, "poll"), NEW status \in Statuses \cup {slot.apiStatus},
         status \in Terminal => IsAt(slot.rec, status), NEW sub \in BOOLEAN, sub => slot.acknowledged,
         slot' = [slot EXCEPT !.apiStatus = status, !.submitted = sub],
         call' = NoCall \/ call' = call, call'.by = NoFlow, UNCHANGED <<serviceVars, cliVars>>
  PROVE  LinkInv'
<1> DEFINE x == [slot EXCEPT !.apiStatus = status, !.submitted = sub]
<1>1. /\ x \in SlotTypes /\ x.acknowledged = slot.acknowledged /\ x.rec = slot.rec /\ x.apiStatus = status
      /\ x.historicallyAdded = slot.historicallyAdded /\ x.submitted = sub
  BY PhoneFields DEF SlotTypes
<1>2. slot' = x OBVIOUS
<1> HIDE DEF x
<1>3. Told(x)
  BY <1>1, SlotAsIs DEF Told
<1>4. QED BY <1>1, <1>2, <1>3, FollowKeeps

LEMMA PostedKeeps ==
  ASSUME LinkInv, NEW f \in Flows, Posted(f), UNCHANGED cliVars PROVE LinkInv'
<1>1. slot.acknowledged
  BY DEF Posted, Answered, At, LinkInv, FlowFits
<1>2. call' = NoCall /\ call'.by = NoFlow
  BY PhoneFields DEF Posted, Unlock
<1>3. Follow(f, "poll") /\ slot' = [slot EXCEPT !.apiStatus = Answer(slot.rec), !.submitted = TRUE]
      /\ Answer(slot.rec) \in Statuses /\ UNCHANGED serviceVars
  BY DEF Posted, Statuses
<1>4. QED BY <1>1, <1>2, <1>3, AnswerTells, StatusKeeps

LEMMA SubmittedBeforeKeeps ==
  ASSUME LinkInv, NEW f \in Flows, SubmittedBefore(f), UNCHANGED cliVars PROVE LinkInv'
<1>1. PICK status \in {slot.apiStatus, Answer(slot.rec)} \ {"missing"} :
        slot' = [slot EXCEPT !.apiStatus = status]
  BY DEF SubmittedBefore
<1>2. status \in Statuses \cup {slot.apiStatus} /\ (status \in Terminal => IsAt(slot.rec, status))
  BY AnswerTells, SlotAsIs DEF Told
<1>3. slot' = [slot EXCEPT !.apiStatus = status, !.submitted = TRUE] /\ slot.acknowledged
  BY <1>1, PhoneFields DEF SubmittedBefore, SlotTypes
<1>4. Follow(f, "poll") /\ UNCHANGED <<serviceVars, call>> /\ call'.by = NoFlow
  BY DEF SubmittedBefore
<1>5. QED BY <1>2, <1>3, <1>4, StatusKeeps

LEMMA PollKeeps ==
  ASSUME LinkInv, NEW f \in Flows, Poll(f), UNCHANGED cliVars PROVE LinkInv'
<1>1. /\ flows[f].pc = "poll" /\ call' = NoCall /\ call'.by = NoFlow
      /\ slot' = Refreshed /\ UNCHANGED serviceVars
      /\ End(f) \/ UNCHANGED flows
  BY PhoneFields DEF Poll, Answered, At, Unlock
<1>2. /\ Refreshed \in SlotTypes /\ Told(Refreshed) /\ Refreshed.rec = slot.rec
      /\ (Refreshed.submitted => Refreshed.acknowledged)
  BY RefreshFits, PhoneFields
<1>3. CASE End(f)
  BY <1>1, <1>2, <1>3, FollowKeeps DEF End
<1>4. CASE UNCHANGED flows
  <2>1. flows[f] \in FlowTypes /\ flows' = [flows EXCEPT ![f] = flows[f]]
    BY <1>4, PhoneFields
  <2>2. FlowFits(f)'
    BY <1>1, <1>4, FlowAssumption DEF LinkInv, FlowFits
  <2>3. SlotTold' /\ call' \in CallTypes
    BY <1>1, <1>2, UnlockTold, PhoneFields
  <2>4. QED BY <1>1, <1>2, <2>1, <2>2, <2>3, FlowFrame
<1>5. QED BY <1>1, <1>3, <1>4

LEMMA StopKeeps ==
  ASSUME LinkInv, NEW f \in Flows, Stop(f), UNCHANGED cliVars PROVE LinkInv'
<1>1. Follow(f, "done") /\ call' = NoCall /\ call'.by = NoFlow /\ UNCHANGED <<serviceVars, slot>>
  BY PhoneFields DEF Stop, End, Unlock
<1>2. QED BY <1>1, SlotAsIs, PhoneFields, FollowKeeps

\* A flow that begins, or signs: what it is about was seen, or is the key the CLI offers now.
LEMMA NewFlowFrame ==
  ASSUME LinkInv, NEW f \in Flows, NEW x \in FlowTypes, flows' = [flows EXCEPT ![f] = x],
         UNCHANGED <<serviceVars, cliVars, slot, call>>,
         x.key \in Keys, Seen(x.key) \/ (x.key = secret /\ secret = identity),
         x.rec # NoApproval => x.rec.key = x.key /\ x.rec.nonce <= account.nonce,
         x.pc # "send", FlowFits(f)'
  PROVE  LinkInv'
<1>1. /\ flows' \in [Flows -> FlowTypes] /\ flows'[f] = x
      /\ \A g \in Flows : g # f => flows'[g] = flows[g]
  BY PhoneFields
<1>2. TypeOK'
  <2>1. PhoneTypeOK' BY <1>1 DEF LinkInv, TypeOK, PhoneTypeOK, FlowTypes
  <2>2. ServiceTypeOK' /\ CliTypeOK' BY DEF LinkInv, TypeOK, ServiceTypeOK, CliTypeOK
  <2>3. QED BY <2>1, <2>2 DEF TypeOK
<1>3. Behind(phoneView)' /\ Behind(cliView)' /\ SubmittedIsSaved' /\ CliFits'
  BY DEF LinkInv, Behind, SubmittedIsSaved, CliFits, Up
<1>4. SlotTold'
  BY DEF LinkInv, SlotTold, Told, IsAt
<1>5. \A g \in Flows : FlowFits(g)' /\ HandlerFits(g)'
  BY <1>1 DEF LinkInv, FlowFits, HandlerFits
<1>6. \A d \in Recs' : d \in Recs \/ (d = x.rec /\ x.rec # NoApproval)
  BY <1>1 DEF Recs
<1>7. RecsFit'
  BY <1>6 DEF LinkInv, RecsFit
<1>8. KeysTold'
  <2>1. \A k \in Keys : Seen(k)' => Seen(k) \/ k = x.key
    BY <1>1, <1>6 DEF Seen
  <2>2. secret # identity => secret \in Keys
    BY CliFields
  <2>3. x.key = secret => secret \in minted
    BY ServiceAssumption DEF LinkInv, TypeOK, CliTypeOK
  <2>4. QED BY <2>1, <2>2, <2>3 DEF LinkInv, KeysTold
<1>9. OutIsStored'
  <2>1. Out' = Out BY DEF Out
  <2>2. \A d : Alive(d)' <=> Alive(d)
    BY DEF Alive, Executable, Expired
  <2>3. ASSUME NEW g \in Flows, At(g, "send")', Alive(flows[g].rec)' PROVE flows'[g].rec = slot'.rec
    BY <1>1, <2>2, <2>3 DEF LinkInv, OutIsStored, At
  <2>4. QED BY <2>1, <2>2, <2>3 DEF LinkInv, OutIsStored
<1>10. QED BY <1>2, <1>3, <1>4, <1>5, <1>7, <1>8, <1>9 DEF LinkInv

LEMMA BeginKeeps ==
  ASSUME LinkInv, NEW f \in Flows, NEW op \in {"add", "remove"}, NEW k \in Keys, Begin(f, op, k),
         UNCHANGED cliVars, Seen(k) \/ (k = secret /\ secret = identity)
  PROVE  LinkInv'
<1> DEFINE x == [NewFlow EXCEPT !.pc = "resume", !.op = op, !.key = k]
<1>1. x \in FlowTypes /\ x.pc = "resume" /\ x.key = k /\ x.rec = NoApproval
  BY DEF NewFlow, FlowTypes, Refreshes
<1>2. flows' = [flows EXCEPT ![f] = x] /\ UNCHANGED <<serviceVars, slot, call>>
  BY DEF Begin
<1> HIDE DEF x
<1>3. flows'[f] = x
  BY <1>2, PhoneFields
<1>4. FlowFits(f)'
  BY <1>1, <1>3 DEF FlowFits, Carries
<1>5. QED BY <1>1, <1>2, <1>4, NewFlowFrame

\* The roster shows a key that was active.
LEMMA BeginRemoveKeeps ==
  ASSUME LinkInv, NEW f \in Flows, NEW k \in Keys, BeginRemove(f, k), UNCHANGED cliVars PROVE LinkInv'
<1>1. k \in account.active \cup account.removed
  BY DEF BeginRemove, LinkInv, Behind, Grows
<1>2. QED BY <1>1, BeginKeeps DEF BeginRemove, Seen

\* The CLI offers the key of its device.key, or one that was rotated away after the offer.
LEMMA ScanOfferKeeps ==
  ASSUME LinkInv, NEW f \in Flows, ScanOffer(f) PROVE LinkInv'
<1> DEFINE k == cli.key
<1>1. /\ cli.endpoint # NoKey /\ cli.endpoint = k /\ Begin(f, "add", k) /\ UNCHANGED cliVars
  BY DEF ScanOffer, BeginLink, Paired, Up
<1>2. k \in Keys
  BY <1>1, CliFields
<1>3. Seen(k) \/ (k = secret /\ secret = identity)
  BY <1>1 DEF LinkInv, CliFits, Up, Seen
<1> HIDE DEF k
<1>4. QED BY <1>1, <1>2, <1>3, BeginKeeps

LEMMA SignKeeps ==
  ASSUME LinkInv, NEW f \in Flows, Sign(f), UNCHANGED cliVars PROVE LinkInv'
<1> DEFINE d == [op |-> flows[f].op, key |-> flows[f].key, nonce |-> phoneView.nonce,
                 deadline |-> phoneView.time + Horizon]
           x == [flows[f] EXCEPT !.pc = "persist", !.rec = d]
<1>1. /\ flows[f].pc = "sign" /\ flows' = [flows EXCEPT ![f].pc = "persist", ![f].rec = d]
      /\ UNCHANGED <<serviceVars, slot, call>>
  BY DEF Sign, At
<1>2. flows[f].key \in Keys /\ flows \in [Flows -> FlowTypes] /\ flows[f] \in FlowTypes
      /\ flows[f].op \in {"add", "remove"}
  BY <1>1, SamePlace DEF LinkInv, FlowFits
<1>3. phoneView.nonce \in 0..MaxNonce /\ phoneView.time + Horizon \in 0..(MaxTime + Horizon)
  BY PhoneFields, AccountFields, ServiceAssumption
<1>4. d \in Approvals
  BY <1>2, <1>3 DEF Approvals
<1>5. d.op = flows[f].op /\ d.key = flows[f].key /\ d.nonce <= account.nonce
  BY DEF LinkInv, Behind, Grows
<1> HIDE DEF d
<1>6. /\ x \in FlowTypes /\ x.pc = "persist" /\ x.rec = d /\ x.key = flows[f].key /\ x.op = flows[f].op
  BY <1>2, <1>4 DEF FlowTypes, Refreshes
<1>7. flows' = [flows EXCEPT ![f] = x]
  BY <1>1, <1>2
<1> HIDE DEF x
<1>8. flows'[f] = x
  BY <1>2, <1>7
<1>9. FlowFits(f)'
  BY <1>2, <1>4, <1>5, <1>6, <1>8 DEF FlowFits, Carries
<1>10. Seen(x.key)
  BY <1>6 DEF Seen
<1>11. QED BY <1>1, <1>2, <1>5, <1>6, <1>7, <1>9, <1>10, NewFlowFrame

\* The stored action goes to the API: an addition only when the CLI has saved it.
LEMMA PostKeeps ==
  ASSUME LinkInv, NEW f \in Flows, Post(f), UNCHANGED cliVars PROVE LinkInv'
<1>1. /\ slot.acknowledged /\ posted' = posted \cup {slot.rec} /\ call' = [NoCall EXCEPT !.by = f]
      /\ UNCHANGED <<account, rows, phoneView, cliView, slot, flows>> /\ call.by = NoFlow
  BY DEF Post
<1>2. slot.rec \in Approvals /\ (slot.rec.op = "add" => slot.rec \in saved) /\ slot.rec # NoApproval
  BY <1>1, SlotAsIs, PhoneFields DEF Told
<1>3. call' \in CallTypes /\ call'.by = f /\ call'.answer = "unknown"
  BY <1>1 DEF NoCall, CallTypes
<1>4. TypeOK'
  <2>1. ServiceTypeOK' BY <1>1, <1>2 DEF LinkInv, TypeOK, ServiceTypeOK
  <2>2. PhoneTypeOK' BY <1>1, <1>3 DEF LinkInv, TypeOK, PhoneTypeOK, CallTypes
  <2>3. CliTypeOK' BY DEF LinkInv, TypeOK, CliTypeOK
  <2>4. QED BY <2>1, <2>2, <2>3 DEF TypeOK
<1>5. Behind(phoneView)' /\ Behind(cliView)' /\ CliFits'
  BY <1>1 DEF LinkInv, Behind, CliFits, Up
<1>6. SubmittedIsSaved'
  BY <1>1, <1>2 DEF LinkInv, SubmittedIsSaved
<1>7. SlotTold'
  BY <1>1, <1>3 DEF LinkInv, SlotTold, Told, IsAt, Terminal
<1>8. \A g \in Flows : FlowFits(g)' /\ HandlerFits(g)'
  BY <1>1, <1>3 DEF LinkInv, FlowFits, HandlerFits
<1>9. Recs' = Recs
  BY <1>1 DEF Recs
<1>10. RecsFit' /\ KeysTold'
  BY <1>1, <1>9 DEF LinkInv, RecsFit, KeysTold, Seen
<1>11. OutIsStored'
  <2>1. Out' = Out BY <1>1 DEF Out
  <2>2. \A d : Alive(d)' <=> Alive(d)
    BY <1>1 DEF Alive, Executable, Expired
  <2>3. QED BY <1>1, <2>1, <2>2 DEF LinkInv, OutIsStored, At
<1>12. QED BY <1>4, <1>5, <1>6, <1>7, <1>8, <1>10, <1>11 DEF LinkInv

(***************************************************************************)
(* The pairing stream.                                                     *)
(***************************************************************************)
\* A flow and its stream go on together.
LEMMA PairFrame ==
  ASSUME LinkInv, NEW f \in Flows, NEW x \in FlowTypes, NEW y \in HandlerTypes,
         flows' = [flows EXCEPT ![f] = x], handlers' = [handlers EXCEPT ![f] = y],
         UNCHANGED <<serviceVars, files, commands, cli, slot, call>>,
         x.pc # "send", x.rec = flows[f].rec, x.key = flows[f].key,
         y.rec \in {flows[f].rec, NoApproval}, y.rec # NoApproval /\ Alive(y.rec) => y.rec = slot.rec,
         FlowFits(f)', HandlerFits(f)'
  PROVE  LinkInv'
<1>1. /\ flows' \in [Flows -> FlowTypes] /\ flows'[f] = x
      /\ \A g \in Flows : g # f => flows'[g] = flows[g]
  BY PhoneFields
<1>2. /\ handlers' \in [Handlers -> HandlerTypes] /\ handlers'[f] = y
      /\ \A g \in Handlers : g # f => handlers'[g] = handlers[g]
  BY Streams, HandlerFields
<1>3. TypeOK'
  <2>1. PhoneTypeOK' BY <1>1 DEF LinkInv, TypeOK, PhoneTypeOK, FlowTypes
  <2>2. CliTypeOK' BY <1>2 DEF LinkInv, TypeOK, CliTypeOK, HandlerTypes
  <2>3. ServiceTypeOK' BY DEF LinkInv, TypeOK, ServiceTypeOK
  <2>4. QED BY <2>1, <2>2, <2>3 DEF TypeOK
<1>4. Behind(phoneView)' /\ Behind(cliView)' /\ SubmittedIsSaved' /\ CliFits'
  BY DEF LinkInv, Behind, SubmittedIsSaved, CliFits, Up
<1>5. SlotTold'
  BY DEF LinkInv, SlotTold, Told, IsAt
<1>6. \A g \in Flows : FlowFits(g)' /\ HandlerFits(g)'
  BY <1>1, <1>2, Streams DEF LinkInv, FlowFits, HandlerFits
<1>7. Recs' \subseteq Recs
  BY <1>1, <1>2, Streams DEF Recs
<1>8. RecsFit'
  BY <1>7 DEF LinkInv, RecsFit
<1>9. KeysTold'
  <2>1. \A k \in Keys : Seen(k)' => Seen(k)
    BY <1>1, <1>7 DEF Seen
  <2>2. secret # identity => secret \in Keys
    BY CliFields
  <2>3. QED BY <2>1, <2>2 DEF LinkInv, KeysTold
<1>10. OutIsStored'
  <2>1. \A d \in Out' : d \in Out \/ (d = y.rec /\ y.rec # NoApproval)
    BY <1>2 DEF Out
  <2>2. \A d : Alive(d)' <=> Alive(d)
    BY DEF Alive, Executable, Expired
  <2>3. ASSUME NEW g \in Flows, At(g, "send")', Alive(flows[g].rec)' PROVE flows'[g].rec = slot'.rec
    BY <1>1, <2>2, <2>3 DEF LinkInv, OutIsStored, At
  <2>4. QED BY <2>1, <2>2, <2>3 DEF LinkInv, OutIsStored
<1>11. QED BY <1>3, <1>4, <1>5, <1>6, <1>8, <1>9, <1>10 DEF LinkInv

LEMMA FlowAt ==
  ASSUME LinkInv, NEW f \in Flows, NEW pc \in {"sent", "mark"}, Goto(f, pc)
  PROVE  LET x == [flows[f] EXCEPT !.pc = pc]
         IN  /\ flows' = [flows EXCEPT ![f] = x] /\ flows'[f] = x /\ x \in FlowTypes /\ x.pc = pc
             /\ x.op = flows[f].op /\ x.key = flows[f].key /\ x.rec = flows[f].rec
<1>1. flows \in [Flows -> FlowTypes] /\ flows[f] \in FlowTypes
  BY PhoneFields
<1>2. QED BY <1>1 DEF Goto, FlowTypes

LEMMA SendApprovalKeeps ==
  ASSUME LinkInv, NEW f \in Flows, SendApproval(f) PROVE LinkInv'
<1> DEFINE x == [flows[f] EXCEPT !.pc = "sent"]
           y == [pc |-> "load", rec |-> flows[f].rec, fits |-> Acceptable(flows[f].rec), seen |-> NotRead]
<1>1. /\ flows[f].pc = "send" /\ Goto(f, "sent") /\ handlers' = [handlers EXCEPT ![f] = y]
      /\ UNCHANGED <<serviceVars, files, commands, cli, slot, call>>
  BY DEF SendApproval, Receive, At
<1>2. /\ flows' = [flows EXCEPT ![f] = x] /\ flows'[f] = x /\ x \in FlowTypes /\ x.pc = "sent"
      /\ x.op = flows[f].op /\ x.key = flows[f].key /\ x.rec = flows[f].rec
  BY <1>1, FlowAt
<1>3. /\ flows[f].rec \in Approvals /\ flows[f].rec.op = flows[f].op /\ flows[f].rec.key = flows[f].key
      /\ flows[f].key \in Keys /\ flows[f].op = "add"
  BY <1>1 DEF LinkInv, FlowFits, Carries
<1>4. Acceptable(flows[f].rec) \in BOOLEAN
  BY DEF Acceptable, ExpiredFor
<1>5. y \in HandlerTypes /\ y.pc = "load" /\ y.rec = flows[f].rec /\ y.seen.pending = NoApproval
  BY <1>3, <1>4, ReadTypes DEF HandlerTypes, NotRead
<1>6. Alive(flows[f].rec) => flows[f].rec = slot.rec
  BY <1>1 DEF LinkInv, OutIsStored, At
<1> HIDE DEF x, y
<1>7. handlers'[f] = y
  BY <1>1, Streams, HandlerFields
<1>8. FlowFits(f)' /\ HandlerFits(f)'
  BY <1>2, <1>3, <1>5, <1>7 DEF FlowFits, HandlerFits, Carries
<1>9. QED BY <1>1, <1>2, <1>5, <1>6, <1>8, PairFrame

LEMMA ApprovalSavedKeeps ==
  ASSUME LinkInv, NEW f \in Flows, ApprovalSaved(f) PROVE LinkInv'
<1> DEFINE x == [flows[f] EXCEPT !.pc = "mark"]
<1>1. /\ flows[f].pc = "sent" /\ handlers[f].pc = "reply" /\ Goto(f, "mark")
      /\ handlers' = [handlers EXCEPT ![f] = IdleHandler]
      /\ UNCHANGED <<serviceVars, files, commands, cli, slot, call>>
  BY DEF ApprovalSaved, Replied, At
<1>2. /\ flows' = [flows EXCEPT ![f] = x] /\ flows'[f] = x /\ x \in FlowTypes /\ x.pc = "mark"
      /\ x.op = flows[f].op /\ x.key = flows[f].key /\ x.rec = flows[f].rec
  BY <1>1, FlowAt
<1>3. /\ flows[f].rec \in Approvals /\ flows[f].rec.op = flows[f].op /\ flows[f].rec.key = flows[f].key
      /\ flows[f].key \in Keys /\ flows[f].op = "add" /\ flows[f].rec \in saved
  BY <1>1 DEF LinkInv, FlowFits, Carries
<1>4. /\ IdleHandler \in HandlerTypes /\ IdleHandler.pc = "idle" /\ IdleHandler.rec = NoApproval
      /\ IdleHandler.seen.pending = NoApproval /\ handlers'[f] = IdleHandler
  BY <1>1, Streams, HandlerFields
<1> HIDE DEF x
<1>5. FlowFits(f)' /\ HandlerFits(f)'
  BY <1>1, <1>2, <1>3, <1>4 DEF FlowFits, HandlerFits, Carries
<1>6. QED BY <1>1, <1>2, <1>4, <1>5, PairFrame

(***************************************************************************)
(* The invariant, and what it says.                                        *)
(***************************************************************************)
LEMMA LinkInit == ASSUME Init PROVE LinkInv
<1>1. /\ account = [time |-> 0, nonce |-> 0, active |-> {}, removed |-> {}]
      /\ phoneView = account /\ cliView = account /\ rows = [d \in {} |-> "active"] /\ posted = {}
  BY DEF Init, ServiceInit
<1>2. slot = EmptySlot /\ flows = [f \in Flows |-> NewFlow] /\ call = NoCall
  BY DEF Init, PhoneInit
<1>3. /\ secret = NoKey /\ identity = NoKey /\ approval = NoApproval /\ minted = {} /\ saved = {}
      /\ commands = 0 /\ cli = Off /\ handlers = [h \in Handlers |-> IdleHandler]
  BY DEF Init, CliInit
<1>4. /\ EmptySlot \in SlotTypes /\ EmptySlot.rec = NoApproval /\ EmptySlot.apiStatus = "none"
      /\ ~EmptySlot.historicallyAdded /\ ~EmptySlot.acknowledged /\ ~EmptySlot.submitted
  BY DEF EmptySlot, SlotTypes
<1>5. NewFlow \in FlowTypes /\ NewFlow.pc = "new" /\ NewFlow.rec = NoApproval /\ NewFlow.key = NoKey
  BY DEF NewFlow, FlowTypes
<1>6. NoCall \in CallTypes /\ NoCall.answer = "unknown" /\ NoCall.by = NoFlow
  BY DEF NoCall, CallTypes
<1>7. /\ IdleHandler \in HandlerTypes /\ IdleHandler.pc = "idle" /\ IdleHandler.rec = NoApproval
      /\ IdleHandler.seen.pending = NoApproval
  BY ReadTypes DEF IdleHandler, NotRead, HandlerTypes
<1>8. account \in Accounts
  <2>1. 0 \in 0..MaxTime /\ 0 \in 0..MaxNonce BY ServiceAssumption
  <2>2. QED BY <1>1, <2>1 DEF Accounts
<1>9. TypeOK
  <2>1. ServiceTypeOK BY <1>1, <1>8 DEF ServiceTypeOK
  <2>2. PhoneTypeOK BY <1>2, <1>4, <1>5, <1>6 DEF PhoneTypeOK, SlotTypes, FlowTypes, CallTypes
  <2>3. CliTypeOK BY <1>3, <1>7, ReadTypes, CliAssumption DEF CliTypeOK, CliTypes, HandlerTypes
  <2>4. QED BY <2>1, <2>2, <2>3 DEF TypeOK
<1>10. Behind(phoneView) /\ Behind(cliView)
  BY <1>1, <1>8, GrowsRefl DEF Behind
<1>11. SlotTold /\ SubmittedIsSaved
  BY <1>1, <1>2, <1>4, <1>6 DEF SlotTold, Told, SubmittedIsSaved, Terminal
<1>12. \A f \in Flows : FlowFits(f) /\ HandlerFits(f)
  BY <1>2, <1>3, <1>5, <1>7, Streams DEF FlowFits, HandlerFits, Carries
<1>13. Recs = {} /\ Out = {}
  BY <1>1, <1>2, <1>3, <1>4, <1>5, <1>7 DEF Recs, Out
<1>14. RecsFit
  BY <1>13 DEF RecsFit
<1>15. KeysTold
  <2>1. \A k \in Keys : ~Seen(k)
    BY <1>1, <1>2, <1>5, <1>13, ServiceAssumption DEF Seen
  <2>2. QED BY <1>3, <2>1 DEF KeysTold
<1>16. CliFits
  BY <1>3, ReadTypes DEF CliFits, Up
<1>17. OutIsStored
  BY <1>2, <1>5, <1>13 DEF OutIsStored, At
<1>18. QED BY <1>9, <1>10, <1>11, <1>12, <1>14, <1>15, <1>16, <1>17 DEF LinkInv

LEMMA StutterKeeps == ASSUME LinkInv, UNCHANGED vars PROVE LinkInv'
BY Streams, StreamsStay, CliFields, CommandFrame DEF vars, LinkInv, CliFits, Up

LEMMA PhoneKeeps ==
  ASSUME LinkInv, NEW f \in Flows, PhoneStep(f), UNCHANGED cliVars PROVE LinkInv'
BY BeginRemoveKeeps, AskKeeps, ResumeKeeps, SignKeeps, PersistKeeps, MarkKeeps, PostKeeps, PostedKeeps,
   SubmittedBeforeKeeps, PollKeeps, StopKeeps DEF PhoneStep

LEMMA LinkStep == ASSUME LinkInv, [Next]_vars PROVE LinkInv'
<1>1. CASE ServiceStep /\ UNCHANGED <<phoneVars, cliVars>>
  BY <1>1, ServiceKeeps
<1>2. CASE CliStep /\ UNCHANGED phoneVars
  BY <1>2, CliKeeps
<1>3. ASSUME NEW f \in Flows, PhoneStep(f) /\ UNCHANGED cliVars PROVE LinkInv'
  BY <1>3, PhoneKeeps
<1>4. ASSUME NEW f \in Flows, ScanOffer(f) PROVE LinkInv'
  BY <1>4, ScanOfferKeeps
<1>5. ASSUME NEW f \in Flows, SendApproval(f) PROVE LinkInv'
  BY <1>5, SendApprovalKeeps
<1>6. ASSUME NEW f \in Flows, ApprovalSaved(f) PROVE LinkInv'
  BY <1>6, ApprovalSavedKeeps
<1>7. CASE UNCHANGED vars
  BY <1>7, StutterKeeps
<1>8. QED BY <1>1, <1>2, <1>3, <1>4, <1>5, <1>6, <1>7 DEF Next

\* Linking and removing, whatever is killed, lost, sent twice or read late: every step of the
\* phone's flows, the command, its pairing streams, the API and the registry keeps the invariant.
THEOREM LinkInvariant == Spec => []LinkInv
<1>1. Init => LinkInv
  BY LinkInit
<1>2. LinkInv /\ [Next]_vars => LinkInv'
  BY LinkStep
<1>3. QED BY <1>1, <1>2, PTL DEF Spec

\* The type of the state of all the parts: in particular the file of the CLI holds an approval that
\* was saved (savePendingApproval), and what was submitted was acknowledged (submitAcknowledged).
THEOREM LinkTypes == Spec => []TypeOK
<1>1. LinkInv => TypeOK
  BY DEF LinkInv
<1>2. QED BY <1>1, LinkInvariant, PTL

\* Of the approvals that phone, CLI and API hold at most one can still be executed: the one the
\* phone has stored (persistApproval, occupiesApprovalSlot).
THEOREM OneIsOut == Spec => []OneApprovalOut
<1>1. LinkInv => OneApprovalOut
  BY DEF LinkInv, OutIsStored, OneApprovalOut
<1>2. QED BY <1>1, LinkInvariant, PTL

\* submitAcknowledged posts an addition only after the CLI has written it to pending-approval.json.
THEOREM SavedBeforeSubmitted == Spec => []SubmittedIsSaved
<1>1. LinkInv => SubmittedIsSaved
  BY DEF LinkInv
<1>2. QED BY <1>1, LinkInvariant, PTL

\* Whatever the phone has seen is the key of device.key, or removed.
LEMMA KeysKept == ASSUME LinkInv PROVE NoOrphanKey
<1>1. account.active \subseteq Keys /\ account.active \cap account.removed = {}
  BY PhoneFields, AccountFields DEF LinkInv, TypeOK, ServiceTypeOK
<1>2. ASSUME NEW k \in account.active PROVE k = secret
  BY <1>1 DEF LinkInv, KeysTold, Seen
<1>3. ASSUME NEW d \in Out, d.op = "add", Alive(d) PROVE d.key = secret
  <2>1. d \in Recs /\ d.key \in Keys
    BY RecsTyped DEF Approvals
  <2>2. d.key \notin account.removed
    BY <1>3 DEF Alive, Executable
  <2>3. QED BY <2>1, <2>2 DEF LinkInv, KeysTold, Seen
<1>4. QED BY <1>2, <1>3 DEF NoOrphanKey

\* rotatePendingKey never rotates a key away that the registry has added, or still will.
THEOREM NoKeyIsOrphaned == Spec => []NoOrphanKey
BY KeysKept, LinkInvariant, PTL

\* What refreshStored reports as `removed` the registry has removed, although the phone looks at a
\* node that may be behind and goes by what it remembers of earlier looks (historicallyAdded).
THEOREM RemovedIsSo == Spec => []RemovedIsTrue
<1>1. LinkInv => RemovedIsTrue
  BY MembershipTells DEF RemovedIsTrue
<1>2. QED BY <1>1, LinkInvariant, PTL
=============================================================================
