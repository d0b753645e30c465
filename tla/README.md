# QOP: specifications, model checking and proofs

QOP is a peer-to-peer messenger. A person has one identity: an account in an on-chain registry with
an owner key, a permanent handle and up to four device keys. Phones and long-running command-line
devices ("holders") are devices of accounts. Messages travel directly between devices over libp2p
streams that the registry authorises; when the recipient is away, a phone hands its message to a CLI
of the same account, which keeps it in an outbox and delivers it later, and the phone fetches from
that CLI what arrived meanwhile. An API relays what owners and devices sign to the registry.

This directory holds TLA+ models of those parts, the TLC configurations that check them on small
instances, and TLAPS proofs about seven of them. A model keeps every state change, guard, early
return, error path and their order; messages, keys, digests and signatures are values.

Contents: [inventory](#inventory) - [modules](#modules-and-the-code) - [runs](#runs-bounds-and-what-they-show) -
[fairness](#fairness) - [proofs](#proofs) - [what disagrees with the code's own words](#disagreements) -
[abstractions](#abstractions-module-by-module) - [not modelled](#not-modelled) - [plan](#what-is-left)

## Inventory

**Identity registry contract** (`contracts/src/QOPIdentityRegistry.sol`). State: accounts (owner,
handle, nonce, owner version, recovery), a device array per account with an index map and a reverse
map, owner and handle lookups, retired keys, spent registration nonces, the registration gate.
Operations: eight transactions; six carry a signed intent that anyone may relay, at any time, in any
order. Hard: swap-and-pop over three maps, keys that must never come back, what a recovered-away owner
can still do. Correct when the maps are one relation, a removed key stays out, a handle or owner
names one account, and every change spends exactly one nonce.

**Phone message delivery** (`mobile/src/lib/p2p-store-core.ts`, `p2p-send.ts`, `p2p-sync.ts`,
`db.ts`). State: the message row (pending, sending, held, sent, failed), the endpoint's generation,
send jobs, one handoff job per message, a reconcile per generation. Jobs survive the endpoint session
that began them. Hard: a job of an old session next to those of the new one, a handoff reply that is
lost, stop / crash / retry at every await. Correct when `sent` and `held` are true, a row that says
`sending` has a job or a database that refused its outcome, and a held message whose holder goes away is moved.

**Holder outbox** (`cli/src/outbox.ts`, `outbox-store.ts`, `sync.ts`). State: a row per handed-over
message (queued, sent, failed), the loop's sleep, wakes and backoff. Hard: failing reads that look
like an empty table, wakes that arrive while the loop is busy, crash between delivery and record.
Correct when a queued row is never slept on without an end, a database that fails does not make the
loop spin, and a row whose recipient is there is resolved.

**Direct chat streams** (`cli/src/chat.ts` deliverChatFrame and createHolder, `p2p-send.ts`
performSend, `p2p-receive.ts`). State: the streams of a delivery and how far each end is. A CLI races
all devices of the recipient, a phone tries them in turn. Hard: a dial that succeeds after the race
was decided, an acknowledgement that is lost, a receiver at its stream limit. Correct when a
delivery reaches one device, a frame is shown once and no stream stays open.

**Peer sessions** (`packages/protocol/src/p2p-sessions.ts`) and **CLI process lifecycle**
(`lifecycle.ts`, `process-lifecycle.ts`, `chat.ts`). State: per connection the authorised contact,
the head it was checked at and its expiry; a verification epoch; the clocks last observed. Hard:
every await of a verification next to closes, reuse of the connection id, resumes, a node that lags
or repeats its head, a suspended process. Correct when who is authorised was a member at a recent
block, nothing from before an invalidation is used, and a removal takes effect within a bound (the age
of an authorization and the time the one read of its roster took).

**Inbox catch-up** (`p2p-store-core.ts` pullHolderInbox, `cli/src/sync.ts`, `outbox-store.ts`).
State: the holder's inbox by rowid, the phone's cursor per holder, jobs that outlive a session. Hard:
stalled jobs, a wiped holder, a crash between a saved row and its cursor, logout. Correct when the
cursor never passes a row that was not dealt with and every row arrives.

**API enrollment: registrations and device actions** (`api/src/registration/*`,
`api/src/device-action/*`). State: intents with a status, the relayer's nonces, admission codes.
Every request may die between any two awaits, and any other process may work on the same rows. Hard:
one nonce sequence for two tables, expiry next to inclusion, replays. Correct when nonces are unique
and without gaps, a status tells the outcome, a code admits one account.

**Device linking** (CLI: `pairing-session.ts`, `pending-approval.ts`, `pairing-link.ts`,
`enrollment-poll.ts`, `identity-store.ts`; phone: `local-device-action-core.ts`,
`device-link-flow-core.ts`, `pairing-client-core.ts`; `packages/protocol/src/membership.ts`). State:
the CLI's key, identity and approval files; the phone's one stored action; the API's record. Hard:
check-then-save over awaits on both ends, locks taken for an operation and not for a flow, nodes
behind the API, kills between two files. Correct when one approval of a CLI's key can be out at a time, what is
submitted is saved, no key that the registry has is thrown away, and "removed" is true.

**Phone identity, registration and enrollment** (`identity-vault-core.ts`, `identity-store-core.ts`,
`local-registration-core.ts`, `local-enrollment-core.ts`, onboarding steps). State: identity,
registration and enrollment records in a store that outlives the app, two install markers, the state
the screens show. Hard: a reset as a sequence of deletes under a running poll, reinstalls, requests
answered late or never, a roster that changes meanwhile. Correct when records belong to the identity
stored, a ready phone was a member, and whoever waits is told.

Further parts, not modelled: [below](#not-modelled).

How they interact: the phone and the CLI verify each other with *peer sessions*, which read the
*registry*; *phone delivery* uses *direct chat* and hands over to the *holder outbox*, which uses
direct chat; *catch-up* reads what direct chat stored at a holder; *linking* and *enrollment* put
signed intents through the API's *device actions* to the registry; *registration* does so through the
API's registrations. Where a part uses another one the model of the first has an abstraction of the
second with every outcome it may have, and the module's head says which.

## Modules and the code

| Module | Code | State and actions |
|---|---|---|
| `Registry` | the contract | one variable per mapping, an action per transaction, `Submit` any signed intent |
| `IdentityLedger` | what the contract promises | accounts as owner, handle, nonce and a *set* of devices; no arrays or indices |
| `RegistryAudit` | | history of owners and recoveries; the refinement `Ledger` |
| `HolderOutbox` | a message at its holders | `Enqueue`, `Deliver`, `GiveUp` |
| `PhoneDelivery` | the phone's jobs | an action from one await to the next for send, handoff, reconcile, start, stop, kill |
| `Delivery` | both and the network | requests that arrive, arrive late or not, holders unlinked; the refinement `Promise` |
| `SenderPromise` | what a sender relies on | shown status, holders entrusted, arrived, reported, refused; no jobs, attempts or sessions |
| `DirectChat` | one frame, its streams | both ends of every stream of every attempt |
| `PeerSessions` | `createPeerSessions` | `Verify`, `Acquire`, `CaptureHead`, `Confirm`, `ContactRead`, `ContactSaved`, .. are the awaits of `verify` |
| `HolderSessions` | CLI lifecycle | extends `PeerSessions` with clocks, suspends and the inbound guard |
| `CatchUp` | paged pull | `Turn`, `Serve`, `ReadPage`, `Item`, `SenderReady`, `Insert`, `Advance` are the awaits of a job |
| `OutboxRuntime` | `createOutboxRuntime` | `Flush`, `GoToSleep`, `WakeUp`, `Lookup`, rows with their backoff |
| `Enrollment` | API and chain | a request is a program counter over the operations of the two services; the refinement `Book` |
| `IntentBook` | what the API promises | an answer per intent, its outcome on the chain, who claims each code; no requests, nonces or blocks |
| `ActionService` | API status, membership, chain for one CLI | `ExpiredFor`, `Occupies`, `PollComplete` are the shared decisions of `membership.ts` |
| `PhoneActions`, `CliLink` | the phone's and the CLI's end of linking | flows and handlers with a program counter, files as variables |
| `DeviceLink` | both, with the API | `ScanOffer`, `SendApproval`, `ApprovalSaved` join them |
| `OnboardService` | API and registry as a phone sees them | requests on their way, verdicts, statuses |
| `PhoneVault`, `PhoneOnboarding` | vault, store, markers, reset; registration and enrollment | |
| `PhoneIdentity` | all of it | what may go wrong is a `Mishap`, counted by a bound |
| `RegistryProofs`, `DeliveryProofs`, `ChatProofs` (direct chat, outbox runtime), `SessionProofs`, `CatchUpProofs`, `EnrollmentProofs`, `DeviceLinkProofs`, `PhoneIdentityProofs` | | theorems |
| `MC*` | | instances for TLC: values of constants, symmetry, nothing else |

Definitions named `Mut...` are not part of a model: each is a plausible mistake in the definition that
follows it, and replacing that one by it makes one property fail.

## Runs, bounds and what they show

All runs explore every reachable state of their instance. `PROJECT.json` lists them.

**registry** (`MCRegistry.cfg`): two accounts, two handles, three keys, rosters of two, owner versions
to 2, nonces to 2, two times; signatures of the owners and of two outsiders, symmetry over what is
interchangeable. Two places are enough for swap-and-pop to move an element and three keys for a full
roster plus a newcomer; two owner versions for a rotation and a recovery after it.
`RosterConsistent`, `RemovedKeysStayOut`, `DirectoryConsistent`, `RosterVouched` (no device that a
recovered-away owner enrolled or signed for), `AccountActionsSerialized` (a change spends one nonce),
`ImplementsLedger`. The same holds for all constants, see [proofs](#proofs).

**delivery** (`MCDelivery.cfg`): one holder that may be unlinked, two send jobs at a time, two sessions
of the endpoint, a retry by the user; any write of a job's outcome may fail. `SentWasStored`, `HeldIsBacked`, `SendingIsAttended`,
`ImplementsPromise`: every step of every job, holder and late request is a step of `SenderPromise` or
none, so sent is final and true, a held message fails only after a refusal, and no job left over from
another session starts what the user did not. **delivery_held** (`MCDeliveryHeld.cfg`): two holders and the recipient away,
from the handoff on: `JobPlacesOnce` (a handoff job leaves the message with one holder) and
`HeldIsResolved`. Two sessions are enough for an old job next to a new one: what jobs compare is only
whether the generation is theirs. A message that is held is delivered if a holder stays linked; if
none does, it stays held, as in the code.

**direct_chat** (`MCDirectChat.cfg`): a CLI or a phone sends one frame, twice, to an account of a CLI
with room for one stream and a phone; one stop of a device. `OneDevicePerDelivery`, `ShownOnce`,
`StreamsEnd`. Two devices race; two attempts let the handler of the first one run beside the second.

**peer_sessions** (`MCPeerSessions.cfg`): one connection id, a device of another account and one of the
own, two verifications, two blocks, an age of one in a time of two, one invalidation, two openings; a
node that is at the head when it is asked, and that may be blocks behind when its rosters have been read. `AuthorizedPeersWereMembers`,
`NoneFromBeforeInvalidation`, `RemovalTakesEffect`, `UsedPeersAreMembers`. **holder_sessions**
(`MCHolderSessions.cfg`): one connection, an inbound and an outbound verification, a node that lags by a
block and repeats its heads, the stall threshold two ticks and an age of three, one suspend in which the
monotonic clock stands or goes on: `OneWindowPerHead` (a repeated head extends nothing),
`SuspendIsNeverForgotten`, `InboundUsesAreAwake`. Sessions are independent but for the
epoch and their ids, which the small instances share on purpose.

**catchup** (`MCCatchUp.cfg`): one holder, two messages, two jobs, pages of up to two rows, one stop or
kill, one logout that jobs may outlive, one wiped holder. `CursorCoversInbox`,
`CursorNeverRewound`, `SavedInOrder`, `InboxReachesPhone`. All but the second leave out the holders in `gap`,
where the code itself may pass over rows: a holder at which a job that outlived a logout dealt with a row or moved the
cursor, and one whose inbox was replaced and outgrew the cursor before the phone looked. Holders share nothing but messages and
contacts, which only grow between logouts.

**outbox_runtime** (`MCOutboxRuntime.cfg`): two rows for one recipient, backoff of one and two ticks,
two at a time, one crash. `NeverParked`, `AttemptsAreSpaced` (a row that could not be written is
not tried again at once, for as long as nothing wakes the loop), `QueuedIsResolved`. Two rows of one recipient
are what the order within a recipient and the wake of one while another fails need.

**enrollment** (`MCEnrollment.cfg`): three registrations of which two ask for one handle and two have
one owner, two actions of one account with one nonce, two codes, two requests at a time, two stored
intents, time to 2. The deadline of the actions is the last moment, so that what expires here is a
registration; an action that expires is covered by the theorems alone. `NoncesAreShared`, `StatusTellsOutcome`, and `ImplementsBook`: the steps of all requests are those of
`IntentBook`, in which an answer is given once, an intent that is over is not executed with success, rivals are not
open together and a code is one registration's at a time. Two requests are the
least that race on a row; two intents with one relayer nonce sequence the least that block each other.

**device_link** (`MCDeviceLink.cfg`): two keys (one rotation), two flows of the phone, each a link or a
removal, two runs of `qop link`, kills anywhere, one deadline per approval, two account nonces.
`OneApprovalOut`, `SubmittedIsSaved`, `NoOrphanKey`, `RemovedIsTrue`.

**phone_identity** (`MCPhoneIdentity.cfg`): two identities made or restored, one reinstall, accounts of
two devices, one mishap at a time (kill, failing store, failing read, lost answer, owner recovered,
handle taken). A deadline is one tick away and time goes to 2: registrations begin at time 0, additions at 0 or 1,
so that an addition that lapsed is tried again. `RecordsFitIdentity`, `ReadyWasMember`, `MarkersTellInstall`, `WaitingEnds`. One random nonce
is enough for these to be interesting and was not enough to show why the model needs `Prompt` (see
[below](#abstractions-module-by-module)); the safety properties are proved for any number.

**enrollment_gap** (`MCEnrollmentGap.cfg`) expects a violation, see [below](#disagreements).

`CHECK_DEADLOCK FALSE` is in every configuration: the bounds stop every model, and the real parts rest
when nobody asks anything of them.

Three more configurations reproduce behaviours described below; TLC finds each one violated:
`tlc -config MCDeliveryOneHolder.cfg MCDelivery` (`OneHolder`),
`tlc -config MCCatchUpLogout.cfg MCCatchUp` (`CursorCoversAll`, which is `CursorCoversInbox` without the exceptions) and
`tlc -config MCPhoneIdentityBack.cfg MCPhoneIdentity` (`SteppedBackForGood`).

## Fairness

Liveness is stated only where something in the code goes on by itself.

- `Delivery`: a job that has begun goes on (`JobFairness`: they are promises that settle, each wait has a timeout); the app
  is opened again; linked holders, the registry and the recipient of a holder are reached again and
  again, and again and again the database takes a result (strong fairness). No timer begins a reconcile: a
  start (`p2p-store-core.ts:1640`) and an own holder that connects (1586-1596) do, so `HoldersConnectAgain`
  assumes, apart from the rest, that one of them comes again while a message is pending. Without it
  `HeldIsResolved` is false: a message whose holder was unlinked rests until the next of them.
  Nothing is assumed of unlinked holders or of the user.
- `DirectChat`: dials, reads, verifications and waits all have a timeout or a budget, so each side takes
  a step whenever one is left (weak fairness of sender, receiver and late opens). No dial or
  acknowledgement is assumed to succeed. A few writes have no timeout of their own (the frame and its
  acknowledgement at `chat.ts:309-315` and 360-362, the phone's acknowledgement at `p2p-store-core.ts:345`); that they
  end, if only because libp2p's connection does, is assumed.
- `CatchUp`: a start or a holder's connection schedules a catch-up again and again, and not every dial,
  page, lookup, insert or cursor write fails for ever (strong fairness); local steps are weakly fair.
  The code has no timer: a row that arrives while a phone stays connected waits for the next connection.
- `OutboxRuntime`: time passes, the loop runs, and a read, a delivery and a write that are tried for ever do not
  fail for ever. A wake may be lost when a read fails; the loop's own backoff (60 s at most) covers it,
  which is why no fairness of wakes is assumed.
- `PhoneIdentity`: the app runs its timers and requests, and its requests make the API look at the
  intent they ask for; time passes. Nothing is assumed to put a transaction into a block, and no receipt to come:
  an addition the relayer has sent ends with its receipt only (`device-action/enrollment.ts:293-318`), and behind a nonce the
  relayer lost (`SignedIsSent` below) there is none. So `WaitingEnds` names one wait without an end
  (`AwaitsReceipt`) and denies all others. Mishaps are finitely many: a phone that is killed for ever waits for ever.

There is none for `Enrollment`: nothing but a client's request goes on with a stored transaction.

## Proofs

Checked by TLAPS, for every value of the constants under the modules' named assumptions.

`RegistryProofs` proves `Spec => []RegistryInv` (`InvariantHolds`), where `RegistryInv` is the type
invariant, `RosterConsistent`, `RemovedKeysStayOut` and `DirectoryConsistent` together. None is
inductive by itself: that adding a key keeps the array injective needs that an unmapped key has no index,
that it stays out needs that a key off the roster is either unused or retired, that a rotation keeps
the owner lookup one-to-one needs the directory. The proof has a lemma for each helper on the roster
(what adding, removing with swap-and-pop and wiping do to the three maps), then one for each
transaction. From it: `RosterStaysConsistent`, `RemovedKeysNeverReturn`,
`DirectoryStaysConsistent` and, as an action property, `ActionsAreSerialized`.

The second half of `RegistryProofs` is about the refinement and the vouching.
`RegistryImplementsLedger`: the key fact (`ArrayIsReverseMap`) is that under `RegistryInv` the array of
an account and the entries of the reverse map name the same keys, and the reverse map is what each
transaction changes key by key; so adding, removing and wiping map to set operations, the checks of
the code imply the guards of the ledger (`LookupsTell`), and each transaction maps to a step of the
ledger or, for gate, signer and time, to a stutter. That the array has no
two equal places bounds the number of devices (`NoMoreThanPlaces`).
`RosterStaysVouched`: the signature that enrolled a device is one of an owner at a version not before
the last recovery; the history of owners only grows (`HistoryGrows`), recovery wipes the roster.

`ChatProofs` proves `DeliveryReachesOneDevice` and `FrameShownOnce` from `ChatInv`: the types,
`Writes` (an attempt wrote to one stream at most, and to none while it still dials) and `Recipient`
(among the handlers of a device one at most has stored the frame and not answered yet, and none once
it was shown). The lemmas go through the two ends in turn: a step of
the sender leaves the recipient's part alone, and the other way round, but for what `saved` tells it.

Its second part, about `OutboxRuntime`, proves `LoopIsNeverParked` and `LoopNeverSpins` from `OutboxInv`: the types (what is due or
being sent is queued, no wait is longer than the maximum of the backoff), `Rested` (nothing is due
or being sent outside of a flush), and `Spaced`: what is left of the loop's sleep and the time since a row
was begun last (a wake forgets it) make up the initial backoff. `SleepIsBounded` says that the loop's sleep has an end unless it read an empty
outbox; it rests on `LeastExists`, that a set of numbers has a least one.

`DeliveryProofs` proves what the runs `delivery` and `delivery_held` check but for liveness:
`NoFalseReceipt`, `HeldIsHeld`, `NoSendIsAbandoned`, `OneHolderPerJob`, and the refinement
`DeliveryImplementsPromise`. `DeliveryInv` adds to the types and the invariants what the jobs carry from one await
to the next: `Told` (an acknowledgement a send job has seen was of a stored message), `Named` (the holder
a send job is about to write down is backed), `Polling` (a receipt is asked of the holder of the row), and
`Requests`, the heart of it: `mayHold` and `earlierMayHold` mean that the target has a row or
that a request nobody waits for is still on its way there, and their absence that the job has left the
message with nobody, which is why it may turn to another holder. That no message is left `sending` unattended is relative to `strandedIn`, the history of a
job whose outcome and whose `failed` the database both refused (`p2p-store-core.ts:1143-1155`); `AttendedKept` shows
that it happens in the session that runs and in no other way. Each conjunct has a lemma that goes
through the actions; `RowsStay` says once that rows, refusals and requests on their way do not vanish.
For the refinement a holder is `entrusted` when it has a row or a request nobody waits for can still reach it.
`RowMoves` lists what a step of the phone can do to the message; that `sent` is written only of an
arrived message (`SentIsTold`), `held` only of an entrusted holder (`Named`) and `failed` over `held` only after a
refusal (`HeldFailsRefused`) makes each of them a step of the promise. One more invariant, `Uncomposed`, says that no
job, request or row is there before the message is composed: without it a delivery could precede it.

`SessionProofs` proves what the run `peer_sessions` checks, for any number of connections, peers and
verifications at a time and any lag and age: `MembersOnly`, `InvalidationHolds`, `HeadsOpenOneWindow`,
`RemovalEndsAuthorization`, and `NobodyElseIsUsed` as an action property. `SessionInv` follows a
verification from the head it captures to what it writes. `Reported` says of that head that every block
the node could not have been behind of was made after it was asked; `Grounds` adds that the peer was a device at it. Time,
blocks and removals keep both (`ChainStep`). Between the head and the start of the window lie the reads of the roster, whose
time nothing bounds but the transport: `took` remembers it, and the bound on how long a removed device stays
authorized is the age and that time.
`Permits` (one verification of a session holds its permit) is why a window of one verification cannot
make another one's head stale, and session objects that never come again (`SessionFits`, `JobFits`) why
a connection id that another peer took over is no danger. `OnlyUse` shows that a stream goes on
by no other step than the check.

Its second part proves what the run `holder_sessions` checks, `SuspendIsNeverForgotten` and
`InboundUsesAreAwake`, for any number of connections, verifications and suspends, and that the sessions
of a holder keep what the first part shows (`HolderSessionsHold`). `HolderInv` adds to `SessionInv`
what a suspend leaves behind (`Marked`): an authorization from before it stands only while a clock or the
mark still tells of it, and a verification from before it that outlives the invalidation has an epoch that
is past, so that it writes nothing (`EpochsOfSteps`). Whoever looks at the clocks invalidates when a suspend
is due, and `InvalidationClears` shows that nothing marked is left after that.

`EnrollmentProofs` proves `NoncesAreShared`, `StatusTellsOutcome` and `CodeAdmitsOne` for any number of
intents, codes and requests at a time. Requests share nothing but the database and the chain, so
`EnrollmentInv` has them apart: `Chain` (the confirmed block only takes over what the latest one has, an
intent is executed once and in time), `Signed`, `Claims` and `Final` for the database, and `Rightly` for
each request: when it is about to write a final status, the confirmed block has settled it for good
(`Lost`, which `ChainStep` shows nothing undoes). `NonceIsNext`: once a transaction is prepared, the
count the node answers with never passes the database's, hence no gap and no nonce used twice. A
confirmed row holds its code and has an account (`Claims`, `Final`), hence one account for a code
(`CodeAdmitsOne`, which `ImplementsBook` also implies and no run checks apart from it). The proofs
assume that the intents are a finite set.
`EnrollmentImplementsBook` needs no more than `EnrollmentInv`: storing a row opens an intent (`CreateOpens`: the unique
indexes are the exclusion of rivals), signing it changes nothing in the book (`PrepareStays`), each of the four
final writes answers an open intent (`AnswerIsFinal`), and a transaction of an intent that was failed meanwhile, which
the node may still execute, is reverted (`ExecutionCounts`).

`CatchUpProofs` proves the three safety properties of the run `catchup` for any number of holders, messages
and jobs and pages of any size: `CursorIsCovered`, `RowsSavedInOrder` and, as an action property,
`CursorOnlyForward`. `CatchUpInv` says of each holder that one job at a time has its turn (`OneRuns`), and of each
job what it has read and still relies on (`Right`): the cursor it began with is the holder's, its page is what
follows that cursor in the inbox unless the inbox was wiped since (which a cursor past the last row tells
of, `WipesShow`), and the item whose cursor it is about to write was dealt with. A cursor moves
back only to 0 and only after a wipe, but for a logout. A logout waits for five seconds and not for the jobs: `since` remembers
the generation it cleared the database for, what a job relies on of the cursor is lost when the job is older
(`Outlived`), and the holder such a job then writes of is in `gap`. The theorems have no other assumption about it:
whatever outlives a logout, no other holder's rows are passed over and none of its own before that write.

`DeviceLinkProofs` proves the four properties of the run `device_link` for any number of keys, flows of the phone,
runs of `qop link` and actions of the account, and deadlines of any length: `OneIsOut`,
`SavedBeforeSubmitted`, `NoKeyIsOrphaned` and `RemovedIsSo`. The heart of `LinkInv` is `OutIsStored`: of
all approvals that the phone, the CLI's file and streams and the API hold, only the one the phone has
stored can still be executed. It is kept by three facts. Nothing becomes executable again
(`DeadStaysDead`), as an account only grows (`Grows`: time, nonce, removed keys, keys ever added). Whatever the phone and
the CLI know is behind the account (`Behind`) and what the API told them is final is so (`Told`), hence
the phone puts another approval in the place of one only when that one is dead (`FreedIsDead`, the
correctness of `occupiesApprovalSlot`). And a flow sends over its stream only what it has just stored
(`FlowFits`). `KeysTold` says that a key anybody outside the CLI has seen is that of `device.key`
or removed: a rotation begins only after the registry's own marker (`CliFits`), and between its two writes
the new secret has been offered to nobody. The proofs assume that `NoKey`, `NoApproval` and `NoFlow` are not
a key, an approval or a flow.

`PhoneIdentityProofs` proves `RecordsAreItsOwn`, `ReadyIsMember` and `MarkersAreRight` for any number of
identities, installs, random nonces, devices and mishaps. None is inductive: that a record fits the stored
identity needs to know who may still write one. `PhoneInv` says so in parts. `StoreInv`: what is stored
belongs together, and what is confirmed was on the roster. `FlowInv`: the operation with the permit goes on with the
record it has read, which is still the one that is stored. `LineInv` is about the operations that wait for the permit: there
are the user's operation and a check at most, in any order, and either the step they belong to is on the
screen or what is stored is confirmed, so that each of them finds it so and ends. A check waits only for a record that is
open, hence an identity is never reset under an operation (`ResetIsAlone`). `ShownInv`: what the store
shows agrees with what is stored while nothing is being loaded. `ResetInv`: a reset that began has the store for itself,
and deletes the identity last. `MembersKept` ties it to the registry and the API: a key on a roster, or of an
intent that was mined, is remembered, hence what the phone saw once stays true (`PhoneRests`). The lines of five shapes have
lemmas of their own (`LineEnds`, `LineMoves`, `LineJoined`), stated once for registrations and
enrollments. The proofs assume that `Nothing` is neither an identity nor a record.

With these, every safety invariant and action property of the passing runs is a theorem. Only model-checked:
the liveness properties (`StreamsEnd`,
`HeldIsResolved`, `InboxReachesPhone`, `QueuedIsResolved`, `WaitingEnds`), as TLAPS 1.4.5 has no
reasoning about `ENABLED`; and what folds and sequence operators compute over whole sequences, which
would need induction principles the installed provers cannot instantiate.

## Disagreements

One run shows the code doing other than a document of the repository says.

- `enrollment_gap`, `SignedIsSent`: `handleProbe` (`api/src/registration/enrollment.ts:341-349`)
  rebroadcasts before it marks an intent failed only when the status it read *earlier* was
  `submitted`, and `markFailed` takes any active status. A request that read `ready` fails an intent
  that another process has signed and stored meanwhile and did not send because it died: the row is
  terminal, nobody sends the transaction, and the relayer's nonce it took blocks all later ones.
  `docs/research/cli-device-linking-plan.md:87-89` says that a stored transaction is reconciled or
  rebroadcast and that an abandoned lower nonce cannot permanently block a removal.

Observed while modelling; three have a configuration that reproduces them:

- One holder per message (`p2p-store-core.ts:550` comment, `MCDeliveryOneHolder.cfg`): a reconcile that finds
  a holder gone re-homes the message (line 981) while a request to that holder is still on its way, so two
  holders may queue it. The recipient shows it once all the same.
- Logout (`p2p-store-core.ts:887`, 895-898, `MCCatchUpLogout.cfg`): `stop` waits 5 s for the jobs and
  then the database is cleared; a job past its generation check (line 839) writes its cursor
  afterwards, and an account restored on that phone starts after rows it never saved. In the model
  jobs outlive a logout too; `gap` names the holder such a job writes of, and `CursorCoversAll`, which has no exception,
  is refuted.
- Stepping back (`invite-step.tsx:370`, `MCPhoneIdentityBack.cfg`): a retried registration whose retry is
  refused with a 4xx is marked failed (`local-registration-core.ts:430`) although the first request may
  still be mined; the step lets the user give that identity up.
- `local-device-action-core.ts:111-134, 219-232` with `membership.ts:108-112`: a removal that is mined
  before the phone's first look is never seen as one, as `historicallyAdded` starts false; the poll ends
  by its own limit.
- `pairing-link.ts:517-523`: clearing the approval after the API answered about an old digest may
  unlink one that was saved meanwhile (the comment at `pending-approval.ts:48-52` is about this case).
- `chat.ts:301-306`: an outbound write asks `isVerified` only, not the guard of the inbound handlers
  (comment at 693); `InboundUsesAreAwake` is about inbound ones.
- `chat.ts:359-366, 573`: a CLI whose acknowledgement fails to be written stored the message and never
  prints it: on the retry it is not new.
- `restore-step.tsx:379-381` says that a failed or stalled addition never landed; a 422 on a resend
  after the first request landed (`local-enrollment-core.ts:291-294`) is a counterexample.
- A phone whose registration is marked failed while its account exists gets `owner-unavailable` on every
  new try.
- `api/src/cache/namespace.ts:129-150`: the generation is that of the namespace, so invalidating one key
  may make `fresh` of another return an entry that is not. Nothing in the program reads through it yet.
- A holder whose inbox was wiped and refilled past the cursor before the phone looked: undetectable by
  rowids, as `outbox-store.ts:56-62` says; `gap` in `CatchUp` leaves it out by name.

## Abstractions, module by module

- **Registry**: EIP-712 and ECDSA are a set of (signer, intent) pairs, any of them ever made; a handle is
  valid or not; deadlines and versions are small numbers.
- **Delivery**: one message, as every job and table is keyed by it; `generation` counts sessions, stop and
  start being one bump each in the code with no job created between them; order of candidates is left open.
- **DirectChat**: a verification ends well or badly (how is in `PeerSessions`); the interrupts of a race
  come one dial at a time; a retry on a disconnected peer is a stutter; a kill of the sender is
  `GiveUp`; sync streams, which share the inbound limit, are left out. A frame of an earlier attempt
  that is served late is the same as one stored first.
- **PeerSessions**: handle, account and qid are one value; lookups other than the roster's are left out;
  `recipientPeerIds` only reads. **HolderSessions**: suspends shorter than the threshold and clocks set back
  are left out.
- **CatchUp**: a page is any number of rows up to the limit, as rows have any size; encryption and
  framing are left out.
- **OutboxRuntime**: times are what is left of them; the last delay stands for the attempts made.
- **Enrollment**: `MaxStored` and `MaxTime` bound it; the API's clock is the chain's; reorganisations,
  dropped transactions and accounts registered past the API are left out; of the roster checks
  only the nonce counts; owners are not rotated; a code is external.
- **DeviceLink**: nodes never go back, and one of the two is a change behind at most; `ready` and
  `submitted`, `expired` and `reverted` are one each; others only remove keys; a posted copy may
  arrive at any time and again; the handlers of a command that has ended
  (`Exit`) go on until its process ends (`Die`); reconcile and resume refreshes are one; the hello's single claim and the
  session's expiry are left out; a secret without identity is a conflict for ever, as in the code.
- **PhoneIdentity**: an operation whose turn for the permit has come reads its record before its user gets to
  a reset (`Prompt`): milliseconds against several screens. Without it TLC finds, with two random nonces, an operation that
  waits through a backup and into a reset and writes its record after the reset has deleted that. Reading the record, the lookup
  of the account and the chain's time are steps of their own. Everyone asks for one handle; an intent is its digest; a request with a code that admits
  nobody is refused, unless the intent is known, and leaves nothing behind at the API, so only the others are `posted`; a request is sent in the step
  that saves its record (a kill between is one that never arrives); the API's handlers are atomic; the
  phone's clock is the chain's; registry reads do not lag; `OWNER_CHANGED` and `REMOVED` are `final`;
  registration and enrollment never overlap; `findRecoveryAccount` is a guard of `Restore`. The code's
  own check of a record compares the owner; the property compares the key too.

## Not modelled

- *API http surface and shell, CLI shell, deployment*: routing, decoding, configuration, wiring.
- *API registry cache*: only its invalidation is called by the program; reads through it are in tests.
- *Registry readers*: the parts that decode results; what an authorisation reads is in `PeerSessions`.
- *Identity cryptography and codecs, wire frames*: pure functions over bytes; decoded as a whole or
  refused. The packing of a page is in `CatchUp`.
- *Mobile user interface, web site, experiments, lint rules*: no protocol state of their own; which
  calls screens make is an input of the models.
- *libp2p, SQLite, the secure store, the EVM node*: assumed to fail at any point, to be atomic per
  transaction or per key, and to have a head that only moves on.

## What is left

1. Composition of `PeerSessions` with `DirectChat`, in place of the abstract verification.
2. Owner rotation and reorganisations in `Enrollment`, and a clock of the API that differs from the chain's.
3. Abstract specifications for `DeviceLink` (a key is offered, approved, a device or dropped) and `PhoneIdentity`.
