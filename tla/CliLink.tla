------------------------------- MODULE CliLink -------------------------------
(***************************************************************************)
(* The CLI's side of linking: `qop link` (cli/src/pairing-link.ts) with    *)
(* its pairing session, its poll and its files: device.key, identity.json  *)
(* and pending-approval.json.  The phone's approvals are taken by handlers *)
(* that run while the command polls, each with awaits between what it      *)
(* reads and what it writes.  The command may be killed anywhere: the      *)
(* files stay.                                                             *)
(*                                                                         *)
(* A key is linked to this account only, and one phone claims the session. *)
(***************************************************************************)
EXTENDS ActionService

CONSTANTS Handlers,      \* pairing streams: one for every approval that is sent
          MaxCommands    \* bound: times the user runs `qop link`

ASSUME CliAssumption == MaxCommands \in Nat

VARIABLES secret, identity, approval,   \* device.key, identity.json, pending-approval.json
          commands,      \* runs of `qop link` so far
          minted,        \* keys ever generated
          saved,         \* approvals ever written to pending-approval.json
          cli,           \* runLink: where it is, the key it offers, the secret its endpoint runs with
          handlers       \* the pairing streams being handled

files   == <<secret, identity, approval, minted, saved>>
cliVars == <<files, commands, cli, handlers>>

\* An approval that was read, and what the API said of it.
NotRead == [pending |-> NoApproval, answer |-> "unknown"]
Reading == [pending : Approvals \cup {NoApproval}, answer : {"missing", "unknown"} \cup Terminal]

Off         == [pc |-> "off", endpoint |-> NoKey, key |-> NoKey, seen |-> NotRead]
IdleHandler == [pc |-> "idle", rec |-> NoApproval, fits |-> FALSE, seen |-> NotRead]
Replying    == [IdleHandler EXCEPT !.pc = "reply"]

CliTypeOK ==
    /\ secret \in Keys \cup {NoKey} /\ identity \in Keys \cup {NoKey}
    /\ identity # NoKey => secret # NoKey
    /\ commands \in 0..MaxCommands
    /\ approval \in saved \cup {NoApproval} /\ saved \subseteq Approvals
    /\ {secret, identity} \subseteq minted \cup {NoKey} /\ minted \subseteq Keys
    /\ cli \in [pc : {"off", "mint", "ask", "look", "rotate", "rewrite", "unlink",
                      "clear", "load", "free"},
                endpoint : Keys \cup {NoKey}, key : Keys \cup {NoKey}, seen : Reading]
    /\ handlers \in [Handlers -> [pc : {"idle", "load", "check", "save", "reply"},
                                  rec : Approvals \cup {NoApproval}, fits : BOOLEAN, seen : Reading]]

CliInit ==
    /\ secret = NoKey /\ identity = NoKey /\ approval = NoApproval
    /\ minted = {} /\ saved = {} /\ commands = 0
    /\ cli = Off
    /\ handlers = [h \in Handlers |-> IdleHandler]

\* The pairing session is open.
Up == cli.endpoint # NoKey

\* The command ends: its endpoint closes, and its process goes on until the handlers are done.
Exit == cli' = Off /\ UNCHANGED handlers
\* The process ends.
Die  == cli' = Off /\ handlers' = [h \in Handlers |-> IdleHandler]
CliGoto(pc, seen) == cli' = [cli EXCEPT !.pc = pc, !.seen = seen] /\ UNCHANGED handlers

\* It is killed or fails, or its poll runs out of attempts.
CliStops ==
    /\ cli.pc # "off"
    /\ Die \/ (Up /\ cli.pc = "ask" /\ Exit)
    /\ UNCHANGED <<serviceVars, files, commands>>

\* The file is read and the API asked for what it names; that the action is under way says no
\* more to the CLI than no answer at all.
Readings ==
    LET told == {"unknown"} \cup (IF approval = NoApproval THEN {} ELSE {Answer(approval)} \ {"active"})
    IN  {[pending |-> approval, answer |-> answer] : answer \in told}

-----------------------------------------------------------------------------
(* Keys.                                                                   *)

NewSecret == \E k \in Keys \ minted : secret' = k /\ minted' = minted \cup {k}

StartCommand(pc, key) ==
    /\ cli.pc = "off" /\ commands < MaxCommands
    /\ commands' = commands + 1
    /\ cli' = [Off EXCEPT !.pc = pc, !.key = key]

\* createPendingKey: the key there is, or a new one, but never over a secret without identity.
BeginCommand ==
    /\ identity # NoKey
    /\ StartCommand("ask", identity)
    /\ UNCHANGED <<serviceVars, files, handlers>>
FirstCommand ==
    /\ identity = NoKey /\ secret = NoKey
    /\ NewSecret
    /\ StartCommand("mint", NoKey)
    /\ UNCHANGED <<serviceVars, identity, approval, saved, handlers>>
WriteIdentity ==
    /\ cli.pc = "mint"
    /\ identity' = secret
    /\ cli' = [Off EXCEPT !.pc = "ask", !.key = secret]
    /\ UNCHANGED <<serviceVars, secret, approval, minted, saved, handlers, commands>>

\* rotatePendingKey: the secret, the identity, then the old key's approval goes.
\* Before the session the command goes on with the new key, after it it ends.
RotateSecret ==
    /\ cli.pc = "rotate"
    /\ NewSecret
    /\ CliGoto("rewrite", NotRead)
    /\ UNCHANGED <<serviceVars, identity, approval, saved, commands>>
RotateIdentity ==
    /\ cli.pc = "rewrite"
    /\ identity' = secret
    /\ CliGoto("unlink", NotRead)
    /\ UNCHANGED <<serviceVars, secret, approval, minted, saved, commands>>
ClearApproval ==
    /\ cli.pc \in {"unlink", "clear"}
    /\ approval' = NoApproval
    /\ IF Up THEN Exit
       ELSE /\ cli' = [cli EXCEPT !.pc = "load", !.key = identity]
            /\ UNCHANGED handlers
    /\ UNCHANGED <<serviceVars, secret, identity, minted, saved, commands>>

-----------------------------------------------------------------------------
(* The enrollment state, before the session and at every poll.  A poll     *)
(* that sees the key active ends, so that only the marker tells of an      *)
(* earlier addition.                                                       *)

\* Of the API's answers only a final status counts.
AskStatus ==
    /\ cli.pc = "ask"
    /\ \E seen \in Readings :
         CliGoto("look", [NotRead EXCEPT !.answer = IF seen.answer = "missing" THEN @ ELSE seen.answer])
    /\ UNCHANGED <<serviceVars, files, commands>>

MutAdded(marker) == marker \/ cli.seen.answer = "confirmed"
\* A key that is not active was added only if the registry's marker says so.
Added(marker) == marker

\* readEnrollmentState's registry part; the removal marker may not be readable.
Look ==
    /\ cli.pc = "look"
    /\ \E marker \in {FALSE, cli.key \in cliView.removed} :
         LET membership == Membership(cli.key, cliView, Added(marker))
         IN  CASE membership = "linked" -> Exit
               [] membership = "removed" -> CliGoto("rotate", NotRead)
               [] membership = "pending" /\ cli.seen.answer = "failed" -> CliGoto("clear", NotRead)
               [] OTHER -> CliGoto(IF Up THEN "ask" ELSE "load", NotRead)
    /\ UNCHANGED <<serviceVars, files, commands>>

-----------------------------------------------------------------------------
(* loadOccupyingApproval, by the command and by every handler.             *)

ViewTimes == {Unknown, cliView.time}
Occupied(seen, time) ==
    /\ seen.pending # NoApproval
    /\ Occupies(seen.pending, seen.answer, IF seen.answer \in Terminal THEN seen.answer ELSE "none",
                time, "pending")

\* What the handler goes on with, and what becomes of the file.
Loaded(seen, time) == IF Occupied(seen, time) THEN seen.pending ELSE NoApproval
FreeSlot(seen, time) ==
    approval' = IF seen.pending # NoApproval /\ ~Occupied(seen, time) THEN NoApproval ELSE approval

LoadFirst ==
    /\ cli.pc = "load"
    /\ \E seen \in Readings : CliGoto("free", seen)
    /\ UNCHANGED <<serviceVars, files, commands>>
\* The session opens: the endpoint is up, the offer is shown, the poll starts.
FreeFirst ==
    /\ cli.pc = "free"
    /\ \E time \in ViewTimes : FreeSlot(cli.seen, time)
    /\ cli' = [cli EXCEPT !.pc = "ask", !.endpoint = secret, !.seen = NotRead]
    /\ UNCHANGED <<serviceVars, secret, identity, minted, saved, handlers, commands>>

-----------------------------------------------------------------------------
(* receiveApproval of the session.                                         *)

\* The phone pins the connection to the offered key.
Paired(key) == Up /\ cli.endpoint = key /\ cli.key = key

\* assertNewOccupancy, on the account snapshot.
Acceptable(d) ==
    /\ d.nonce = cliView.nonce
    /\ ~ExpiredFor(d, cliView.time)
    /\ d.deadline <= cliView.time + Horizon

\* The frame arrives and the account is read.
Receive(h, d) ==
    /\ handlers[h].pc = "idle"
    /\ Paired(d.key) /\ d.op = "add"
    /\ handlers' = [handlers EXCEPT ![h] =
         [pc |-> "load", rec |-> d, fits |-> Acceptable(d), seen |-> NotRead]]
    /\ UNCHANGED <<serviceVars, files, cli, commands>>
LoadPending(h) ==
    /\ handlers[h].pc = "load"
    /\ \E seen \in Readings : handlers' = [handlers EXCEPT ![h].pc = "check", ![h].seen = seen]
    /\ UNCHANGED <<serviceVars, files, cli, commands>>

\* acknowledgeApproval: the same approval again, a free slot, or a conflict.
CheckApproval(h) ==
    /\ handlers[h].pc = "check"
    /\ \E time \in ViewTimes :
         LET pending == Loaded(handlers[h].seen, time) IN
         /\ FreeSlot(handlers[h].seen, time)
         /\ handlers' = [handlers EXCEPT ![h] =
              CASE pending = handlers[h].rec -> Replying
                [] pending = NoApproval /\ @.fits -> [@ EXCEPT !.pc = "save", !.seen = NotRead, !.fits = FALSE]
                [] OTHER -> IdleHandler]
    /\ UNCHANGED <<serviceVars, secret, identity, minted, saved, cli, commands>>
SaveApproval(h) ==
    /\ handlers[h].pc = "save"
    /\ approval' = handlers[h].rec
    /\ saved' = saved \cup {handlers[h].rec}
    /\ handlers' = [handlers EXCEPT ![h] = Replying]
    /\ UNCHANGED <<serviceVars, secret, identity, minted, cli, commands>>
\* The reply goes out, or is lost.
Replied(h) ==
    /\ handlers[h].pc = "reply"
    /\ handlers' = [handlers EXCEPT ![h] = IdleHandler]
    /\ UNCHANGED <<serviceVars, files, cli, commands>>

CliStep ==
    \/ CliStops \/ BeginCommand \/ FirstCommand \/ WriteIdentity
    \/ RotateSecret \/ RotateIdentity \/ ClearApproval \/ AskStatus \/ Look \/ LoadFirst \/ FreeFirst
    \/ \E h \in Handlers : LoadPending(h) \/ CheckApproval(h) \/ SaveApproval(h) \/ Replied(h)
=============================================================================
