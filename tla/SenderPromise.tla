----------------------------- MODULE SenderPromise -----------------------------
(***************************************************************************)
(* What the sender of a message is promised, whatever jobs, sessions and   *)
(* attempts are behind it: a message is sent when it arrived, held when a  *)
(* named holder was entrusted with it, and failed when nobody answers for  *)
(* it; once sent it stays so, and a held one does not fail unless a holder *)
(* refused it. No jobs, requests, replies, caches or generations.          *)
(***************************************************************************)
CONSTANTS Holders, NoHolder

VARIABLES
  shown, holder,  \* what the sender sees, and who is named as the holder
  entrusted,      \* holders that have the message or are bound to get it
  arrived,        \* does a device of the recipient have it?
  reported,       \* holders that say it arrived
  refused         \* holders that gave it up

promiseVars == <<shown, holder, entrusted, arrived, reported, refused>>

Init ==
  /\ shown = "none" /\ holder = NoHolder
  /\ entrusted = {} /\ reported = {} /\ refused = {}
  /\ arrived = FALSE

Show(s, h) == shown' = s /\ holder' = h

Compose ==
  /\ shown = "none"
  /\ Show("sending", NoHolder) \/ Show("failed", NoHolder)
  /\ UNCHANGED <<entrusted, arrived, reported, refused>>

Retry ==
  /\ shown = "failed"
  /\ Show("sending", NoHolder)
  /\ UNCHANGED <<entrusted, arrived, reported, refused>>

(* Nothing is taken back from a holder.                                    *)
Entrust(more) == shown # "none" /\ entrusted' = entrusted \cup more

Confirm ==
  /\ shown \in {"sending", "failed", "held"} /\ arrived
  /\ Show("sent", NoHolder)

(* The named holder may be another one than before. *)
Hold(h) ==
  /\ shown \in {"sending", "held"} /\ h \in entrusted'
  /\ Show("held", h)

Fail ==
  /\ shown = "sending" \/ (shown = "held" /\ refused # {})
  /\ Show("failed", NoHolder)

(* The phone learns something; requests it no longer follows may be left.  *)
PhoneStep ==
  /\ \E more \in SUBSET Holders : Entrust(more)
  /\ \/ Confirm \/ Fail \/ UNCHANGED <<shown, holder>>
     \/ \E h \in Holders : Hold(h)
  /\ UNCHANGED <<arrived, reported, refused>>

ArriveDirectly ==
  /\ shown # "none"
  /\ arrived' = TRUE
  /\ UNCHANGED <<shown, holder, entrusted, reported, refused>>

Undecided == entrusted \ (reported \cup refused)

(* A holder delivers as often as it takes until it is told of it.          *)
Deliver(h) ==
  /\ h \in Undecided
  /\ arrived' = TRUE
  /\ reported' \in {reported, reported \cup {h}}
  /\ UNCHANGED <<shown, holder, entrusted, refused>>

Refuse(h) ==
  /\ h \in Undecided
  /\ refused' = refused \cup {h}
  /\ UNCHANGED <<shown, holder, entrusted, arrived, reported>>

Next ==
  \/ Compose \/ Retry \/ PhoneStep \/ ArriveDirectly
  \/ \E h \in Holders : Deliver(h) \/ Refuse(h)

Spec == Init /\ [][Next]_promiseVars
=============================================================================
