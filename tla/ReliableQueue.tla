---------------------------- MODULE ReliableQueue ----------------------------
(***************************************************************************)
(* What a consumer group promises to the service behind it, whatever the   *)
(* stream, the PEL and the retries look like: at-least-once delivery.  A   *)
(* published message may be handled any number of times; it leaves the     *)
(* group (is settled) only after it was handled once or was copied to the  *)
(* dead-letter stream, and once settled it never comes back.  The only     *)
(* other way out is retention: the stream is capped (MAXLEN), and an entry *)
(* trimmed before it was handled expires.                                  *)
(***************************************************************************)
EXTENDS Naturals

CONSTANT Messages       \* the messages that may be published

VARIABLES
  published,            \* messages added to the stream
  handled,              \* messages whose handler returned at least once
  dead,                 \* messages copied to the dead-letter stream
  expired,              \* messages dropped by the retention of the stream
  settled               \* messages the group will never deliver again

vars == <<published, handled, dead, expired, settled>>

TypeOK ==
  /\ published \subseteq Messages
  /\ handled \subseteq published
  /\ dead \subseteq published
  /\ expired \subseteq published
  /\ settled \subseteq published

Init ==
  /\ published = {}
  /\ handled = {}
  /\ dead = {}
  /\ expired = {}
  /\ settled = {}

Publish(m) ==
  /\ m \notin published
  /\ published' = published \cup {m}

Expire(S) == expired' = expired \cup S

\* A publication may push older entries out of the stream.
PublishAndTrim(m, S) ==
  /\ Publish(m)
  /\ S \subseteq published'
  /\ Expire(S)
  /\ UNCHANGED <<handled, dead, settled>>

\* The handler of an unsettled message ran to its end; possibly again.
Handle(m) ==
  /\ m \in published
  /\ handled' = handled \cup {m}
  /\ UNCHANGED <<published, dead, expired, settled>>

\* A handler gave up on the message after too many deliveries.
GiveUp(m) ==
  /\ m \in published
  /\ dead' = dead \cup {m}
  /\ UNCHANGED <<published, handled, expired, settled>>

Settle(m) ==
  /\ m \in handled \cup dead \cup expired
  /\ settled' = settled \cup {m}
  /\ UNCHANGED <<published, handled, dead, expired>>

Next ==
  \E m \in Messages :
    \/ \E S \in SUBSET Messages : PublishAndTrim(m, S)
    \/ Handle(m)
    \/ GiveUp(m)
    \/ Settle(m)

Spec == Init /\ [][Next]_vars

\* A settled message was handled, dead-lettered or lost to retention.
SettledWasAnswered == settled \subseteq handled \cup dead \cup expired
=============================================================================
