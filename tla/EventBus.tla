------------------------------- MODULE EventBus -------------------------------
(***************************************************************************)
(* One Redis stream read by one consumer group through EventConsumer        *)
(* (shared/shared/eventbus.py), as every agent and worker of the pipeline  *)
(* does: publish_event appends to a capped stream, a service tick reads a  *)
(* batch of new entries and handles them one by one, then reclaims the     *)
(* entries left unacknowledged for longer than the idle threshold.  An     *)
(* entry whose handler raises stays in the PEL until its delivery count    *)
(* reaches max_retries, when it is copied to the dead-letter stream and    *)
(* acknowledged.                                                           *)
(*                                                                         *)
(* The handler is the environment: it returns or raises.  Stream ids are   *)
(* the naturals; id 0 means "not published".                               *)
(***************************************************************************)
EXTENDS Naturals, FiniteSets

CONSTANTS
  Messages,        \* envelopes that may be published
  Poison,          \* entries that _decode cannot validate
  Consumers,       \* processes reading with the group
  BatchSize,       \* COUNT of XREADGROUP
  MaxRetries,      \* DEFAULT_MAX_RETRIES
  MaxLen,          \* MAXLEN of the stream (approximate trimming)
  MaxDeliveries,   \* bound: the entry of m does not go stale after MaxDeliveries[m] deliveries
  Fragile,         \* bound: messages whose handler may raise
  MaxCrashes,      \* bound: process deaths
  None             \* no message in hand

ASSUME BusAssumption ==
  /\ IsFiniteSet(Messages)
  /\ Poison \subseteq Messages
  /\ BatchSize \in Nat \ {0}
  /\ MaxRetries \in Nat \ {0}
  /\ MaxLen \in Nat
  /\ MaxDeliveries \in [Messages -> Nat]
  /\ MaxCrashes \in Nat
  /\ None \notin Messages

VARIABLES
  id,              \* id[m]: stream id of m, 0 before XADD
  lastId,          \* id of the newest entry
  cursor,          \* last-delivered-id of the group
  trimmed,         \* entries with an id up to this one have been trimmed
  deliveries,      \* times_delivered of m, kept after the acknowledgement
  pel,             \* pending entries list of the group
  stale,           \* pending entries idle for at least idle_ms
  dead,            \* entries copied to the dead-letter stream
  pc,              \* where each consumer is in its tick
  inbox,           \* entries of the current batch still to be handled
  hand,            \* the ConsumedMessage being handled
  handled,         \* history: messages whose handler returned
  crashes          \* number of process deaths so far

streamVars == <<id, lastId, trimmed>>
groupVars == <<cursor, deliveries, pel, stale, dead>>
consumerVars == <<pc, inbox, hand>>
vars == <<streamVars, groupVars, consumerVars, handled, crashes>>

-------------------------------------------------------------------------------
\* Where a consumer can be: between two ticks, or iterating one of the two
\* generators (read, reclaim_stale) and about to: ask it for the next message,
\* run the handler, acknowledge, or call fail().
Phase == {"read", "reclaim"}
Step == {"next", "handle", "ack", "fail"}
Location == [phase : Phase, step : Step] \cup {[phase |-> "idle", step |-> "next"]}

At(phase, step) == [phase |-> phase, step |-> step]
Idle == At("idle", "next")

\* An entry of a batch with the times_delivered known when it was listed, and
\* the message in hand with the delivery_count its handler was given.
Entry == [msg : Messages, count : Nat]
NoHand == [msg |-> None, count |-> 0]

Published == {m \in Messages : id[m] > 0}

Retained(m) == id[m] > trimmed

Unread == {m \in Messages : id[m] > cursor /\ Retained(m)}

\* XREADGROUP returns the oldest unread entries, at most COUNT of them.
NextBatch ==
  {m \in Unread : Cardinality({k \in Unread : id[k] < id[m]}) < BatchSize}

IsOldest(e, S) == \A f \in S : id[e.msg] <= id[f.msg]

\* Published, then dropped by the MAXLEN of a later XADD.
Expired == {m \in Published : id[m] <= trimmed}

Acked == {m \in Messages : deliveries[m] > 0 /\ m \notin pel}

TypeOK ==
  /\ id \in [Messages -> Nat]
  /\ lastId \in Nat
  /\ trimmed \in Nat
  /\ cursor \in Nat
  /\ deliveries \in [Messages -> Nat]
  /\ pel \subseteq Messages
  /\ stale \subseteq pel
  /\ dead \subseteq Messages
  /\ pc \in [Consumers -> Location]
  /\ inbox \in [Consumers -> SUBSET Entry]
  /\ hand \in [Consumers -> Entry \cup {NoHand}]
  /\ handled \subseteq Messages
  /\ crashes \in Nat

Init ==
  /\ id = [m \in Messages |-> 0]
  /\ lastId = 0
  /\ trimmed = 0
  /\ cursor = 0
  /\ deliveries = [m \in Messages |-> 0]
  /\ pel = {}
  /\ stale = {}
  /\ dead = {}
  /\ pc = [c \in Consumers |-> Idle]
  /\ inbox = [c \in Consumers |-> {}]
  /\ hand = [c \in Consumers |-> NoHand]
  /\ handled = {}
  /\ crashes = 0

-------------------------------------------------------------------------------
(* The stream and the passing of time *)

\* XADD with an approximate MAXLEN: Redis may drop the oldest entries, but never
\* so many that fewer than MAXLEN remain.
Publish(m) ==
  /\ id[m] = 0
  /\ lastId' = lastId + 1
  /\ id' = [id EXCEPT ![m] = lastId + 1]
  /\ \E t \in trimmed .. (lastId + 1) :
        /\ t > trimmed => t + MaxLen <= lastId + 1
        /\ trimmed' = t
  /\ UNCHANGED <<groupVars, consumerVars, handled, crashes>>

\* idle_ms elapse since the last delivery of a pending entry.
GoStale(m) ==
  /\ m \in pel \ stale
  /\ deliveries[m] < MaxDeliveries[m]
  /\ stale' = stale \cup {m}
  /\ UNCHANGED <<streamVars, cursor, deliveries, pel, dead, consumerVars, handled, crashes>>

-------------------------------------------------------------------------------
(* One tick of a consumer: read(), then reclaim_stale() *)

Goto(c, location) == pc' = [pc EXCEPT ![c] = location]
SetInbox(c, entries) == inbox' = [inbox EXCEPT ![c] = entries]
SetHand(c, e) == hand' = [hand EXCEPT ![c] = e]

\* XREADGROUP ">": the whole batch enters the PEL at once.
StartRead(c) ==
  /\ pc[c] = Idle
  /\ \E k \in cursor .. lastId :
        /\ \A m \in NextBatch : id[m] <= k
        /\ k = cursor \/ \E m \in NextBatch : id[m] = k
        /\ cursor' = k
  /\ deliveries' = [m \in Messages |-> IF m \in NextBatch THEN 1 ELSE deliveries[m]]
  /\ pel' = pel \cup NextBatch
  /\ SetInbox(c, {[msg |-> m, count |-> 1] : m \in NextBatch})
  /\ Goto(c, At("read", "next"))
  /\ UNCHANGED <<streamVars, stale, dead, hand, handled, crashes>>

\* The exception of _decode leaves the generator, hence the tick: the entries
\* of the batch that follow stay in the PEL.
AbortTick(c) ==
  /\ SetInbox(c, {})
  /\ Goto(c, Idle)
  /\ UNCHANGED hand

\* The generator yields an entry with its delivery count.
Yield(c, e, count) ==
  /\ SetInbox(c, inbox[c] \ {e})
  /\ SetHand(c, [msg |-> e.msg, count |-> count])
  /\ Goto(c, At(pc[c].phase, "handle"))

\* _delivery_count: the PEL's counter, 1 when the entry is no longer pending.
DeliveryCount(m) == IF m \in pel THEN deliveries[m] ELSE 1

NextRead(c) ==
  /\ pc[c] = At("read", "next")
  /\ \E e \in inbox[c] :
        /\ IsOldest(e, inbox[c])
        /\ IF e.msg \in Poison THEN AbortTick(c)
                               ELSE Yield(c, e, DeliveryCount(e.msg))
  /\ UNCHANGED <<streamVars, groupVars, handled, crashes>>

\* Mutant: nothing is listed.
StaleIgnored == {}

\* XPENDING ... IDLE: the entries to reclaim, with their counters of this instant.
StaleEntries == {[msg |-> m, count |-> deliveries[m]] : m \in stale}

StartReclaim(c) ==
  /\ pc[c] = At("read", "next")
  /\ inbox[c] = {}
  /\ SetInbox(c, StaleEntries)
  /\ Goto(c, At("reclaim", "next"))
  /\ UNCHANGED <<streamVars, groupVars, hand, handled, crashes>>

\* XCLAIM succeeds only if the entry is still pending and idle; it increments
\* the counter and restarts the idle time.
Claim(m) ==
  /\ m \in stale
  /\ Retained(m)
  /\ deliveries' = [deliveries EXCEPT ![m] = @ + 1]
  /\ stale' = stale \ {m}
  /\ UNCHANGED pel

\* XCLAIM of an entry the stream no longer holds removes it from the PEL and
\* returns nothing.
ClaimTrimmed(m) ==
  /\ m \in stale
  /\ ~Retained(m)
  /\ pel' = pel \ {m}
  /\ stale' = stale \ {m}
  /\ UNCHANGED deliveries

Skip(c, e) ==
  /\ SetInbox(c, inbox[c] \ {e})
  /\ UNCHANGED <<pc, hand>>

NextClaim(c) ==
  /\ pc[c] = At("reclaim", "next")
  /\ \E e \in inbox[c] :
        /\ IsOldest(e, inbox[c])
        /\ \/ /\ Claim(e.msg)
              /\ IF e.msg \in Poison THEN AbortTick(c)
                                     ELSE Yield(c, e, e.count)
           \/ /\ ClaimTrimmed(e.msg)
              /\ Skip(c, e)
           \/ /\ e.msg \notin stale
              /\ Skip(c, e)
              /\ UNCHANGED <<deliveries, pel, stale>>
  /\ UNCHANGED <<streamVars, cursor, dead, handled, crashes>>

EndTick(c) ==
  /\ pc[c] = At("reclaim", "next")
  /\ inbox[c] = {}
  /\ Goto(c, Idle)
  /\ UNCHANGED <<streamVars, groupVars, inbox, hand, handled, crashes>>

-------------------------------------------------------------------------------
(* The message in hand *)

HandlerReturns(c) ==
  /\ pc[c].step = "handle"
  /\ handled' = handled \cup {hand[c].msg}
  /\ Goto(c, At(pc[c].phase, "ack"))
  /\ UNCHANGED <<streamVars, groupVars, inbox, hand, crashes>>

\* Mutant: the exception is swallowed and the entry acknowledged.
HandlerRaisesThenAcks(c) ==
  /\ pc[c].step = "handle"
  /\ hand[c].msg \in Fragile
  /\ Goto(c, At(pc[c].phase, "ack"))
  /\ UNCHANGED <<streamVars, groupVars, inbox, hand, handled, crashes>>

HandlerRaises(c) ==
  /\ pc[c].step = "handle"
  /\ hand[c].msg \in Fragile
  /\ Goto(c, At(pc[c].phase, "fail"))
  /\ UNCHANGED <<streamVars, groupVars, inbox, hand, handled, crashes>>

\* XACK removes the entry whoever holds it.
Ack(c) ==
  /\ pc[c].step = "ack"
  /\ pel' = pel \ {hand[c].msg}
  /\ stale' = stale \ {hand[c].msg}
  /\ SetHand(c, NoHand)
  /\ Goto(c, At(pc[c].phase, "next"))
  /\ UNCHANGED <<streamVars, cursor, deliveries, dead, inbox, handled, crashes>>

\* fail() below max_retries: the entry stays in the PEL.
FailAndRetry(c) ==
  /\ pc[c].step = "fail"
  /\ hand[c].count < MaxRetries
  /\ SetHand(c, NoHand)
  /\ Goto(c, At(pc[c].phase, "next"))
  /\ UNCHANGED <<streamVars, groupVars, inbox, handled, crashes>>

\* Mutant: the entry is acknowledged without a dead letter.
GiveUpSilently(c) ==
  /\ pc[c].step = "fail"
  /\ hand[c].count >= MaxRetries
  /\ Goto(c, At(pc[c].phase, "ack"))
  /\ UNCHANGED <<streamVars, groupVars, inbox, hand, handled, crashes>>

\* fail() at max_retries: XRANGE, XADD to the dead-letter stream when the entry
\* still exists, then ack().
FailAndGiveUp(c) ==
  /\ pc[c].step = "fail"
  /\ hand[c].count >= MaxRetries
  /\ dead' = IF Retained(hand[c].msg) THEN dead \cup {hand[c].msg} ELSE dead
  /\ Goto(c, At(pc[c].phase, "ack"))
  /\ UNCHANGED <<streamVars, cursor, deliveries, pel, stale, inbox, hand, handled, crashes>>

\* The process dies: the batch and the message in hand are lost, the PEL is not.
Crash(c) ==
  /\ pc[c] # Idle
  /\ crashes < MaxCrashes
  /\ crashes' = crashes + 1
  /\ SetInbox(c, {})
  /\ SetHand(c, NoHand)
  /\ Goto(c, Idle)
  /\ UNCHANGED <<streamVars, groupVars, handled>>

-------------------------------------------------------------------------------
Handler(c) == HandlerReturns(c) \/ HandlerRaises(c)

ServiceStep(c) ==
  \/ StartRead(c)
  \/ NextRead(c)
  \/ StartReclaim(c)
  \/ NextClaim(c)
  \/ EndTick(c)
  \/ Handler(c)
  \/ Ack(c)
  \/ FailAndRetry(c)
  \/ FailAndGiveUp(c)

Next ==
  \/ \E m \in Messages : Publish(m) \/ GoStale(m)
  \/ \E c \in Consumers : ServiceStep(c) \/ Crash(c)

Spec == Init /\ [][Next]_vars

\* run_service calls tick again and again, every handler returns or raises
\* (its database and HTTP calls have timeouts), and time passes.
Fairness ==
  /\ \A c \in Consumers : WF_vars(ServiceStep(c))
  /\ \A m \in Messages : WF_vars(GoStale(m))

FairSpec == Spec /\ Fairness

-------------------------------------------------------------------------------
(* Properties *)

\* An entry the group has moved past is still pending, or its handler returned,
\* or it is in the dead-letter stream, or retention removed it: the order
\* handle-then-XACK, and XADD-then-XACK in fail(), leave no window in which a
\* crash or a second consumer loses a message.
NothingLost ==
  \A m \in Messages :
    0 < id[m] /\ id[m] <= cursor =>
      \/ m \in pel
      \/ m \in handled
      \/ m \in dead
      \/ ~Retained(m)

\* The inductive strengthening of NothingLost: what the group knows of a message
\* is consistent, and a message about to be acknowledged already has its answer.
GroupConsistent ==
  /\ cursor <= lastId
  /\ \A m \in Messages :
        /\ id[m] <= lastId
        /\ deliveries[m] > 0 => 0 < id[m] /\ id[m] <= cursor
        /\ m \in pel => deliveries[m] > 0

HandConsistent ==
  \A c \in Consumers :
    /\ \A e \in inbox[c] : deliveries[e.msg] > 0
    /\ pc[c].step # "next" =>
          /\ hand[c].msg \in Messages
          /\ deliveries[hand[c].msg] > 0
    /\ pc[c].step = "ack" =>
          \/ hand[c].msg \in handled
          \/ hand[c].msg \in dead
          \/ ~Retained(hand[c].msg)

BusInv == TypeOK /\ GroupConsistent /\ HandConsistent /\ NothingLost

\* The header of eventbus.py: a message is retried a bounded number of times
\* and then routed to the dead-letter stream, whatever makes it fail.
BoundedRetryThenDeadLetter ==
  \A m \in Messages : deliveries[m] > MaxRetries + 1 => m \in dead

\* Every published message is eventually acknowledged, or trimmed.
EventuallySettled ==
  \A m \in Messages : id[m] > 0 ~> (m \in Acked \/ ~Retained(m))

\* The group implements at-least-once delivery.
Queue == INSTANCE ReliableQueue WITH
  published <- Published,
  expired <- Expired,
  settled <- Acked

AtLeastOnce == Queue!Spec
=============================================================================
