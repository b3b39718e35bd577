---------------------------- MODULE EventBusProofs ----------------------------
(***************************************************************************)
(* Proofs about EventBus: the inductive invariant BusInv, hence type       *)
(* correctness and NothingLost, and the refinement of ReliableQueue.       *)
(***************************************************************************)
EXTENDS EventBus, FiniteSetTheorems, TLAPS

\* The locations written by the actions of a tick are locations.
LEMMA LocationType ==
  /\ Idle \in Location
  /\ Idle.step = "next"
  /\ \A p \in Phase, s \in Step :
        /\ At(p, s) \in Location
        /\ At(p, s).step = s
        /\ At(p, s).phase = p
  /\ \A l \in Location : l.step # "next" => l.phase \in Phase
  /\ Phase = {"read", "reclaim"}
  /\ Step = {"next", "handle", "ack", "fail"}
BY DEF Location, Idle, At, Phase, Step

\* XREADGROUP leaves no older retained entry behind: an unread entry that is not
\* newer than a member of the batch is a member of the batch.
LEMMA BatchIsPrefix ==
  ASSUME BusAssumption, TypeOK,
         NEW m \in Unread, NEW b \in NextBatch, id[m] <= id[b]
  PROVE  m \in NextBatch
<1> DEFINE Older(x) == {k \in Unread : id[k] < id[x]}
<1>1. IsFiniteSet(Older(b)) /\ IsFiniteSet(Older(m))
  BY FS_Subset DEF BusAssumption, Unread
<1>2. Older(m) \subseteq Older(b)
  BY DEF TypeOK, Unread, NextBatch
<1>3. Cardinality(Older(m)) <= Cardinality(Older(b))
  BY <1>1, <1>2, FS_Subset
<1>4. Cardinality(Older(b)) < BatchSize
  BY DEF NextBatch
<1>5. Cardinality(Older(m)) \in Nat /\ Cardinality(Older(b)) \in Nat
  BY <1>1, FS_CardinalityType
<1>6. Cardinality(Older(m)) < BatchSize
  BY <1>3, <1>4, <1>5 DEF BusAssumption
<1> QED
  BY <1>6 DEF NextBatch

\* The initial state satisfies the invariant.
LEMMA InitEstablishes == BusAssumption /\ Init => BusInv
BY LocationType DEF BusAssumption, Init, BusInv, TypeOK, GroupConsistent, HandConsistent, NothingLost,
   Idle, At, Entry, NoHand

\* XADD keeps the invariant: the new id is above every id and the cursor.
LEMMA PublishKeeps ==
  ASSUME BusAssumption, BusInv, NEW m \in Messages, Publish(m)
  PROVE  BusInv'
<1> USE LocationType DEF BusInv, Publish, groupVars, consumerVars
<1>1. TypeOK'
  BY DEF TypeOK, HandConsistent, Entry, NoHand
<1>2. GroupConsistent'
  BY DEF TypeOK, GroupConsistent, HandConsistent, Entry, Retained
<1>3. HandConsistent'
  BY DEF TypeOK, GroupConsistent, HandConsistent, Entry, NoHand, Retained
<1>4. NothingLost'
  BY DEF TypeOK, GroupConsistent, HandConsistent, NothingLost, Entry, Retained
<1> QED
  BY <1>1, <1>2, <1>3, <1>4

\* The passing of time keeps the invariant.
LEMMA GoStaleKeeps ==
  ASSUME BusAssumption, BusInv, NEW m \in Messages, GoStale(m)
  PROVE  BusInv'
<1> USE LocationType DEF BusInv, GoStale, streamVars, consumerVars
<1>1. TypeOK'
  BY DEF TypeOK, HandConsistent, Entry, NoHand
<1>2. GroupConsistent'
  BY DEF TypeOK, GroupConsistent, HandConsistent, Entry, Retained
<1>3. HandConsistent'
  BY DEF TypeOK, GroupConsistent, HandConsistent, Entry, NoHand, Retained
<1>4. NothingLost'
  BY DEF TypeOK, GroupConsistent, HandConsistent, NothingLost, Entry, Retained
<1> QED
  BY <1>1, <1>2, <1>3, <1>4

\* XREADGROUP keeps the invariant: the cursor moves over the batch and over
\* trimmed entries only.
LEMMA StartReadKeeps ==
  ASSUME BusAssumption, BusInv, NEW c \in Consumers, StartRead(c)
  PROVE  BusInv'
<1> USE LocationType DEF BusInv
<1> DEFINE batch == {[msg |-> m, count |-> 1] : m \in NextBatch}
<1>1. PICK k \in cursor .. lastId :
        /\ \A m \in NextBatch : id[m] <= k
        /\ k = cursor \/ \E m \in NextBatch : id[m] = k
        /\ cursor' = k
  BY DEF StartRead
<1>2. /\ deliveries' = [m \in Messages |-> IF m \in NextBatch THEN 1 ELSE deliveries[m]]
      /\ pel' = pel \cup NextBatch
      /\ inbox' = [inbox EXCEPT ![c] = batch]
      /\ pc' = [pc EXCEPT ![c] = At("read", "next")]
      /\ UNCHANGED <<id, lastId, trimmed, stale, dead, hand, handled, crashes>>
  BY Zenon DEF StartRead, SetInbox, Goto, streamVars
<1>3. /\ NextBatch \subseteq Messages
      /\ \A m \in NextBatch : cursor < id[m] /\ Retained(m)
  BY DEF NextBatch, Unread, TypeOK
<1>4. batch \in SUBSET Entry
  BY <1>3 DEF Entry
<1>5. k \in Nat /\ cursor <= k /\ k <= lastId
  BY <1>1 DEF TypeOK
<1>6. TypeOK'
  BY <1>1, <1>2, <1>3, <1>4, <1>5 DEF TypeOK
<1>7. GroupConsistent'
  BY <1>1, <1>2, <1>3, <1>5 DEF TypeOK, GroupConsistent
<1>8. HandConsistent'
  <2> SUFFICES ASSUME NEW d \in Consumers
               PROVE  /\ \A e \in inbox'[d] : deliveries'[e.msg] > 0
                      /\ pc'[d].step # "next" =>
                            /\ hand'[d].msg \in Messages
                            /\ deliveries'[hand'[d].msg] > 0
                      /\ pc'[d].step = "ack" =>
                            \/ hand'[d].msg \in handled
                            \/ hand'[d].msg \in dead
                            \/ ~Retained(hand'[d].msg)
    BY <1>2 DEF HandConsistent, Retained
  <2>1. \A e \in batch : deliveries'[e.msg] > 0
    BY <1>2, <1>3
  <2>2. \A m \in Messages : deliveries[m] > 0 => deliveries'[m] > 0
    BY <1>2, <1>3
  <2>3. CASE d = c
    BY <1>2, <2>1, <2>3 DEF TypeOK
  <2>4. CASE d # c
    <3>1. inbox'[d] = inbox[d] /\ pc'[d] = pc[d] /\ hand'[d] = hand[d]
      BY <1>2, <2>4 DEF TypeOK
    <3>2. \A e \in inbox[d] : e.msg \in Messages
      BY DEF TypeOK, Entry
    <3> QED
      BY <1>2, <2>2, <3>1, <3>2 DEF HandConsistent, Retained
  <2> QED
    BY <2>3, <2>4
<1>9. NothingLost'
  <2> SUFFICES ASSUME NEW m \in Messages, 0 < id[m], id[m] <= k, Retained(m)
               PROVE  m \in pel' \/ m \in handled \/ m \in dead
    BY <1>1, <1>2 DEF NothingLost, Retained
  <2>1. CASE id[m] <= cursor
    BY <1>2, <2>1 DEF NothingLost
  <2>2. CASE id[m] > cursor
    <3>1. m \in Unread
      BY <2>2 DEF Unread
    <3>2. PICK b \in NextBatch : id[m] <= id[b]
      BY <1>1, <2>2 DEF TypeOK
    <3>3. m \in NextBatch
      BY <3>1, <3>2, BatchIsPrefix
    <3> QED
      BY <1>2, <3>3
  <2> QED
    BY <2>1, <2>2 DEF TypeOK
<1> QED
  BY <1>6, <1>7, <1>8, <1>9

\* Yielding an entry of the batch keeps the invariant.
LEMMA NextReadKeeps ==
  ASSUME BusAssumption, BusInv, NEW c \in Consumers, NextRead(c)
  PROVE  BusInv'
<1> USE LocationType DEF BusInv, NextRead, AbortTick, Yield, DeliveryCount, streamVars, groupVars, Goto, SetInbox, SetHand
<1>1. TypeOK'
  BY DEF TypeOK, HandConsistent, Entry, NoHand
<1>2. GroupConsistent'
  BY DEF TypeOK, GroupConsistent, HandConsistent, Entry, Retained
<1>3. HandConsistent'
  BY DEF TypeOK, GroupConsistent, HandConsistent, Entry, NoHand, Retained
<1>4. NothingLost'
  BY DEF TypeOK, GroupConsistent, HandConsistent, NothingLost, Entry, Retained
<1> QED
  BY <1>1, <1>2, <1>3, <1>4

\* Listing the stale entries keeps the invariant.
LEMMA StartReclaimKeeps ==
  ASSUME BusAssumption, BusInv, NEW c \in Consumers, StartReclaim(c)
  PROVE  BusInv'
<1> USE LocationType DEF BusInv, StartReclaim, StaleEntries, streamVars, groupVars, Goto, SetInbox, SetHand
<1>1. TypeOK'
  BY DEF TypeOK, HandConsistent, Entry, NoHand
<1>2. GroupConsistent'
  BY DEF TypeOK, GroupConsistent, HandConsistent, Entry, Retained
<1>3. HandConsistent'
  BY DEF TypeOK, GroupConsistent, HandConsistent, Entry, NoHand, Retained
<1>4. NothingLost'
  BY DEF TypeOK, GroupConsistent, HandConsistent, NothingLost, Entry, Retained
<1> QED
  BY <1>1, <1>2, <1>3, <1>4

\* XCLAIM keeps the invariant: it forgets an entry only if it was trimmed.
LEMMA NextClaimKeeps ==
  ASSUME BusAssumption, BusInv, NEW c \in Consumers, NextClaim(c)
  PROVE  BusInv'
<1> USE LocationType DEF BusInv, NextClaim, Claim, ClaimTrimmed, Skip, AbortTick, Yield, streamVars, Goto, SetInbox, SetHand
<1>1. TypeOK'
  <2> SUFFICES ASSUME NEW e \in inbox[c], \/ Claim(e.msg) \/ ClaimTrimmed(e.msg)
                                          \/ e.msg \notin stale /\ UNCHANGED <<deliveries, pel, stale>>,
                      \/ AbortTick(c) \/ Yield(c, e, e.count) \/ Skip(c, e)
               PROVE  TypeOK'
    BY Zenon
  <2>1. e \in Entry /\ inbox[c] \subseteq Entry
    BY DEF TypeOK
  <2>2. deliveries' \in [Messages -> Nat] /\ pel' \subseteq Messages /\ stale' \subseteq pel'
    BY <2>1 DEF TypeOK, Entry
  <2>3. pc' \in [Consumers -> Location] /\ inbox' \in [Consumers -> SUBSET Entry]
        /\ hand' \in [Consumers -> Entry \cup {NoHand}]
    BY <2>1 DEF TypeOK, Entry, NoHand
  <2> QED
    BY <2>2, <2>3 DEF TypeOK
<1>2. GroupConsistent'
  BY DEF TypeOK, GroupConsistent, HandConsistent, Entry, Retained
<1>3. HandConsistent'
  BY SMTT(30) DEF TypeOK, GroupConsistent, HandConsistent, Entry, NoHand, Retained
<1>4. NothingLost'
  BY DEF TypeOK, GroupConsistent, HandConsistent, NothingLost, Entry, Retained
<1> QED
  BY <1>1, <1>2, <1>3, <1>4

\* The end of a tick keeps the invariant.
LEMMA EndTickKeeps ==
  ASSUME BusAssumption, BusInv, NEW c \in Consumers, EndTick(c)
  PROVE  BusInv'
<1> USE LocationType DEF BusInv, EndTick, streamVars, groupVars, Goto, SetInbox, SetHand
<1>1. TypeOK'
  BY DEF TypeOK, HandConsistent, Entry, NoHand
<1>2. GroupConsistent'
  BY DEF TypeOK, GroupConsistent, HandConsistent, Entry, Retained
<1>3. HandConsistent'
  BY DEF TypeOK, GroupConsistent, HandConsistent, Entry, NoHand, Retained
<1>4. NothingLost'
  BY DEF TypeOK, GroupConsistent, HandConsistent, NothingLost, Entry, Retained
<1> QED
  BY <1>1, <1>2, <1>3, <1>4

\* A handler that returns keeps the invariant.
LEMMA HandlerReturnsKeeps ==
  ASSUME BusAssumption, BusInv, NEW c \in Consumers, HandlerReturns(c)
  PROVE  BusInv'
<1> USE LocationType DEF BusInv, HandlerReturns, streamVars, groupVars, Goto, SetInbox, SetHand
<1>1. TypeOK'
  BY DEF TypeOK, HandConsistent, Entry, NoHand
<1>2. GroupConsistent'
  BY DEF TypeOK, GroupConsistent, HandConsistent, Entry, Retained
<1>3. HandConsistent'
  BY DEF TypeOK, GroupConsistent, HandConsistent, Entry, NoHand, Retained
<1>4. NothingLost'
  BY DEF TypeOK, GroupConsistent, HandConsistent, NothingLost, Entry, Retained
<1> QED
  BY <1>1, <1>2, <1>3, <1>4

\* A handler that raises keeps the invariant.
LEMMA HandlerRaisesKeeps ==
  ASSUME BusAssumption, BusInv, NEW c \in Consumers, HandlerRaises(c)
  PROVE  BusInv'
<1> USE LocationType DEF BusInv, HandlerRaises, streamVars, groupVars, Goto, SetInbox, SetHand
<1>1. TypeOK'
  BY DEF TypeOK, HandConsistent, Entry, NoHand
<1>2. GroupConsistent'
  BY DEF TypeOK, GroupConsistent, HandConsistent, Entry, Retained
<1>3. HandConsistent'
  BY DEF TypeOK, GroupConsistent, HandConsistent, Entry, NoHand, Retained
<1>4. NothingLost'
  BY DEF TypeOK, GroupConsistent, HandConsistent, NothingLost, Entry, Retained
<1> QED
  BY <1>1, <1>2, <1>3, <1>4

\* XACK keeps the invariant: the message in hand already has its answer.
LEMMA AckKeeps ==
  ASSUME BusAssumption, BusInv, NEW c \in Consumers, Ack(c)
  PROVE  BusInv'
<1> USE LocationType DEF BusInv, Ack, streamVars, Goto, SetInbox, SetHand
<1>1. TypeOK'
  BY DEF TypeOK, HandConsistent, Entry, NoHand
<1>2. GroupConsistent'
  BY DEF TypeOK, GroupConsistent, HandConsistent, Entry, Retained
<1>3. HandConsistent'
  BY DEF TypeOK, GroupConsistent, HandConsistent, Entry, NoHand, Retained
<1>4. NothingLost'
  BY DEF TypeOK, GroupConsistent, HandConsistent, NothingLost, Entry, Retained
<1> QED
  BY <1>1, <1>2, <1>3, <1>4

\* fail() below max_retries keeps the invariant.
LEMMA FailAndRetryKeeps ==
  ASSUME BusAssumption, BusInv, NEW c \in Consumers, FailAndRetry(c)
  PROVE  BusInv'
<1> USE LocationType DEF BusInv, FailAndRetry, streamVars, groupVars, Goto, SetInbox, SetHand
<1>1. TypeOK'
  BY DEF TypeOK, HandConsistent, Entry, NoHand
<1>2. GroupConsistent'
  BY DEF TypeOK, GroupConsistent, HandConsistent, Entry, Retained
<1>3. HandConsistent'
  BY DEF TypeOK, GroupConsistent, HandConsistent, Entry, NoHand, Retained
<1>4. NothingLost'
  BY DEF TypeOK, GroupConsistent, HandConsistent, NothingLost, Entry, Retained
<1> QED
  BY <1>1, <1>2, <1>3, <1>4

\* fail() at max_retries keeps the invariant: XADD comes before XACK.
LEMMA FailAndGiveUpKeeps ==
  ASSUME BusAssumption, BusInv, NEW c \in Consumers, FailAndGiveUp(c)
  PROVE  BusInv'
<1> USE LocationType DEF BusInv, FailAndGiveUp, streamVars, Goto, SetInbox, SetHand
<1>1. TypeOK'
  BY DEF TypeOK, HandConsistent, Entry, NoHand
<1>2. GroupConsistent'
  BY DEF TypeOK, GroupConsistent, HandConsistent, Entry, Retained
<1>3. HandConsistent'
  BY DEF TypeOK, GroupConsistent, HandConsistent, Entry, NoHand, Retained
<1>4. NothingLost'
  BY DEF TypeOK, GroupConsistent, HandConsistent, NothingLost, Entry, Retained
<1> QED
  BY <1>1, <1>2, <1>3, <1>4

\* The death of a consumer keeps the invariant: the PEL survives it.
LEMMA CrashKeeps ==
  ASSUME BusAssumption, BusInv, NEW c \in Consumers, Crash(c)
  PROVE  BusInv'
<1> USE LocationType DEF BusInv, Crash, streamVars, groupVars, Goto, SetInbox, SetHand
<1>1. TypeOK'
  BY DEF TypeOK, HandConsistent, Entry, NoHand
<1>2. GroupConsistent'
  BY DEF TypeOK, GroupConsistent, HandConsistent, Entry, Retained
<1>3. HandConsistent'
  BY DEF TypeOK, GroupConsistent, HandConsistent, Entry, NoHand, Retained
<1>4. NothingLost'
  BY DEF TypeOK, GroupConsistent, HandConsistent, NothingLost, Entry, Retained
<1> QED
  BY <1>1, <1>2, <1>3, <1>4

\* Doing nothing keeps the invariant.
LEMMA StutterKeeps == BusInv /\ UNCHANGED vars => BusInv'
BY DEF vars, streamVars, groupVars, consumerVars, BusInv, TypeOK, GroupConsistent,
   HandConsistent, NothingLost, Retained

\* Every step of the bus keeps the invariant.
LEMMA NextKeeps == BusAssumption /\ BusInv /\ [Next]_vars => BusInv'
<1> SUFFICES ASSUME BusAssumption, BusInv, [Next]_vars
             PROVE  BusInv'
  OBVIOUS
<1>1. ASSUME NEW m \in Messages, Publish(m) \/ GoStale(m)
      PROVE  BusInv'
  BY <1>1, PublishKeeps, GoStaleKeeps
<1>2. ASSUME NEW c \in Consumers, ServiceStep(c)
      PROVE  BusInv'
  BY <1>2, StartReadKeeps, NextReadKeeps, StartReclaimKeeps, NextClaimKeeps, EndTickKeeps,
     HandlerReturnsKeeps, HandlerRaisesKeeps, AckKeeps, FailAndRetryKeeps, FailAndGiveUpKeeps
     DEF ServiceStep, Handler
<1>3. ASSUME NEW c \in Consumers, Crash(c)
      PROVE  BusInv'
  BY <1>3, CrashKeeps
<1>4. CASE UNCHANGED vars
  BY <1>4, StutterKeeps
<1> QED
  BY <1>1, <1>2, <1>3, <1>4 DEF Next

\* Every reachable state satisfies the invariant that NothingLost needs: what the
\* group, the batches and the messages in hand say of a message is consistent.
THEOREM BusInvariant == Spec => []BusInv
<1>1. BusAssumption
  BY BusAssumption
<1> QED
  BY <1>1, InitEstablishes, NextKeeps, PTL DEF Spec

\* For every set of messages and consumers, batch size and retry limit, and
\* however processes crash: the variables keep their types.
THEOREM TypeCorrect == Spec => []TypeOK
BY BusInvariant, PTL DEF BusInv

\* For every instance: an entry the group has moved past is pending, handled,
\* dead-lettered or trimmed.
THEOREM NothingIsLost == Spec => []NothingLost
BY BusInvariant, PTL DEF BusInv

-------------------------------------------------------------------------------
(* Refinement: each step of the stream is a step of the promise or a stutter *)

\* What the promise does not see.
LEMMA Invisible ==
  ASSUME UNCHANGED <<id, trimmed, handled, dead, Acked>>
  PROVE  UNCHANGED Queue!vars
BY DEF Queue!vars, Published, Expired

\* XADD with trimming is a publication and an expiry of the abstract queue.
LEMMA PublishRefines ==
  ASSUME BusInv, NEW m \in Messages, Publish(m)
  PROVE  Queue!PublishAndTrim(m, Expired')
<1> USE DEF BusInv, Publish, groupVars
<1>1. Published' = Published \cup {m} /\ m \notin Published
  BY DEF TypeOK, GroupConsistent, Published
<1>2. Expired \subseteq Expired'
  BY <1>1 DEF TypeOK, Published, Expired, Retained
<1>3. Expired' \subseteq Published'
  BY DEF Expired
<1>4. Acked' = Acked
  BY DEF Acked
<1> QED
  BY <1>1, <1>2, <1>3, <1>4 DEF Queue!PublishAndTrim, Queue!Publish, Queue!Expire, Expired

\* XREADGROUP is invisible to the abstract queue.
LEMMA StartReadRefines ==
  ASSUME BusInv, NEW c \in Consumers, StartRead(c)
  PROVE  UNCHANGED Queue!vars
<1> USE DEF BusInv, TypeOK, GroupConsistent, streamVars
<1>1. \A m \in NextBatch : m \in Messages /\ deliveries[m] = 0
  BY DEF NextBatch, Unread
<1>2. Acked' = Acked
  BY <1>1 DEF StartRead, Acked
<1> QED
  BY <1>2, Invisible DEF StartRead

\* An XCLAIM is invisible, or settles an entry that retention removed.
LEMMA NextClaimRefines ==
  ASSUME BusInv, NEW c \in Consumers, NextClaim(c)
  PROVE  (\E m \in Messages : Queue!Settle(m)) \/ UNCHANGED Queue!vars
<1> USE DEF BusInv, TypeOK, GroupConsistent, streamVars
<1>1. PICK e \in inbox[c] :
        \/ Claim(e.msg)
        \/ ClaimTrimmed(e.msg)
        \/ UNCHANGED <<deliveries, pel>>
  BY DEF NextClaim
<1>2. e.msg \in Messages
  BY DEF Entry
<1>3. UNCHANGED <<id, trimmed, handled, dead>>
  BY DEF NextClaim
<1>4. CASE Claim(e.msg)
  <2>1. Acked' = Acked
    BY <1>2, <1>4 DEF Claim, Acked
  <2> QED
    BY <1>3, <2>1, Invisible
<1>5. CASE ClaimTrimmed(e.msg)
  <2>1. deliveries[e.msg] > 0 /\ e.msg \in Expired
    BY <1>2, <1>5 DEF ClaimTrimmed, Expired, Published, Retained
  <2>2. Acked' = Acked \cup {e.msg}
    BY <1>2, <1>5, <2>1 DEF ClaimTrimmed, Acked
  <2> QED
    BY <1>2, <1>3, <2>1, <2>2 DEF Queue!Settle, Expired, Published
<1>6. CASE UNCHANGED <<deliveries, pel>>
  BY <1>3, <1>6, Invisible DEF Acked
<1> QED
  BY <1>1, <1>4, <1>5, <1>6

\* Handling, giving up and acknowledging are the actions of the abstract queue.
LEMMA HandRefines ==
  ASSUME BusInv, NEW c \in Consumers,
         \/ HandlerReturns(c) \/ FailAndGiveUp(c) \/ Ack(c)
  PROVE  \/ \E m \in Messages : Queue!Handle(m) \/ Queue!GiveUp(m) \/ Queue!Settle(m)
         \/ UNCHANGED Queue!vars
<1> DEFINE m == hand[c].msg
<1> USE DEF BusInv, TypeOK, streamVars, groupVars
<1>1. m \in Messages /\ deliveries[m] > 0 /\ m \in Published
  BY DEF HandConsistent, GroupConsistent, Published, HandlerReturns, FailAndGiveUp, Ack
<1>2. CASE HandlerReturns(c)
  <2>1. Queue!Handle(m)
    BY <1>1, <1>2 DEF HandlerReturns, Queue!Handle, Published, Expired, Acked
  <2> QED
    BY <1>1, <2>1
<1>3. CASE FailAndGiveUp(c)
  <2>1. Acked' = Acked /\ UNCHANGED <<id, trimmed, handled>>
    BY <1>3 DEF FailAndGiveUp, Acked
  <2>2. CASE Retained(m)
    <3>1. Queue!GiveUp(m)
      BY <1>1, <1>3, <2>1, <2>2 DEF FailAndGiveUp, Queue!GiveUp, Published, Expired
    <3> QED
      BY <1>1, <3>1
  <2>3. CASE ~Retained(m)
    BY <1>3, <2>1, <2>3, Invisible DEF FailAndGiveUp
  <2> QED
    BY <2>2, <2>3
<1>4. CASE Ack(c)
  <2>1. m \in handled \cup dead \cup Expired
    BY <1>1, <1>4 DEF Ack, HandConsistent, Expired, Retained
  <2>2. Acked' = Acked \cup {m}
    BY <1>1, <1>4 DEF Ack, Acked
  <2>3. Queue!Settle(m)
    BY <1>4, <2>1, <2>2 DEF Ack, Queue!Settle, Expired, Published
  <2> QED
    BY <1>1, <2>3
<1> QED
  BY <1>2, <1>3, <1>4

\* Steps that only move a consumer through its tick.
LEMMA OtherStepsInvisible ==
  ASSUME NEW c \in Consumers,
         \/ NextRead(c) \/ StartReclaim(c) \/ EndTick(c) \/ HandlerRaises(c)
         \/ FailAndRetry(c) \/ Crash(c)
  PROVE  UNCHANGED Queue!vars
BY Invisible DEF NextRead, StartReclaim, EndTick, HandlerRaises, FailAndRetry, Crash,
   streamVars, groupVars, Acked

\* Every step of the bus is a step of the abstract queue, or a stutter of it.
LEMMA NextRefines ==
  ASSUME BusInv, [Next]_vars
  PROVE  [Queue!Next]_Queue!vars
<1>1. ASSUME NEW m \in Messages, Publish(m)
      PROVE  Queue!Next
  <2>1. Expired' \in SUBSET Messages
    BY DEF Expired, Published
  <2> QED
    BY <1>1, <2>1, PublishRefines DEF Queue!Next
<1>2. ASSUME NEW m \in Messages, GoStale(m)
      PROVE  UNCHANGED Queue!vars
  BY <1>2, Invisible DEF GoStale, streamVars, Acked
<1>3. ASSUME NEW c \in Consumers, ServiceStep(c) \/ Crash(c)
      PROVE  Queue!Next \/ UNCHANGED Queue!vars
  BY <1>3, StartReadRefines, NextClaimRefines, HandRefines, OtherStepsInvisible
     DEF ServiceStep, Handler, Queue!Next
<1>4. CASE UNCHANGED vars
  BY <1>4, Invisible DEF vars, streamVars, groupVars, Acked
<1> QED
  BY <1>1, <1>2, <1>3, <1>4 DEF Next

\* For every instance, the consumer group with its retries, reclaims, crashes and
\* retention implements at-least-once delivery.
THEOREM ImplementsAtLeastOnce == Spec => AtLeastOnce
<1>1. Init => Queue!Init
  BY DEF Init, Queue!Init, Published, Expired, Acked
<1>2. BusInv /\ [Next]_vars => [Queue!Next]_Queue!vars
  BY NextRefines
<1> QED
  BY <1>1, <1>2, BusInvariant, PTL DEF Spec, AtLeastOnce, Queue!Spec

=============================================================================
