--------------------------- MODULE KillSwitchProofs ---------------------------
(***************************************************************************)
(* Proofs about KillSwitch, for any number of sessions, strategies and     *)
(* requests: the types, that only the holder of the advisory lock is       *)
(* inside engage or disengage, that the committed audit rows alternate and *)
(* match the flag except across a row lost with its COMMIT, and that an    *)
(* audit row names strategies that are really suspended.                   *)
(*                                                                         *)
(* The inductive invariant adds to the properties of KillSwitch what holds *)
(* in the middle of a request: Exclusion (who holds the lock), Phase (what *)
(* the holder knows of the flag and of the audit trail at each step),      *)
(* SelectedExist (rows updated and not committed are still there),         *)
(* NothingSelected (nothing is selected before SelectActive) and Crowded   *)
(* (how many requests have passed the test of a limit and not written).    *)
(***************************************************************************)
EXTENDS KillSwitch, FiniteSetTheorems, TLAPS

Exclusion ==
  \A c \in Clients : /\ (request[c].pc \in Critical) <=> (holder = c)
                     /\ request[c].pc \in Critical \cup {"lock"}
                          => request[c].op \in Switches

Explained == (flag <=> LastAction = "engage") \/ Orphaned

Phase ==
  /\ (\A c \in Clients : request[c].pc # "commit") => Explained
  /\ \A c \in Clients :
       /\ request[c].pc \in {"select", "flush", "set_flag"}
            => (flag <=> request[c].op = "disengage")
       /\ request[c].pc = "commit"
            => /\ flag <=> request[c].op = "engage"
               /\ (LastAction = "engage" <=> request[c].op = "disengage") \/ Orphaned

SelectedExist ==
  \A c \in Clients : request[c].pc \in {"set_flag", "commit"}
                       => \A s \in request[c].selected : Exists(s)

NothingSelected ==
  \A c \in Clients : request[c].pc \in {"lock", "read_flag"}
                       => request[c].selected = {}
-----------------------------------------------------------------------------
(* The request of an idle session is a request.                            *)
LEMMA IdleType == Idle \in Requests /\ Idle.pc = "idle" /\ Idle.selected = {}
BY DEF Idle, Requests, Pcs

(* What going on to the next call changes: the pc of that request.         *)
LEMMA GoToEffect ==
  ASSUME request \in [Clients -> Requests],
         NEW c \in Clients, NEW pc \in Pcs, GoTo(c, pc)
  PROVE  /\ request' \in [Clients -> Requests]
         /\ request'[c].pc = pc
         /\ request'[c].op = request[c].op
         /\ request'[c].selected = request[c].selected
         /\ \A d \in Clients : d # c => request'[d] = request[d]
BY DEF GoTo, Requests

(* What the end of a transaction changes: that request is idle again and   *)
(* does not hold the advisory lock any more.                               *)
LEMMA EndEffect ==
  ASSUME request \in [Clients -> Requests], NEW c \in Clients, End(c)
  PROVE  /\ request' \in [Clients -> Requests]
         /\ request'[c].pc = "idle"
         /\ request'[c].selected = {}
         /\ \A d \in Clients : d # c => request'[d] = request[d]
         /\ holder' = IF holder = c THEN None ELSE holder
BY IdleType DEF End

(* What the beginning of a request changes: it waits for the lock, or it   *)
(* is a lifecycle request.                                                 *)
LEMMA BeginEffect ==
  ASSUME request \in [Clients -> Requests], begun \in Nat,
         NEW c \in Clients, Ask(c)
  PROVE  /\ request' \in [Clients -> Requests]
         /\ request[c].pc = "idle"
         /\ request'[c].pc \in {"load", "check", "lock"}
         /\ request'[c].pc = "lock" => request'[c].op \in Switches
         /\ request'[c].pc = "load" => request'[c].op # "create"
         /\ request'[c].selected = {}
         /\ \A d \in Clients : d # c => request'[d] = request[d]
         /\ begun' \in Nat
         /\ UNCHANGED <<status, flag, audit, gaps, holder, failures>>
<1>1. PICK op \in Switches \cup Lifecycle \cup {"create"},
           s \in Strategies \cup {None} : Begin(c, op, s)
  BY DEF Ask
<1> DEFINE new == [op |-> op, pc |-> FirstStep(op), strategy |-> s,
                   selected |-> {}]
<1>2. request' = [request EXCEPT ![c] = new] BY <1>1 DEF Begin
<1>3. FirstStep(op) \in {"load", "check", "lock"} BY DEF FirstStep
<1>4. new \in Requests BY <1>3 DEF Requests, Pcs
<1>5. /\ FirstStep(op) = "lock" => op \in Switches
      /\ FirstStep(op) = "load" => op # "create"
  BY DEF FirstStep
<1>6. /\ request[c].pc = "idle" /\ begun' = begun + 1
      /\ UNCHANGED <<status, flag, audit, gaps, holder, failures>>
  BY <1>1 DEF Begin
<1>7. new.pc = FirstStep(op) /\ new.op = op /\ new.selected = {} OBVIOUS
<1> HIDE DEF new
<1>8. QED BY <1>2, <1>3, <1>4, <1>5, <1>6, <1>7

(* What the selection of the active strategies changes.                    *)
LEMMA SelectEffect ==
  ASSUME request \in [Clients -> Requests], NEW c \in Clients, SelectActive(c)
  PROVE  /\ request' \in [Clients -> Requests]
         /\ request[c].pc = "select" /\ request'[c].pc = "flush"
         /\ request'[c].op = request[c].op
         /\ \A d \in Clients : d # c => request'[d] = request[d]
         /\ UNCHANGED <<status, flag, audit, gaps, holder, begun, failures>>
<1> DEFINE new == [request[c] EXCEPT !.selected = Active, !.pc = "flush"]
<1>1. /\ request' = [request EXCEPT ![c] = new]
      /\ request[c].pc = "select"
      /\ UNCHANGED <<status, flag, audit, gaps, holder, begun, failures>>
  BY DEF SelectActive
<1>2. Active \subseteq Strategies BY DEF Active
<1>3. new \in Requests /\ new.pc = "flush" /\ new.op = request[c].op
  BY <1>2 DEF Requests, Pcs
<1> HIDE DEF new
<1>4. QED BY <1>1, <1>3

(* A step keeps the advisory lock with the one request that is inside      *)
(* engage or disengage (_acquire_lock, and the end of the transaction).    *)
LEMMA ExclusionNext ==
  ASSUME TypeOK, Exclusion, [Next]_vars
  PROVE  Exclusion'
<1> USE KillSwitchAssumption
<1>0. request \in [Clients -> Requests] /\ begun \in Nat BY DEF TypeOK
<1>1. ASSUME NEW c \in Clients, Ask(c) \/ Step(c) \/ Rollback(c)
      PROVE  Exclusion'
  <2>1. CASE Ask(c)
    BY <1>0, <2>1, BeginEffect DEF TypeOK, Exclusion, Pcs, Critical
  <2>2. CASE Load(c)
    BY <1>0, <2>2, GoToEffect, EndEffect
       DEF Load, TypeOK, Exclusion, Pcs, Critical
  <2>3. CASE CheckLimit(c)
    BY <1>0, <2>3, GoToEffect, EndEffect
       DEF CheckLimit, TypeOK, Exclusion, Pcs, Critical
  <2>4. CASE Insert(c)
    BY <1>0, <2>4, EndEffect DEF Insert, TypeOK, Exclusion, Pcs, Critical
  <2>5. CASE Write(c)
    BY <1>0, <2>5, EndEffect DEF Write, TypeOK, Exclusion, Pcs, Critical
  <2>6. CASE DeletionBlocked(c)
    BY <1>0, <2>6, EndEffect
       DEF DeletionBlocked, TypeOK, Exclusion, Pcs, Critical
  <2>7. CASE AcquireLock(c)
    BY <1>0, <2>7, GoToEffect
       DEF AcquireLock, TypeOK, Exclusion, Pcs, Critical
  <2>8. CASE ReadFlag(c)
    BY <1>0, <2>8, GoToEffect, EndEffect
       DEF ReadFlag, TypeOK, Exclusion, Pcs, Critical
  <2>9. CASE SelectActive(c)
    BY <1>0, <2>9, SelectEffect DEF TypeOK, Exclusion, Pcs, Critical
  <2>10. CASE Flush(c)
    BY <1>0, <2>10, GoToEffect, EndEffect
       DEF Flush, TypeOK, Exclusion, Pcs, Critical
  <2>11. CASE SetFlag(c)
    BY <1>0, <2>11, GoToEffect DEF SetFlag, TypeOK, Exclusion, Pcs, Critical
  <2>12. CASE Commit(c)
    BY <1>0, <2>12, EndEffect DEF Commit, TypeOK, Exclusion, Pcs, Critical
  <2>13. CASE Rollback(c)
    BY <1>0, <2>13, EndEffect DEF Rollback, TypeOK, Exclusion, Pcs, Critical
  <2>14. QED BY <1>1, <2>1, <2>2, <2>3, <2>4, <2>5, <2>6, <2>7,
       <2>8, <2>9, <2>10, <2>11, <2>12, <2>13 DEF Step
<1>2. CASE UNCHANGED vars
  BY <1>2 DEF vars, TypeOK, Exclusion, Pcs, Critical
<1>3. QED BY <1>1, <1>2 DEF Next

(* A step of a request keeps every variable in its type.                   *)
LEMMA TypeNext ==
  ASSUME TypeOK, Exclusion, [Next]_vars
  PROVE  TypeOK'
<1> USE KillSwitchAssumption
<1>0. request \in [Clients -> Requests] /\ begun \in Nat BY DEF TypeOK
<1>1. ASSUME NEW c \in Clients, Ask(c) \/ Step(c) \/ Rollback(c)
      PROVE  TypeOK'
  <2>1. CASE Ask(c)
    BY <1>0, <2>1, BeginEffect DEF TypeOK, Pcs, Statuses
  <2>2. CASE Load(c)
    BY <1>0, <2>2, GoToEffect, EndEffect DEF Load, TypeOK, Pcs, Statuses
  <2>3. CASE CheckLimit(c)
    BY <1>0, <2>3, GoToEffect, EndEffect DEF CheckLimit, TypeOK, Pcs, Statuses
  <2>4. CASE Insert(c)
    BY <1>0, <2>4, EndEffect DEF Insert, TypeOK, Pcs, Statuses
  <2>5. CASE Write(c)
    <3>1. Target[request[c].op] \in Statuses
      BY <2>5 DEF Write, Target, Lifecycle, Statuses
    <3>2. status' \in [Strategies -> Statuses]
      BY <2>5, <3>1 DEF Write, TypeOK
    <3>3. QED BY <1>0, <2>5, <3>2, EndEffect DEF Write, TypeOK
  <2>6. CASE DeletionBlocked(c)
    BY <1>0, <2>6, EndEffect DEF DeletionBlocked, TypeOK, Pcs, Statuses
  <2>7. CASE AcquireLock(c)
    BY <1>0, <2>7, GoToEffect DEF AcquireLock, TypeOK, Pcs, Statuses
  <2>8. CASE ReadFlag(c)
    BY <1>0, <2>8, GoToEffect, EndEffect DEF ReadFlag, TypeOK, Pcs, Statuses
  <2>9. CASE SelectActive(c)
    BY <1>0, <2>9, SelectEffect DEF TypeOK, Pcs, Statuses
  <2>10. CASE Flush(c)
    BY <1>0, <2>10, GoToEffect, EndEffect DEF Flush, TypeOK, Pcs, Statuses
  <2>11. CASE SetFlag(c)
    BY <1>0, <2>11, GoToEffect DEF SetFlag, TypeOK, Pcs, Statuses
  <2>12. CASE Commit(c)
    <3>1. request[c].op \in Switches
      BY <2>12 DEF Commit, Exclusion, Critical
    <3>2. request[c].selected \in SUBSET Strategies
      BY <1>0 DEF Requests
    <3>3. [action |-> request[c].op, suspended |-> request[c].selected] \in AuditRows
      BY <3>1, <3>2 DEF AuditRows
    <3>4. audit' \in Seq(AuditRows) BY <2>12, <3>3 DEF Commit, TypeOK
    <3>5. status' \in [Strategies -> Statuses]
      BY <2>12 DEF Commit, TypeOK, Statuses
    <3>6. QED BY <1>0, <2>12, <3>4, <3>5, EndEffect DEF Commit, TypeOK
  <2>13. CASE Rollback(c)
    <3>1. Len(audit) + 1 \in Nat BY DEF TypeOK
    <3>2. gaps' \subseteq Nat BY <2>13, <3>1 DEF Rollback, TypeOK
    <3>3. QED BY <1>0, <2>13, <3>2, EndEffect DEF Rollback, TypeOK
  <2>14. QED BY <1>1, <2>1, <2>2, <2>3, <2>4, <2>5, <2>6, <2>7,
       <2>8, <2>9, <2>10, <2>11, <2>12, <2>13 DEF Step
<1>2. CASE UNCHANGED vars
  BY <1>2 DEF vars, TypeOK, Pcs, Statuses
<1>3. QED BY <1>1, <1>2 DEF Next

(* A step keeps the flag in phase with the audit trail, or leaves a gap    *)
(* where the row that would explain it was lost.                           *)
LEMMA PhaseNext ==
  ASSUME TypeOK, Exclusion, Phase, [Next]_vars
  PROVE  Phase'
<1> USE KillSwitchAssumption
<1>0. request \in [Clients -> Requests] /\ begun \in Nat BY DEF TypeOK
<1>1. ASSUME NEW c \in Clients, Ask(c) \/ Step(c) \/ Rollback(c)
      PROVE  Phase'
  <2>1. CASE Ask(c)
    BY <1>0, <2>1, BeginEffect
       DEF TypeOK, Exclusion, Pcs, Critical,
           Phase, Explained, Orphaned, LastAction, Switches
  <2>2. CASE Load(c)
    BY <1>0, <2>2, GoToEffect, EndEffect
       DEF Load, TypeOK, Exclusion, Pcs, Critical,
           Phase, Explained, Orphaned, LastAction, Switches
  <2>3. CASE CheckLimit(c)
    BY <1>0, <2>3, GoToEffect, EndEffect
       DEF CheckLimit, TypeOK, Exclusion, Pcs, Critical,
           Phase, Explained, Orphaned, LastAction, Switches
  <2>4. CASE Insert(c)
    BY <1>0, <2>4, EndEffect
       DEF Insert, TypeOK, Exclusion, Pcs, Critical,
           Phase, Explained, Orphaned, LastAction, Switches
  <2>5. CASE Write(c)
    BY <1>0, <2>5, EndEffect
       DEF Write, TypeOK, Exclusion, Pcs, Critical,
           Phase, Explained, Orphaned, LastAction, Switches
  <2>6. CASE DeletionBlocked(c)
    BY <1>0, <2>6, EndEffect
       DEF DeletionBlocked, TypeOK, Exclusion, Pcs, Critical,
           Phase, Explained, Orphaned, LastAction, Switches
  <2>7. CASE AcquireLock(c)
    BY <1>0, <2>7, GoToEffect
       DEF AcquireLock, TypeOK, Exclusion, Pcs, Critical,
           Phase, Explained, Orphaned, LastAction, Switches
  <2>8. CASE ReadFlag(c)
    BY <1>0, <2>8, GoToEffect, EndEffect
       DEF ReadFlag, TypeOK, Exclusion, Pcs, Critical,
           Phase, Explained, Orphaned, LastAction, Switches
  <2>9. CASE SelectActive(c)
    BY <1>0, <2>9, SelectEffect
       DEF TypeOK, Exclusion, Pcs, Critical,
           Phase, Explained, Orphaned, LastAction, Switches
  <2>10. CASE Flush(c)
    BY <1>0, <2>10, GoToEffect, EndEffect
       DEF Flush, TypeOK, Exclusion, Pcs, Critical,
           Phase, Explained, Orphaned, LastAction, Switches
  <2>11. CASE SetFlag(c)
    <3>1. /\ request[c].op \in Switches
          /\ \A d \in Clients : d # c => request[d].pc \notin Critical
      BY <2>11 DEF SetFlag, Exclusion, Critical
    <3>2. Explained /\ (flag <=> request[c].op = "disengage")
      BY <2>11, <3>1 DEF SetFlag, Phase, Critical
    <3>3. LastAction' = LastAction /\ (Orphaned' <=> Orphaned)
      BY <2>11 DEF SetFlag, LastAction, Orphaned
    <3>4. /\ flag' <=> request[c].op = "engage"
          /\ (LastAction' = "engage" <=> request[c].op = "disengage") \/ Orphaned'
      BY <2>11, <3>2, <3>3, Zenon DEF SetFlag, Explained
    <3>5. /\ request'[c].pc = "commit" /\ request'[c].op = request[c].op
          /\ \A d \in Clients : d # c => request'[d] = request[d]
      BY <1>0, <2>11, GoToEffect DEF SetFlag, Pcs
    <3>6. QED BY <3>1, <3>4, <3>5 DEF Phase, Critical
  <2>12. CASE Commit(c)
    <3>1. LastAction' = request[c].op
      BY <2>12 DEF Commit, LastAction, TypeOK
    <3>2. /\ request[c].op \in Switches
          /\ \A d \in Clients : d # c => request[d].pc \notin Critical
      BY <2>12 DEF Commit, Exclusion, Critical
    <3>3. Explained'
      BY <2>12, <3>1, <3>2 DEF Commit, Phase, Explained, Switches
    <3>4. QED
      BY <1>0, <2>12, <3>2, <3>3, EndEffect DEF Commit, Phase, Critical
  <2>13. CASE Rollback(c)
    <3>1. /\ request'[c].pc = "idle"
          /\ \A d \in Clients : d # c => request'[d] = request[d]
          /\ UNCHANGED <<flag, audit>>
      BY <1>0, <2>13, EndEffect DEF Rollback
    <3>2. LastAction' = LastAction /\ (Orphaned => Orphaned')
      BY <2>13, <3>1 DEF Rollback, LastAction, Orphaned
    <3>3. CASE request[c].pc = "commit"
      <4>1. Orphaned' BY <2>13, <3>1, <3>3 DEF Rollback, Orphaned
      <4>2. \A d \in Clients : d # c => request[d].pc \notin Critical
        BY <3>3 DEF Exclusion, Critical
      <4>3. QED BY <3>1, <4>1, <4>2 DEF Phase, Explained, Critical
    <3>4. CASE request[c].pc # "commit"
      BY <3>1, <3>2, <3>4 DEF Phase, Explained
    <3>5. QED BY <3>3, <3>4
  <2>14. QED BY <1>1, <2>1, <2>2, <2>3, <2>4, <2>5, <2>6, <2>7,
       <2>8, <2>9, <2>10, <2>11, <2>12, <2>13 DEF Step
<1>2. CASE UNCHANGED vars
  BY <1>2 DEF vars, TypeOK, Exclusion, Pcs, Critical,
           Phase, Explained, Orphaned, LastAction, Switches
<1>3. QED BY <1>1, <1>2 DEF Next

(* A step that adds an audit row adds the opposite of the last one.        *)
LEMMA AlternationNext ==
  ASSUME TypeOK, Exclusion, Phase, AuditAlternates, [Next]_vars
  PROVE  AuditAlternates'
<1> USE KillSwitchAssumption
<1>0. request \in [Clients -> Requests] /\ begun \in Nat BY DEF TypeOK
<1>1. ASSUME NEW c \in Clients, Ask(c) \/ Step(c) \/ Rollback(c)
      PROVE  AuditAlternates'
  <2>1. CASE Ask(c)
    BY <1>0, <2>1, BeginEffect DEF AuditAlternates
  <2>2. CASE Load(c)
    BY <1>0, <2>2, GoToEffect, EndEffect DEF Load, AuditAlternates
  <2>3. CASE CheckLimit(c)
    BY <1>0, <2>3, GoToEffect, EndEffect DEF CheckLimit, AuditAlternates
  <2>4. CASE Insert(c)
    BY <1>0, <2>4, EndEffect DEF Insert, AuditAlternates
  <2>5. CASE Write(c)
    BY <1>0, <2>5, EndEffect DEF Write, AuditAlternates
  <2>6. CASE DeletionBlocked(c)
    BY <1>0, <2>6, EndEffect DEF DeletionBlocked, AuditAlternates
  <2>7. CASE AcquireLock(c)
    BY <1>0, <2>7, GoToEffect DEF AcquireLock, AuditAlternates
  <2>8. CASE ReadFlag(c)
    BY <1>0, <2>8, GoToEffect, EndEffect DEF ReadFlag, AuditAlternates
  <2>9. CASE SelectActive(c)
    BY <1>0, <2>9, SelectEffect DEF AuditAlternates
  <2>10. CASE Flush(c)
    BY <1>0, <2>10, GoToEffect, EndEffect DEF Flush, AuditAlternates
  <2>11. CASE SetFlag(c)
    BY <1>0, <2>11, GoToEffect DEF SetFlag, AuditAlternates
  <2>12. CASE Commit(c)
    <3> DEFINE n == Len(audit)
    <3>1. n \in Nat /\ Len(audit') = n + 1 BY <2>12 DEF Commit, TypeOK
    <3>2. /\ audit'[n + 1].action = request[c].op
          /\ \A i \in 1..n : audit'[i] = audit[i]
      BY <2>12 DEF Commit, TypeOK
    <3>3. request[c].op \in Switches
      BY <2>12 DEF Commit, Exclusion, Critical
    <3>4. (LastAction = "engage" <=> request[c].op = "disengage") \/ n + 1 \in gaps
      BY <2>12 DEF Commit, Phase, Orphaned
    <3>5. LastAction = IF n = 0 THEN "disengage" ELSE audit[n].action
      BY <3>1 DEF LastAction, TypeOK
    <3>6. LastAction \in Switches
      <4>1. n # 0 => audit[n] \in AuditRows BY <3>1 DEF TypeOK
      <4>2. n # 0 => audit[n].action \in Switches BY <4>1 DEF AuditRows
      <4>3. QED BY <3>5, <4>2 DEF Switches
    <3>7. ASSUME NEW i \in (1..(n + 1)) \ gaps
          PROVE  audit'[i].action # IF i = 1 THEN "disengage" ELSE audit'[i - 1].action
      <4>1. CASE i = n + 1
        <5>1. request[c].op # LastAction BY <3>3, <3>4, <3>6, <3>7, <4>1 DEF Switches
        <5>2. n # 0 => audit'[n] = audit[n] BY <3>1, <3>2
        <5>3. QED BY <3>1, <3>2, <3>5, <4>1, <5>1, <5>2
      <4>2. CASE i # n + 1
        <5>1. i \in (1..n) \ gaps BY <3>1, <3>7, <4>2
        <5>2. i # 1 => i - 1 \in 1..n BY <3>1, <5>1
        <5>3. QED BY <3>2, <5>1, <5>2 DEF AuditAlternates
      <4>3. QED BY <4>1, <4>2
    <3>8. gaps' = gaps BY <2>12 DEF Commit
    <3> HIDE DEF n
    <3>9. QED BY <3>1, <3>7, <3>8 DEF AuditAlternates
  <2>13. CASE Rollback(c)
    BY <2>13 DEF Rollback, AuditAlternates
  <2>14. QED BY <1>1, <2>1, <2>2, <2>3, <2>4, <2>5, <2>6, <2>7,
       <2>8, <2>9, <2>10, <2>11, <2>12, <2>13 DEF Step
<1>2. CASE UNCHANGED vars
  BY <1>2 DEF vars, AuditAlternates
<1>3. QED BY <1>1, <1>2 DEF Next

(* A step deletes no row that a switch request has flushed: its row lock.  *)
LEMMA SelectedNext ==
  ASSUME TypeOK, Exclusion, SelectedExist, NothingSelected, [Next]_vars
  PROVE  (SelectedExist /\ NothingSelected)'
<1> USE KillSwitchAssumption
<1>0. request \in [Clients -> Requests] /\ begun \in Nat BY DEF TypeOK
<1>1. ASSUME NEW c \in Clients, Ask(c) \/ Step(c) \/ Rollback(c)
      PROVE  (SelectedExist /\ NothingSelected)'
  <2>1. CASE Ask(c)
    BY <1>0, <2>1, BeginEffect
       DEF TypeOK, Exclusion, Pcs, Critical,
           SelectedExist, NothingSelected,
           Exists, Locked
  <2>2. CASE Load(c)
    BY <1>0, <2>2, GoToEffect, EndEffect
       DEF Load, TypeOK, Exclusion, Pcs, Critical,
           SelectedExist, NothingSelected,
           Exists, Locked
  <2>3. CASE CheckLimit(c)
    BY <1>0, <2>3, GoToEffect, EndEffect
       DEF CheckLimit, TypeOK, Exclusion, Pcs, Critical,
           SelectedExist, NothingSelected,
           Exists, Locked
  <2>4. CASE Insert(c)
    BY <1>0, <2>4, EndEffect
       DEF Insert, TypeOK, Exclusion, Pcs, Critical,
           SelectedExist, NothingSelected,
           Exists, Locked
  <2>5. CASE Write(c)
    BY <1>0, <2>5, EndEffect
       DEF Write, TypeOK, Exclusion, Pcs, Critical,
           SelectedExist, NothingSelected,
           Exists, Locked
  <2>6. CASE DeletionBlocked(c)
    BY <1>0, <2>6, EndEffect
       DEF DeletionBlocked, TypeOK, Exclusion, Pcs, Critical,
           SelectedExist, NothingSelected,
           Exists, Locked
  <2>7. CASE AcquireLock(c)
    BY <1>0, <2>7, GoToEffect
       DEF AcquireLock, TypeOK, Exclusion, Pcs, Critical,
           SelectedExist, NothingSelected,
           Exists, Locked
  <2>8. CASE ReadFlag(c)
    BY <1>0, <2>8, GoToEffect, EndEffect
       DEF ReadFlag, TypeOK, Exclusion, Pcs, Critical,
           SelectedExist, NothingSelected,
           Exists, Locked
  <2>9. CASE SelectActive(c)
    BY <1>0, <2>9, SelectEffect
       DEF TypeOK, Exclusion, Pcs, Critical,
           SelectedExist, NothingSelected,
           Exists, Locked
  <2>10. CASE Flush(c)
    BY <1>0, <2>10, GoToEffect, EndEffect
       DEF Flush, TypeOK, Exclusion, Pcs, Critical,
           SelectedExist, NothingSelected,
           Exists, Locked
  <2>11. CASE SetFlag(c)
    BY <1>0, <2>11, GoToEffect
       DEF SetFlag, TypeOK, Exclusion, Pcs, Critical,
           SelectedExist, NothingSelected,
           Exists, Locked
  <2>12. CASE Commit(c)
    <3>1. \A s \in Strategies : Exists(s) => Exists(s)'
      BY <2>12 DEF Commit, Exists
    <3>2. /\ request'[c].pc = "idle"
          /\ \A d \in Clients : d # c => request'[d] = request[d]
      BY <1>0, <2>12, EndEffect DEF Commit
    <3>3. \A d \in Clients : request[d].selected \subseteq Strategies
      BY <1>0 DEF Requests
    <3>4. SelectedExist' BY <3>1, <3>2, <3>3 DEF SelectedExist
    <3>5. NothingSelected' BY <3>2 DEF NothingSelected
    <3>6. QED BY <3>4, <3>5
  <2>13. CASE Rollback(c)
    BY <1>0, <2>13, EndEffect
       DEF Rollback, TypeOK, Exclusion, Pcs, Critical,
           SelectedExist, NothingSelected,
           Exists, Locked
  <2>14. QED BY <1>1, <2>1, <2>2, <2>3, <2>4, <2>5, <2>6, <2>7,
       <2>8, <2>9, <2>10, <2>11, <2>12, <2>13 DEF Step
<1>2. CASE UNCHANGED vars
  BY <1>2 DEF vars, SelectedExist, NothingSelected, Exists
<1>3. QED BY <1>1, <1>2 DEF Next

-----------------------------------------------------------------------------
(* How far requests that cross can exceed the limits: a request between    *)
(* the test of its limit and its write is counted with what is written.    *)
Activating == {c \in Clients : /\ request[c].pc = "write"
                               /\ request[c].op = "activate"}
Creating   == {c \in Clients : /\ request[c].pc = "write"
                               /\ request[c].op = "create"}

Crowded ==
  /\ Cardinality(Active) + Cardinality(Activating)
       <= MaxActive + Cardinality(Clients) - 1
  /\ Cardinality(Saved) + Cardinality(Creating)
       <= MaxSaved + Cardinality(Clients) - 1

(* Creations do not load a row: they all pass the test of their limit.     *)
Routed == \A c \in Clients : request[c].pc = "load" => request[c].op # "create"

(* A pair of finite sets that shrink.                                      *)
LEMMA SumShrinks ==
  ASSUME NEW A, NEW B, IsFiniteSet(A), IsFiniteSet(B),
         NEW A2 \in SUBSET A, NEW B2 \in SUBSET B
  PROVE  Cardinality(A2) + Cardinality(B2) <= Cardinality(A) + Cardinality(B)
<1>1. /\ IsFiniteSet(A2) /\ Cardinality(A2) <= Cardinality(A)
      /\ IsFiniteSet(B2) /\ Cardinality(B2) <= Cardinality(B)
  BY FS_Subset
<1>2. /\ Cardinality(A) \in Nat /\ Cardinality(A2) \in Nat
      /\ Cardinality(B) \in Nat /\ Cardinality(B2) \in Nat
  BY <1>1, FS_CardinalityType
<1>3. QED BY <1>1, <1>2

(* An element that leaves one set while the other gains at most one.       *)
LEMMA SumMoves ==
  ASSUME NEW A, NEW B, IsFiniteSet(A), IsFiniteSet(B), NEW c \in B, NEW s,
         NEW A2 \in SUBSET (A \cup {s}), NEW B2 \in SUBSET (B \ {c})
  PROVE  Cardinality(A2) + Cardinality(B2) <= Cardinality(A) + Cardinality(B)
<1>1. /\ Cardinality(A) \in Nat /\ Cardinality(B) \in Nat
      /\ IsFiniteSet(A \cup {s}) /\ Cardinality(A \cup {s}) <= Cardinality(A) + 1
      /\ IsFiniteSet(B \ {c}) /\ Cardinality(B \ {c}) = Cardinality(B) - 1
  BY FS_AddElement, FS_RemoveElement, FS_CardinalityType
<1>2. Cardinality(A2) + Cardinality(B2)
        <= Cardinality(A \cup {s}) + Cardinality(B \ {c})
  BY <1>1, SumShrinks
<1>3. /\ Cardinality(A2) \in Nat /\ Cardinality(B2) \in Nat
      /\ Cardinality(A \cup {s}) \in Nat /\ Cardinality(B \ {c}) \in Nat
  BY <1>1, FS_Subset, FS_CardinalityType
<1>4. QED BY <1>1, <1>2, <1>3

(* A step that leaves the rows alone and neither ends nor begins a write.  *)
LEMMA Uncrowded ==
  ASSUME NEW c \in Clients, UNCHANGED status,
         \A d \in Clients : d # c => request'[d] = request[d],
         request'[c].pc # "write"
  PROVE  /\ Active' = Active /\ Activating' \subseteq Activating
         /\ Saved' = Saved /\ Creating' \subseteq Creating
BY DEF Active, Saved, Exists, Activating, Creating

(* What a step does to the rows and to the requests about to write.        *)
LEMMA CrowdEffect ==
  ASSUME TypeOK, Routed, NEW c \in Clients, Ask(c) \/ Step(c) \/ Rollback(c)
  PROVE  /\ Routed'
         /\ \/ Active' \subseteq Active /\ Activating' \subseteq Activating
            \/ /\ c \in Activating /\ Activating' \subseteq Activating \ {c}
               /\ \E s : Active' \subseteq Active \cup {s}
            \/ Active' = Active /\ Cardinality(Active) < MaxActive
         /\ \/ Saved' \subseteq Saved /\ Creating' \subseteq Creating
            \/ /\ c \in Creating /\ Creating' \subseteq Creating \ {c}
               /\ \E s : Saved' \subseteq Saved \cup {s}
            \/ Saved' = Saved /\ Cardinality(Saved) < MaxSaved
<1>0. request \in [Clients -> Requests] /\ begun \in Nat BY DEF TypeOK
<1>1. CASE Ask(c) BY <1>0, <1>1, BeginEffect, Uncrowded DEF Routed
<1>2. CASE Load(c)
  <2>1. CASE End(c)
    BY <1>0, <1>2, <2>1, EndEffect, Uncrowded DEF Load, Routed
  <2>2. CASE GoTo(c, "check")
    BY <1>0, <1>2, <2>2, GoToEffect, Uncrowded DEF Load, Routed, Pcs
  <2>3. CASE GoTo(c, "write") /\ request[c].op # "activate"
    <3>1. /\ request'[c].pc = "write" /\ request'[c].op = request[c].op
          /\ \A d \in Clients : d # c => request'[d] = request[d]
      BY <1>0, <2>3, GoToEffect DEF Pcs
    <3>2. request[c].op # "create" BY <1>2 DEF Load, Routed
    <3>3. Active' = Active /\ Saved' = Saved
      BY <1>2 DEF Load, Active, Saved, Exists
    <3>4. Activating' \subseteq Activating /\ Creating' \subseteq Creating
      BY <2>3, <3>1, <3>2 DEF Activating, Creating
    <3>5. Routed' BY <3>1 DEF Routed
    <3>6. QED BY <3>3, <3>4, <3>5
  <2>4. QED BY <1>2, <2>1, <2>2, <2>3 DEF Load
<1>3. CASE CheckLimit(c)
  <2>1. CASE End(c)
    BY <1>0, <1>3, <2>1, EndEffect, Uncrowded DEF CheckLimit, Routed
  <2>2. CASE UnderLimit(request[c].op) /\ GoTo(c, "write")
    <3>1. /\ request'[c].pc = "write" /\ request'[c].op = request[c].op
          /\ \A d \in Clients : d # c => request'[d] = request[d]
      BY <1>0, <2>2, GoToEffect DEF Pcs
    <3>2. Active' = Active /\ Saved' = Saved
      BY <1>3 DEF CheckLimit, Active, Saved, Exists
    <3>3. \/ Activating' \subseteq Activating
          \/ Cardinality(Active) < MaxActive
      BY <2>2, <3>1 DEF Activating, UnderLimit
    <3>4. \/ Creating' \subseteq Creating
          \/ Cardinality(Saved) < MaxSaved
      BY <2>2, <3>1 DEF Creating, UnderLimit
    <3>5. Routed' BY <3>1 DEF Routed
    <3>6. QED BY <3>2, <3>3, <3>4, <3>5
  <2>3. QED BY <1>3, <2>1, <2>2 DEF CheckLimit
<1>4. CASE Insert(c)
  <2>1. /\ request[c].pc = "write" /\ request[c].op = "create"
        /\ request'[c].pc = "idle"
        /\ \A d \in Clients : d # c => request'[d] = request[d]
    BY <1>0, <1>4, EndEffect DEF Insert
  <2>2. PICK s \in Strategies : status' = [status EXCEPT ![s] = "READY"]
    BY <1>4 DEF Insert
  <2>3. Active' \subseteq Active /\ Saved' \subseteq Saved \cup {s}
    BY <2>2 DEF Active, Saved, Exists, TypeOK
  <2>4. /\ Activating' \subseteq Activating
        /\ c \in Creating /\ Creating' \subseteq Creating \ {c}
    BY <2>1 DEF Activating, Creating
  <2>5. Routed' BY <2>1 DEF Routed
  <2>6. QED BY <2>3, <2>4, <2>5
<1>5. CASE Write(c)
  <2> DEFINE s == request[c].strategy
             op == request[c].op
  <2>1. /\ request[c].pc = "write" /\ op \in Lifecycle
        /\ request'[c].pc = "idle"
        /\ \A d \in Clients : d # c => request'[d] = request[d]
    BY <1>0, <1>5, EndEffect DEF Write
  <2>2. /\ Activating' \subseteq Activating \ {c}
        /\ op = "activate" => c \in Activating
        /\ Creating' \subseteq Creating
    BY <2>1 DEF Activating, Creating
  <2>3. status' = IF Exists(s) THEN [status EXCEPT ![s] = Target[op]]
                  ELSE status
    BY <1>5 DEF Write
  <2>4. Active' \subseteq Active \cup {s} /\ Saved' \subseteq Saved
    BY <2>3 DEF Active, Saved, Exists, TypeOK
  <2>5. op # "activate" => Active' \subseteq Active
    <3>1. op # "activate" => Target[op] # "ACTIVE"
      BY <2>1 DEF Lifecycle, Target
    <3>2. QED BY <2>3, <3>1 DEF Active, TypeOK
  <2>6. Routed' BY <2>1 DEF Routed
  <2> HIDE DEF s, op
  <2>7. QED BY <2>2, <2>4, <2>5, <2>6
<1>6. CASE DeletionBlocked(c)
  BY <1>0, <1>6, EndEffect, Uncrowded DEF DeletionBlocked, Routed
<1>7. CASE AcquireLock(c)
  BY <1>0, <1>7, GoToEffect, Uncrowded DEF AcquireLock, Routed, Pcs
<1>8. CASE ReadFlag(c)
  BY <1>0, <1>8, GoToEffect, EndEffect, Uncrowded DEF ReadFlag, Routed, Pcs
<1>9. CASE SelectActive(c)
  BY <1>0, <1>9, SelectEffect, Uncrowded DEF Routed
<1>10. CASE Flush(c)
  BY <1>0, <1>10, GoToEffect, EndEffect, Uncrowded DEF Flush, Routed, Pcs
<1>11. CASE SetFlag(c)
  BY <1>0, <1>11, GoToEffect, Uncrowded DEF SetFlag, Routed, Pcs
<1>12. CASE Commit(c)
  <2>1. /\ request'[c].pc = "idle"
        /\ \A d \in Clients : d # c => request'[d] = request[d]
    BY <1>0, <1>12, EndEffect DEF Commit
  <2>2. Active' \subseteq Active /\ Saved' \subseteq Saved
    BY <1>12 DEF Commit, Active, Saved, Exists
  <2>3. Activating' \subseteq Activating /\ Creating' \subseteq Creating
    BY <2>1 DEF Activating, Creating
  <2>4. Routed' BY <2>1 DEF Routed
  <2>5. QED BY <2>2, <2>3, <2>4
<1>13. CASE Rollback(c)
  BY <1>0, <1>13, EndEffect, Uncrowded DEF Rollback, Routed
<1>14. QED BY <1>1, <1>2, <1>3, <1>4, <1>5, <1>6, <1>7, <1>8, <1>9,
     <1>10, <1>11, <1>12, <1>13 DEF Step

(* The sets that are counted are finite.                                   *)
LEMMA CrowdFinite ==
  /\ IsFiniteSet(Active) /\ IsFiniteSet(Saved)
  /\ IsFiniteSet(Activating) /\ Cardinality(Activating) <= Cardinality(Clients)
  /\ IsFiniteSet(Creating) /\ Cardinality(Creating) <= Cardinality(Clients)
<1>1. /\ Active \subseteq Strategies /\ Saved \subseteq Strategies
      /\ Activating \subseteq Clients /\ Creating \subseteq Clients
  BY DEF Active, Saved, Activating, Creating
<1>2. IsFiniteSet(Clients) /\ IsFiniteSet(Strategies)
  BY KillSwitchAssumption DEF KillSwitchAssumption
<1>3. QED BY <1>1, <1>2, FS_Subset

LEMMA CrowdedNext ==
  ASSUME TypeOK, Routed, Crowded, [Next]_vars
  PROVE  (Routed /\ Crowded)'
<1> DEFINE clients == Cardinality(Clients)
<1>0. /\ clients \in Nat /\ MaxActive \in Nat /\ MaxSaved \in Nat
      /\ Cardinality(Active) \in Nat /\ Cardinality(Active') \in Nat
      /\ Cardinality(Saved) \in Nat /\ Cardinality(Saved') \in Nat
      /\ Cardinality(Activating) \in Nat /\ Cardinality(Activating') \in Nat
      /\ Cardinality(Creating) \in Nat /\ Cardinality(Creating') \in Nat
      /\ Cardinality(Activating') <= clients
      /\ Cardinality(Creating') <= clients
  <2>1. /\ Active' \subseteq Strategies /\ Saved' \subseteq Strategies
        /\ Activating' \subseteq Clients /\ Creating' \subseteq Clients
    BY DEF Active, Saved, Activating, Creating
  <2>2. /\ IsFiniteSet(Clients) /\ IsFiniteSet(Strategies)
        /\ MaxActive \in Nat /\ MaxSaved \in Nat
    BY KillSwitchAssumption
  <2>3. /\ IsFiniteSet(Active') /\ IsFiniteSet(Saved')
        /\ IsFiniteSet(Activating') /\ Cardinality(Activating') <= clients
        /\ IsFiniteSet(Creating') /\ Cardinality(Creating') <= clients
    BY <2>1, <2>2, FS_Subset
  <2>4. QED BY <2>2, <2>3, CrowdFinite, FS_CardinalityType
<1>1. ASSUME NEW c \in Clients, Ask(c) \/ Step(c) \/ Rollback(c)
      PROVE  (Routed /\ Crowded)'
  <2>1. Routed' BY <1>1, CrowdEffect
  <2>2. Cardinality(Active') + Cardinality(Activating')
          <= MaxActive + clients - 1
    <3>1. CASE Active' \subseteq Active /\ Activating' \subseteq Activating
      BY <1>0, <3>1, SumShrinks, CrowdFinite DEF Crowded
    <3>2. CASE /\ c \in Activating /\ Activating' \subseteq Activating \ {c}
               /\ \E s : Active' \subseteq Active \cup {s}
      <4>1. PICK s : Active' \subseteq Active \cup {s} BY <3>2
      <4>2. Cardinality(Active') + Cardinality(Activating')
              <= Cardinality(Active) + Cardinality(Activating)
        BY <3>2, <4>1, SumMoves, CrowdFinite
      <4>3. QED BY <1>0, <4>2 DEF Crowded
    <3>3. CASE Active' = Active /\ Cardinality(Active) < MaxActive
      BY <1>0, <3>3
    <3>4. QED BY <1>1, <3>1, <3>2, <3>3, CrowdEffect
  <2>3. Cardinality(Saved') + Cardinality(Creating')
          <= MaxSaved + clients - 1
    <3>1. CASE Saved' \subseteq Saved /\ Creating' \subseteq Creating
      BY <1>0, <3>1, SumShrinks, CrowdFinite DEF Crowded
    <3>2. CASE /\ c \in Creating /\ Creating' \subseteq Creating \ {c}
               /\ \E s : Saved' \subseteq Saved \cup {s}
      <4>1. PICK s : Saved' \subseteq Saved \cup {s} BY <3>2
      <4>2. Cardinality(Saved') + Cardinality(Creating')
              <= Cardinality(Saved) + Cardinality(Creating)
        BY <3>2, <4>1, SumMoves, CrowdFinite
      <4>3. QED BY <1>0, <4>2 DEF Crowded
    <3>3. CASE Saved' = Saved /\ Cardinality(Saved) < MaxSaved
      BY <1>0, <3>3
    <3>4. QED BY <1>1, <3>1, <3>2, <3>3, CrowdEffect
  <2>4. QED BY <2>1, <2>2, <2>3 DEF Crowded
<1>2. CASE UNCHANGED vars
  BY <1>2 DEF vars, Routed, Crowded, Active, Saved, Exists,
              Activating, Creating
<1>3. QED BY <1>1, <1>2 DEF Next

-----------------------------------------------------------------------------
(* The initial state satisfies every part of the invariant.                *)
LEMMA InitInvariant ==
  ASSUME Init
  PROVE  /\ TypeOK /\ Exclusion /\ Phase /\ AuditAlternates
         /\ SelectedExist /\ NothingSelected
<1>1. TypeOK
  <2>1. status \in [Strategies -> Statuses] BY DEF Init, Statuses
  <2>2. audit \in Seq(AuditRows) BY DEF Init
  <2>3. request \in [Clients -> Requests] BY IdleType DEF Init
  <2>4. /\ gaps \subseteq Nat /\ flag \in BOOLEAN /\ holder \in Clients \cup {None}
        /\ begun \in Nat /\ failures \in Nat
    BY DEF Init
  <2>5. QED BY <2>1, <2>2, <2>3, <2>4 DEF TypeOK
<1>2. Exclusion
  BY KillSwitchAssumption DEF Init, Exclusion, Idle, Critical
<1>3. Phase
  BY DEF Init, Phase, Explained, LastAction, Idle
<1>4. AuditAlternates
  BY DEF Init, AuditAlternates
<1>5. SelectedExist
  BY DEF Init, SelectedExist, Idle
<1>6. NothingSelected
  BY IdleType DEF Init, NothingSelected
<1>7. QED BY <1>1, <1>2, <1>3, <1>4, <1>5, <1>6

(* Every reachable state is well typed, whatever fails and whenever.       *)
THEOREM TypeCorrect == Spec => []TypeOK
<1>1. Init => TypeOK /\ Exclusion BY InitInvariant
<1>2. TypeOK /\ Exclusion /\ [Next]_vars => (TypeOK /\ Exclusion)'
  BY TypeNext, ExclusionNext
<1>3. QED BY <1>1, <1>2, PTL DEF Spec

(* Only the holder of the advisory lock is inside engage or disengage, so  *)
(* at most one request is (kill_switch._acquire_lock), whatever fails.     *)
THEOREM OneSwitchAtATime == Spec => []Exclusion
<1>1. Init => TypeOK /\ Exclusion BY InitInvariant
<1>2. TypeOK /\ Exclusion /\ [Next]_vars => (TypeOK /\ Exclusion)'
  BY TypeNext, ExclusionNext
<1>3. QED BY <1>1, <1>2, PTL DEF Spec

(* The invariant of the audit trail.                                       *)
THEOREM TrailInvariant == Spec => [](TypeOK /\ Exclusion /\ Phase /\ AuditAlternates)
<1> DEFINE I == TypeOK /\ Exclusion /\ Phase /\ AuditAlternates
<1>1. Init => I BY InitInvariant
<1>2. I /\ [Next]_vars => I'
  BY TypeNext, ExclusionNext, PhaseNext, AlternationNext
<1>3. QED BY <1>1, <1>2, PTL DEF Spec

(* Whatever fails, and whenever, the flag says what the last audit row says*)
(* when no switch request is running, unless the row that would explain it *)
(* was lost with its COMMIT after the Redis write.                         *)
THEOREM FlagIsExplained == Spec => []FlagMatchesAudit
<1>1. TypeOK /\ Exclusion /\ Phase /\ AuditAlternates => FlagMatchesAudit
  BY DEF FlagMatchesAudit, Quiet, Critical, Phase, Explained
<1>2. QED BY <1>1, TrailInvariant, PTL

(* However many requests race and fail, no two neighbouring rows record the*)
(* same change unless a row was lost between them with its COMMIT: each    *)
(* change of the switch is recorded at most once.                          *)
THEOREM SwitchesTakeEffectOnce == Spec => []AuditAlternates
<1>1. QED BY TrailInvariant, PTL

(* What an engagement's audit row names as suspended is suspended when the *)
(* row appears, whatever the other sessions do and whatever fails.         *)
THEOREM AuditRowsAreTrue == Spec => AuditRowIsTrue
<1> DEFINE I == TypeOK /\ Exclusion /\ SelectedExist /\ NothingSelected
           A == audit' # audit =>
                  \A s \in audit'[Len(audit')].suspended : status'[s] = "PAUSED"
<1>1. Init => I BY InitInvariant
<1>2. I /\ [Next]_vars => I' 
  BY TypeNext, ExclusionNext, SelectedNext
<1>3. I /\ [Next]_vars => [A]_vars
  <2> SUFFICES ASSUME I, Next, audit' # audit
               PROVE  \A s \in audit'[Len(audit')].suspended :
                         status'[s] = "PAUSED"
    OBVIOUS
  <2>1. PICK c \in Clients : Commit(c)
    BY DEF Next, Ask, Begin, Step, Load, CheckLimit, Insert, Write,
           DeletionBlocked, AcquireLock, ReadFlag, SelectActive, Flush,
           SetFlag, Rollback
  <2>2. audit'[Len(audit')].suspended = request[c].selected
    BY <2>1 DEF Commit, TypeOK
  <2>3. request[c].selected \in SUBSET Strategies
    BY DEF TypeOK, Requests
  <2>4. QED BY <2>1, <2>2, <2>3 DEF Commit, SelectedExist
<1>4. QED BY <1>1, <1>2, <1>3, PTL DEF Spec, AuditRowIsTrue

(* The limits of active and saved instances are exceeded by fewer than the *)
(* number of sessions, however their requests cross.                       *)
THEOREM LimitsAreNearlyKept == Spec => []OvershootBounded
<1>0. /\ Cardinality(Clients) \in Nat /\ Cardinality(Clients) >= 1
      /\ MaxActive \in Nat /\ MaxSaved \in Nat
  BY FS_CardinalityType, FS_EmptySet, KillSwitchAssumption
<1>1. Init => TypeOK /\ Exclusion /\ Routed /\ Crowded
  <2> SUFFICES ASSUME Init PROVE Routed /\ Crowded
    BY InitInvariant
  <2>1. Active = {} /\ Activating = {} /\ Creating = {} /\ Routed
    BY DEF Init, Active, Activating, Creating, Routed, Idle
  <2>2. Cardinality(Saved) <= MaxSaved /\ Cardinality(Saved) \in Nat
    BY CrowdFinite, FS_CardinalityType DEF Init
  <2>3. QED BY <1>0, <2>1, <2>2, FS_EmptySet DEF Crowded
<1>2. TypeOK /\ Exclusion /\ Routed /\ Crowded /\ [Next]_vars
        => (TypeOK /\ Exclusion /\ Routed /\ Crowded)'
  BY TypeNext, ExclusionNext, CrowdedNext
<1>3. Crowded => OvershootBounded
  <2>1. /\ Cardinality(Active) \in Nat /\ Cardinality(Activating) \in Nat
        /\ Cardinality(Saved) \in Nat /\ Cardinality(Creating) \in Nat
    BY CrowdFinite, FS_CardinalityType
  <2>2. QED BY <1>0, <2>1 DEF Crowded, OvershootBounded
<1>4. QED BY <1>1, <1>2, <1>3, PTL DEF Spec
=============================================================================
