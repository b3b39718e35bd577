---------------------------- MODULE ContextsProofs ----------------------------
(***************************************************************************)
(* The audit trail names the active context, up to overlaps.  The switch   *)
(* is two flushes and a COMMIT, and what excludes others differs along it: *)
(* the lock of the row entered keeps away the switches to the same context,*)
(* the unique index those to another one.  Together they leave room for    *)
(* one transaction between the index and its COMMIT, and the rows it has   *)
(* looked at stay as they are until then.  Two further parts follow what   *)
(* the replay has served and what a switch suspends.                       *)
(***************************************************************************)
EXTENDS Contexts, TLAPS

Selecting == {"select", "strategies", "leave", "enter", "index", "commit"}
Replaying == {"clear", "seek", "store", "answer"}

\* A request knows what it works on.
Directed ==
  \A s \in Sessions :
    /\ request[s].pc \in Selecting \cup {"activate"} => request[s].to \in SELECTABLE_KINDS
    /\ request[s].pc = "strategies" => request[s].from \in SELECTABLE_KINDS
    /\ request[s].pc \in Replaying => request[s].data \in Datasets

\* The lock of the row that is entered.
EntersAlone ==
  \A s, t \in Sessions :
    /\ request[s].pc \in HasEntered
    /\ request[t].pc \in HasEntered
    /\ request[s].to = request[t].to
    => s = t

\* The unique index, and that lock.
CommitsAlone ==
  \A s, t \in Sessions : request[s].pc = "commit" /\ request[t].pc = "commit" => s = t

\* What the index has seen holds until the COMMIT.
NoConflictAtCommit ==
  \A s \in Sessions : request[s].pc = "commit" => Conflicts(s) = {}

\* No transaction is dated in the future.
Dated ==
  /\ \A s \in Sessions : request[s].began <= changes
  /\ \A row \in switched : row.began <= changes

IInv ==
  /\ TypeOK /\ Directed /\ Dated
  /\ EntersAlone /\ CommitsAlone /\ NoConflictAtCommit
  /\ AuditTellsTheContext

-----------------------------------------------------------------------------
LEMMA IdleIsRequest == Idle \in RequestType /\ Idle.pc = "idle" /\ Idle.began = 0
BY DEF Idle, RequestType

LEMMA ActiveIsKind == Active # None => Active \in SELECTABLE_KINDS
BY DEF Active

LEMMA InitEstablishes == Init => IInv
<1> SUFFICES ASSUME Init PROVE IInv
  OBVIOUS
<1>1. TypeOK
  BY IdleIsRequest, ContextsAssumption DEF Init, TypeOK
<1>2. Directed /\ Dated /\ EntersAlone /\ CommitsAlone /\ NoConflictAtCommit
  BY IdleIsRequest
     DEF Init, Dated, Directed, Selecting, Replaying, EntersAlone, HasEntered, CommitsAlone,
     NoConflictAtCommit
<1>3. AuditTellsTheContext
  BY DEF Init, AuditTellsTheContext
<1>4. QED BY <1>1, <1>2, <1>3 DEF IInv

\* A step that commits nothing replaces the state of one request.
LEMMA RequestPreserves ==
  ASSUME IInv, NEW s \in Sessions, NEW r \in RequestType,
         request' = [request EXCEPT ![s] = r],
         UNCHANGED <<selected, switched>>, changes' \in {changes, changes + 1},
         TypeOK',
         r.began <= changes',
         r.pc \in Selecting \cup {"activate"} => r.to \in SELECTABLE_KINDS,
         r.pc = "strategies" => r.from \in SELECTABLE_KINDS,
         r.pc \in Replaying => r.data \in Datasets,
         r.pc \in HasEntered =>
           \A t \in Sessions \ {s} : request[t].pc \in HasEntered => request[t].to # r.to,
         r.pc = "commit" =>
           /\ \A t \in Sessions \ {s} : request[t].pc # "commit"
           /\ \A k \in SELECTABLE_KINDS \ {r.to, r.from} : ~selected[k]
  PROVE  IInv'
<1>1. \A t \in Sessions : request'[t] = IF t = s THEN r ELSE request[t]
  BY DEF IInv, TypeOK, files
<1>2. Directed'
  BY <1>1 DEF IInv, Directed
<1>3. EntersAlone'
  BY <1>1 DEF IInv, EntersAlone
<1>4. CommitsAlone'
  BY <1>1 DEF IInv, CommitsAlone
<1>5. NoConflictAtCommit'
  BY <1>1 DEF IInv, NoConflictAtCommit, Conflicts
<1>6. AuditTellsTheContext'
  BY DEF IInv, AuditTellsTheContext
<1>7. Dated'
  <2>1. changes \in Nat /\ switched \subseteq Switches
    BY DEF IInv, TypeOK
  <2>2. \A t \in Sessions : request[t].began \in Nat
    BY DEF IInv, TypeOK, RequestType
  <2>3. QED BY <1>1, <2>1, <2>2 DEF IInv, Dated, Switches
<1>8. QED BY <1>2, <1>3, <1>4, <1>5, <1>6, <1>7 DEF IInv

\* The rest of the state changes under a request that is over, or does not change.
LEMMA EndPreserves ==
  ASSUME IInv, NEW s \in Sessions, End(s), UNCHANGED <<selected, switched, changes>>, TypeOK'
  PROVE  IInv'
<1>1. Idle.began <= changes'
  BY IdleIsRequest DEF IInv, TypeOK
<1>2. QED
  BY <1>1, IdleIsRequest, RequestPreserves DEF End, Selecting, Replaying, HasEntered

-----------------------------------------------------------------------------
(* The selection of a context. *)

LEMMA BeginSelectPreserves ==
  ASSUME IInv, NEW s \in Sessions, NEW kind \in SELECTABLE_KINDS, BeginSelect(s, kind)
  PROVE  IInv'
<1> DEFINE r == [Idle EXCEPT !.op = "select", !.pc = "select", !.to = kind, !.began = changes + 1]
<1>1. /\ r \in RequestType
      /\ r.pc = "select" /\ r.to = kind /\ r.began = changes + 1
  <2>1. changes + 1 \in Nat
    BY DEF IInv, TypeOK
  <2> DEFINE n == changes + 1
  <2> HIDE DEF n
  <2>2. /\ n \in Nat
        /\ [Idle EXCEPT !.op = "select", !.pc = "select", !.to = kind, !.began = n] \in RequestType
    BY <2>1, IdleIsRequest DEF n, RequestType
  <2>3. QED BY <2>2 DEF n, Idle
<1>2. /\ request' = [request EXCEPT ![s] = r]
      /\ UNCHANGED <<selected, switched>> /\ changes' = changes + 1
  BY DEF BeginSelect, rows
<1> HIDE DEF r
<1>3. TypeOK'
  BY <1>1, <1>2 DEF BeginSelect, IInv, TypeOK, rows, replay, files
<1>4. QED
  <2>1. r.began <= changes'
    BY <1>1, <1>2 DEF IInv, TypeOK
  <2>2. QED BY <1>1, <1>2, <1>3, <2>1, RequestPreserves DEF Selecting, Replaying, HasEntered

LEMMA SelectPreserves ==
  ASSUME IInv, NEW s \in Sessions, NEW confirm \in BOOLEAN, Select(s, confirm)
  PROVE  IInv'
<1> DEFINE r == [request[s] EXCEPT !.from = Active,
                   !.pc = IF Active = None THEN "enter" ELSE "strategies"]
<1>1. /\ request[s] \in RequestType /\ request[s].to \in SELECTABLE_KINDS
      /\ request[s].began <= changes
  BY DEF Select, Ready, IInv, TypeOK, Directed, Dated, Selecting
<1>2. UNCHANGED <<selected, switched, changes>>
  BY DEF Select, rows, bounds
<1>3. CASE End(s)
  <2>1. TypeOK'
    BY <1>3, IdleIsRequest DEF Select, End, IInv, TypeOK, rows, replay, bounds, files
  <2>2. QED BY <1>2, <1>3, <2>1, EndPreserves
<1>4. CASE request' = [request EXCEPT ![s] = r]
  <2>1. /\ r \in RequestType
        /\ r.pc = (IF Active = None THEN "enter" ELSE "strategies")
        /\ r.to = request[s].to /\ r.from = Active /\ r.began = request[s].began
    BY <1>1, ActiveIsKind DEF RequestType
  <2> HIDE DEF r
  <2>2. TypeOK'
    BY <1>4, <2>1 DEF Select, IInv, TypeOK, rows, replay, bounds, files
  <2>3. QED
    BY <1>1, <1>2, <1>4, <2>1, <2>2, ActiveIsKind, RequestPreserves DEF Replaying, HasEntered
<1>5. QED BY <1>3, <1>4 DEF Select, IInv, TypeOK

LEMMA ReadStrategiesPreserves ==
  ASSUME IInv, NEW s \in Sessions, ReadStrategies(s)
  PROVE  IInv'
<1> DEFINE p == request[s].from \in running
           r == [request[s] EXCEPT !.pc = "leave", !.paused = p]
<1>1. p \in BOOLEAN
  OBVIOUS
<1>2. request[s] \in RequestType /\ request[s].pc = "strategies"
  BY DEF IInv, TypeOK, ReadStrategies, Ready, files
<1>3. /\ request' = [request EXCEPT ![s] = r]
      /\ UNCHANGED <<selected, switched, changes>>
  BY DEF ReadStrategies, rows, bounds, IInv, TypeOK, files
<1> HIDE DEF p
<1>4. /\ r \in RequestType
      /\ r.pc = "leave" /\ r.to = request[s].to /\ r.began = request[s].began
  BY <1>1, <1>2 DEF RequestType
<1>5. /\ request[s].from \in SELECTABLE_KINDS
      /\ request[s].to \in SELECTABLE_KINDS
  BY <1>2 DEF IInv, Directed, Selecting
<1> HIDE DEF r
<1>6. request[s].began <= changes
  BY DEF IInv, Dated
<1>7. TypeOK'
  BY <1>4, <1>3, <1>5 DEF ReadStrategies, IInv, TypeOK, rows, replay, bounds, files
<1>8. QED
  BY <1>4, <1>3, <1>5, <1>7, <1>6, RequestPreserves DEF Replaying, HasEntered

\* The steps that only move a selection on.
LEMMA GoToIsTyped ==
  ASSUME IInv, NEW s \in Sessions,
         NEW pc \in {"leave", "enter", "index", "commit", "store", "answer"},
         GoTo(s, pc)
  PROVE  \E r \in RequestType :
           /\ request' = [request EXCEPT ![s] = r]
           /\ r = [request[s] EXCEPT !.pc = pc]
           /\ r.pc = pc /\ r.to = request[s].to /\ r.from = request[s].from
           /\ r.data = request[s].data /\ r.began <= changes
<1>1. request[s] \in RequestType /\ request[s].began <= changes
  BY DEF IInv, TypeOK, Dated, files
<1>2. [request[s] EXCEPT !.pc = pc] \in RequestType
  BY <1>1 DEF RequestType
<1>3. QED BY <1>1, <1>2 DEF GoTo, IInv, TypeOK, RequestType, files

LEMMA LeavePreserves ==
  ASSUME IInv, NEW s \in Sessions, Leave(s)
  PROVE  IInv'
<1>1. PICK r \in RequestType :
        /\ request' = [request EXCEPT ![s] = r]
        /\ r.pc = "enter" /\ r.to = request[s].to /\ r.began <= changes
  BY GoToIsTyped DEF Leave
<1>2. TypeOK'
  BY <1>1 DEF Leave, IInv, TypeOK, rows, replay, bounds, files
<1>3. request[s].to \in SELECTABLE_KINDS
  BY DEF Leave, Ready, IInv, Directed, Selecting
<1>4. QED
  BY <1>1, <1>2, <1>3, RequestPreserves DEF Leave, rows, bounds, Replaying, HasEntered

\* Whoever entered the same row still locks it.
LEMMA EnterPreserves ==
  ASSUME IInv, NEW s \in Sessions, Enter(s)
  PROVE  IInv'
<1>1. PICK r \in RequestType :
        /\ request' = [request EXCEPT ![s] = r]
        /\ r.pc = "index" /\ r.to = request[s].to /\ r.began <= changes
  BY GoToIsTyped DEF Enter
<1>2. TypeOK'
  BY <1>1 DEF Enter, IInv, TypeOK, rows, replay, bounds, files
<1>3. request[s].to \in SELECTABLE_KINDS
  BY DEF Enter, Ready, IInv, Directed, Selecting
<1>4. WaitsFor(s) = {t \in Sessions \ {s} : request[s].to \in Locks(t)}
  BY DEF Enter, Ready, WaitsFor
<1>5. ASSUME NEW t \in Sessions \ {s}, request[t].pc \in HasEntered
      PROVE  request[t].to # request[s].to
  <2>1. request[t].to \in Locks(t)
    BY <1>5 DEF Locks
  <2>2. QED BY <1>4, <2>1 DEF Enter, Ready
<1>6. QED
  BY <1>1, <1>2, <1>3, <1>5, RequestPreserves DEF Enter, rows, bounds, Replaying

\* Whoever is past the index has the same target or makes this one wait.
LEMMA PassIndexPreserves ==
  ASSUME IInv, NEW s \in Sessions, PassIndex(s)
  PROVE  IInv'
<1>1. CASE Conflicts(s) # {}
  <2>1. TypeOK'
    BY <1>1, IdleIsRequest DEF PassIndex, End, IInv, TypeOK, rows, replay, bounds, files
  <2>2. QED BY <1>1, <2>1, EndPreserves DEF PassIndex, rows, bounds
<1>2. CASE Conflicts(s) = {}
  <2>1. PICK r \in RequestType :
          /\ request' = [request EXCEPT ![s] = r]
          /\ r.pc = "commit" /\ r.to = request[s].to /\ r.from = request[s].from
          /\ r.began <= changes
    BY <1>2, GoToIsTyped DEF PassIndex
  <2>2. TypeOK'
    BY <2>1 DEF PassIndex, IInv, TypeOK, rows, replay, bounds, files
  <2>3. request[s].pc = "index" /\ request[s].to \in SELECTABLE_KINDS
    BY DEF PassIndex, Ready, IInv, Directed, Selecting
  <2>4. \A t \in Sessions \ {s} : request[t].pc \in HasEntered => request[t].to # request[s].to
    BY <2>3 DEF IInv, EntersAlone, HasEntered
  <2>5. WaitsFor(s) = {t \in Sessions \ {s} :
            \/ /\ request[t].pc \in HasLeft
               /\ request[t].from \notin {None, request[s].to, request[s].from}
               /\ selected[request[t].from]
            \/ /\ request[t].pc \in HasIndexed
               /\ request[t].to # request[s].to}
    BY <2>3 DEF WaitsFor
  <2>6. \A t \in Sessions \ {s} : request[t].pc # "commit"
    BY <2>4, <2>5 DEF PassIndex, Ready, HasIndexed, HasEntered
  <2>7. \A k \in SELECTABLE_KINDS \ {request[s].to, request[s].from} : ~selected[k]
    BY <1>2 DEF Conflicts
  <2>8. QED
    BY <2>1, <2>2, <2>3, <2>4, <2>6, <2>7, RequestPreserves
       DEF PassIndex, rows, bounds, Replaying
<1>3. QED BY <1>1, <1>2

\* The rows after a COMMIT: the target, and nothing else.
LEMMA CommitPreserves ==
  ASSUME IInv, NEW s \in Sessions, Commit(s)
  PROVE  IInv'
<1>1. /\ request[s] \in RequestType
      /\ request[s].pc = "commit" /\ request[s].to \in SELECTABLE_KINDS
  BY DEF Commit, Ready, IInv, TypeOK, Directed, Selecting, files
<1>2. selected' = [k \in SELECTABLE_KINDS |-> k = request[s].to]
  BY <1>1 DEF Commit, IInv, TypeOK, NoConflictAtCommit, Conflicts, files
<1>3. /\ Change(s) \in Switches /\ Change(s).to = request[s].to
      /\ Change(s).began = request[s].began /\ Change(s).ended = changes
  BY <1>1 DEF Change, RequestType, Switches, IInv, TypeOK
<1>4. /\ switched' = switched \cup {Change(s)}
      /\ request[s].began <= changes /\ \A row \in switched : row.began <= changes
      /\ UNCHANGED changes
  BY DEF Commit, IInv, Dated, bounds
<1>5. AuditTellsTheContext'
  <2>1. {k \in SELECTABLE_KINDS : selected'[k]} = {Change(s).to}
    BY <1>1, <1>2, <1>3
  <2>2. \A other \in switched' : other.began <= Change(s).ended
    BY <1>3, <1>4
  <2>3. QED BY <1>4, <2>1, <2>2 DEF AuditTellsTheContext
<1>6. request' = [request EXCEPT ![s] = Idle]
  BY DEF Commit, End
<1>7. \A t \in Sessions : request'[t] = IF t = s THEN Idle ELSE request[t]
  BY <1>6 DEF IInv, TypeOK, files
<1>8. TypeOK'
  BY <1>2, <1>3, <1>4, <1>6, IdleIsRequest DEF Commit, IInv, TypeOK, replay, bounds, files
<1>9. Directed'
  BY <1>7, IdleIsRequest DEF IInv, Directed, Selecting, Replaying
<1>10. EntersAlone'
  BY <1>7, IdleIsRequest DEF IInv, EntersAlone, HasEntered
<1>11. \A t \in Sessions : request'[t].pc # "commit"
  BY <1>1, <1>7, IdleIsRequest DEF IInv, CommitsAlone
<1>12. CommitsAlone' /\ NoConflictAtCommit'
  BY <1>11 DEF CommitsAlone, NoConflictAtCommit
<1>13. Dated'
  <2>1. changes \in Nat
    BY DEF IInv, TypeOK
  <2>2. \A t \in Sessions : request'[t].began <= changes'
    BY <1>4, <1>7, <2>1, IdleIsRequest DEF IInv, Dated
  <2>3. \A row \in switched' : row.began <= changes'
    BY <1>3, <1>4
  <2>4. QED BY <2>2, <2>3 DEF Dated
<1>14. QED BY <1>5, <1>8, <1>9, <1>10, <1>12, <1>13 DEF IInv

-----------------------------------------------------------------------------
(* The other requests, and the file. *)

LEMMA OverPreserves ==
  ASSUME IInv, NEW s \in Sessions, AbortDeadlock(s) \/ Fail(s) \/ Activate(s)
  PROVE  IInv'
<1>1. TypeOK'
  <2>1. CASE AbortDeadlock(s)
    BY <2>1, IdleIsRequest DEF AbortDeadlock, End, IInv, TypeOK, rows, replay, bounds, files
  <2>2. CASE Fail(s)
    <3>1. missed' \in [Datasets -> SUBSET Int]
      <4>1. request[s].pc = "answer" => request[s].data \in Datasets
        BY DEF IInv, Directed, Replaying
      <4>2. request[s].index \in Int /\ missed \in [Datasets -> SUBSET Int]
        BY DEF IInv, TypeOK, RequestType
      <4>3. QED BY <2>2, <4>1, <4>2 DEF Fail, MissedCandles
    <3>2. QED
      BY <2>2, <3>1, IdleIsRequest DEF Fail, End, IInv, TypeOK, rows, files
  <2>3. CASE Activate(s)
    <3>1. request[s].to \in SELECTABLE_KINDS
      BY <2>3 DEF Activate, Ready, IInv, Directed
    <3>2. QED
      BY <2>3, <3>1, IdleIsRequest DEF Activate, End, IInv, TypeOK, replay, bounds, files
  <2>4. QED BY <2>1, <2>2, <2>3
<1>2. End(s) /\ UNCHANGED <<selected, switched, changes>>
  BY DEF AbortDeadlock, Fail, Activate, rows, bounds
<1>3. QED BY <1>1, <1>2, EndPreserves

LEMMA BeginActivatePreserves ==
  ASSUME IInv, NEW s \in Sessions, BeginActivate(s)
  PROVE  IInv'
<1> DEFINE r == [Idle EXCEPT !.op = "activate", !.pc = "activate", !.to = Active]
<1>1. /\ r \in RequestType
      /\ r.pc = "activate" /\ r.to \in SELECTABLE_KINDS /\ r.began = 0
  BY IdleIsRequest, ActiveIsKind DEF BeginActivate, RequestType
<1>2. /\ request' = [request EXCEPT ![s] = r]
      /\ UNCHANGED <<selected, switched>> /\ changes' = changes + 1
  BY DEF BeginActivate, rows
<1> HIDE DEF r
<1>3. TypeOK'
  BY <1>1, <1>2, ActiveIsKind DEF BeginActivate, IInv, TypeOK, rows, replay, bounds, files
<1>4. 0 <= changes'
  BY <1>2 DEF IInv, TypeOK
<1>5. QED BY <1>1, <1>2, <1>3, <1>4, RequestPreserves DEF Selecting, Replaying, HasEntered

LEMMA BeginReplayPreserves ==
  ASSUME IInv, NEW s \in Sessions, NEW op \in {"reset", "advance"}, BeginReplay(s, op)
  PROVE  IInv'
<1> DEFINE r == [Idle EXCEPT !.op = op, !.data = file,
                   !.pc = IF op = "reset" THEN "clear" ELSE "seek"]
<1>1. file \in Datasets
  BY DEF BeginReplay, Readable, IInv, TypeOK, files
<1>2. /\ r \in RequestType
      /\ r.pc \in {"clear", "seek"} /\ r.data \in Datasets /\ r.began = 0
  BY <1>1, IdleIsRequest DEF RequestType
<1>3. /\ request' = [request EXCEPT ![s] = r]
      /\ UNCHANGED <<selected, switched, changes>>
  BY DEF BeginReplay, rows, bounds
<1> HIDE DEF r
<1>4. TypeOK'
  BY <1>2, <1>3 DEF BeginReplay, IInv, TypeOK, rows, replay, bounds, files
<1>5. 0 <= changes'
  BY <1>3 DEF IInv, TypeOK
<1>6. QED BY <1>2, <1>3, <1>4, <1>5, RequestPreserves DEF Selecting, HasEntered

LEMMA ClearPreserves ==
  ASSUME IInv, NEW s \in Sessions, Clear(s)
  PROVE  IInv'
<1>1. PICK r \in RequestType :
        /\ request' = [request EXCEPT ![s] = r]
        /\ r.pc = "store" /\ r.data = request[s].data /\ r.began <= changes
  BY GoToIsTyped DEF Clear
<1>2. TypeOK'
  BY <1>1 DEF Clear, IInv, TypeOK, rows, bounds, files
<1>3. request[s].data \in Datasets
  BY DEF Clear, Ready, IInv, Directed, Replaying
<1>4. QED
  BY <1>1, <1>2, <1>3, RequestPreserves DEF Clear, rows, bounds, Selecting, HasEntered

LEMMA SeekPreserves ==
  ASSUME IInv, NEW s \in Sessions, Seek(s)
  PROVE  IInv'
<1> DEFINE data == request[s].data
           index == IF Resumes(data) THEN position.index ELSE -1
           r == [request[s] EXCEPT !.pc = "store",
                   !.index = IF IsFinished(data, index) THEN index ELSE index + 1]
<1>1. request[s] \in RequestType /\ data \in Datasets /\ request[s].began <= changes
  BY DEF Seek, Ready, IInv, TypeOK, Directed, Dated, Replaying, files
<1>2. index \in Int
  BY DEF Resumes, IInv, TypeOK, files
<1>3. missed' \in [Datasets -> SUBSET Int]
  <2>1. missed \in [Datasets -> SUBSET Int] /\ 0..index \subseteq Int
    BY DEF IInv, TypeOK
  <2>2. missed' = missed \/ missed' = [missed EXCEPT ![data] = @ \cup (0..index)]
    BY DEF Seek, MissedCandles
  <2> HIDE DEF data, index
  <2>3. QED BY <1>1, <2>1, <2>2
<1>4. UNCHANGED <<selected, switched, changes>>
  BY DEF Seek, rows, bounds
<1>5. CASE index >= data.bars
  <2>1. End(s)
    BY <1>5 DEF Seek
  <2>2. TypeOK'
    BY <1>3, <2>1, IdleIsRequest DEF Seek, End, IInv, TypeOK, rows, bounds, files
  <2>3. QED BY <1>4, <2>1, <2>2, EndPreserves
<1>6. CASE ~(index >= data.bars)
  <2>1. request' = [request EXCEPT ![s] = r]
    BY <1>6 DEF Seek, IInv, TypeOK, files
  <2>2. (IF IsFinished(data, index) THEN index ELSE index + 1) \in Int
    BY <1>2
  <2>3. /\ r \in RequestType
        /\ r.pc = "store" /\ r.data = data /\ r.began = request[s].began
    BY <1>1, <2>2 DEF RequestType
  <2> HIDE DEF r
  <2>4. TypeOK'
    BY <1>3, <2>1, <2>3 DEF Seek, IInv, TypeOK, rows, bounds, files
  <2>5. QED
    BY <1>1, <1>4, <2>1, <2>3, <2>4, RequestPreserves DEF Selecting, HasEntered
<1>7. QED BY <1>5, <1>6

LEMMA StorePreserves ==
  ASSUME IInv, NEW s \in Sessions, Store(s)
  PROVE  IInv'
<1>1. /\ request[s] \in RequestType /\ request[s].data \in Datasets
      /\ request[s].index \in Int
  BY DEF Store, Ready, IInv, TypeOK, Directed, Replaying, RequestType, files
<1>2. request[s].data.id \in Ids
  BY <1>1 DEF Ids
<1>3. position' \in [id : Ids, index : Int] /\ holder' \in Datasets
  BY <1>1, <1>2 DEF Store
<1>4. PICK r \in RequestType :
        /\ request' = [request EXCEPT ![s] = r]
        /\ r.pc = "answer" /\ r.data = request[s].data /\ r.began <= changes
  BY GoToIsTyped DEF Store
<1>5. TypeOK'
  BY <1>3, <1>4 DEF Store, IInv, TypeOK, rows, bounds, files
<1>6. QED
  BY <1>1, <1>4, <1>5, RequestPreserves DEF Store, rows, bounds, Selecting, HasEntered

LEMMA AnswerPreserves ==
  ASSUME IInv, NEW s \in Sessions, Answer(s)
  PROVE  IInv'
<1>1. served' \in [Datasets -> SUBSET Int]
  <2>1. request[s].data \in Datasets /\ served \in [Datasets -> SUBSET Int]
    BY DEF Answer, Ready, IInv, TypeOK, Directed, Replaying
  <2>2. QED BY <2>1 DEF Answer
<1>2. TypeOK'
  BY <1>1, IdleIsRequest DEF Answer, End, IInv, TypeOK, rows, bounds, files
<1>3. QED BY <1>2, EndPreserves DEF Answer, rows, bounds

LEMMA WritingPreserves ==
  ASSUME IInv, Regenerate \/ FinishWriting \/ AbandonWriting
  PROVE  IInv'
<1>1. CASE Regenerate
  <2>1. TypeOK'
    BY <1>1 DEF Regenerate, IInv, TypeOK, rows, replay, files
  <2>2. QED
    BY <1>1, <2>1 DEF Regenerate, rows, IInv, Directed, Dated, EntersAlone, CommitsAlone,
       NoConflictAtCommit, Conflicts, AuditTellsTheContext
<1>2. CASE FinishWriting
  <2>1. TypeOK'
    BY <1>2 DEF FinishWriting, IInv, TypeOK, rows, replay, bounds, files
  <2>2. QED
    BY <1>2, <2>1 DEF FinishWriting, rows, bounds, IInv, Directed, Dated, EntersAlone, CommitsAlone,
       NoConflictAtCommit, Conflicts, AuditTellsTheContext
<1>3. CASE AbandonWriting
  <2>1. TypeOK'
    BY <1>3 DEF AbandonWriting, IInv, TypeOK, rows, replay, files
  <2>2. QED
    BY <1>3, <2>1 DEF AbandonWriting, rows, IInv, Directed, Dated, EntersAlone, CommitsAlone,
       NoConflictAtCommit, Conflicts, AuditTellsTheContext
<1>4. QED BY <1>1, <1>2, <1>3

LEMMA NextPreserves == IInv /\ [Next]_vars => IInv'
<1> SUFFICES ASSUME IInv, [Next]_vars PROVE IInv'
  OBVIOUS
<1>1. ASSUME NEW s \in Sessions, Step(s)
      PROVE  IInv'
  BY <1>1, SelectPreserves, ReadStrategiesPreserves, LeavePreserves, EnterPreserves,
     PassIndexPreserves, CommitPreserves, OverPreserves, ClearPreserves, SeekPreserves,
     StorePreserves, AnswerPreserves DEF Step
<1>2. CASE UNCHANGED vars
  BY <1>2 DEF vars, rows, files, replay, bounds, IInv, TypeOK, Directed, Dated, EntersAlone, CommitsAlone,
     NoConflictAtCommit, Conflicts, AuditTellsTheContext
<1>3. CASE Next
  BY <1>1, <1>3, BeginSelectPreserves, BeginActivatePreserves, BeginReplayPreserves, OverPreserves,
     WritingPreserves DEF Next
<1>4. QED BY <1>2, <1>3

-----------------------------------------------------------------------------
\* One context is active, and a row of the audit trail names it such that every row
\* dated later is of a switch that overlapped its own, for any number of sessions whose
\* switches cross, fail and are aborted (context.py, switch_context;
\* uq_execution_contexts_one_active_per_user; switched_at of models/execution.py).
THEOREM TheTrailIsTrue == Spec => []AuditTellsTheContext
<1>1. IInv => AuditTellsTheContext
  BY DEF IInv
<1>2. QED BY <1>1, InitEstablishes, NextPreserves, PTL DEF Spec

\* At most one transaction is between the unique index and its COMMIT: the lock of
\* the row entered and the index exclude each other's gaps (context.py, the two
\* flushes of switch_context).
THEOREM SwitchesCommitAlone == Spec => []CommitsAlone
<1>1. IInv => CommitsAlone
  BY DEF IInv
<1>2. QED BY <1>1, InitEstablishes, NextPreserves, PTL DEF Spec

\* Rows, replay session and requests keep their types (context.py, replay.py).
THEOREM ContextTypes == Spec => []TypeOK
<1>1. IInv => TypeOK
  BY DEF IInv
<1>2. QED BY <1>1, InitEstablishes, NextPreserves, PTL DEF Spec

-----------------------------------------------------------------------------
\* A position stands for a dataset of its id; what a request is about to store follows
\* candles that are covered; a reset stores the position before the first one.
CoveredBelow ==
  \A s \in Sessions :
    /\ request[s].pc = "clear" => request[s].index = -1
    /\ request[s].pc = "store" =>
         \A i \in 0 .. request[s].index - 1 : Covered(request[s].data, i)

HeldById == position # None => holder \in Datasets /\ holder.id = position.id

Contiguous == NoCandleIsSkipped /\ CoveredBelow /\ HeldById

\* Whatever covers a candle goes on to do so.
CoveredNext(d, i) ==
  \/ i \in served'[d] \cup missed'[d]
  \/ \E s \in Sessions : /\ request'[s].pc = "answer"
                         /\ request'[s].data = d /\ request'[s].index = i
CoverageGrows == \A d \in Datasets : \A i \in Nat : Covered(d, i) => CoveredNext(d, i)

LEMMA CoverageGrowsBy ==
  ASSUME IInv, NEW s \in Sessions, NEW r, request' = [request EXCEPT ![s] = r],
         served \in [Datasets -> SUBSET Int], missed \in [Datasets -> SUBSET Int],
         \A d \in Datasets : served[d] \subseteq served'[d] /\ missed[d] \subseteq missed'[d],
         request[s].pc = "answer" /\ request[s].index \in Nat =>
           request[s].index \in served'[request[s].data] \cup missed'[request[s].data]
  PROVE  CoverageGrows
<1> SUFFICES ASSUME NEW d \in Datasets, NEW i \in Nat, Covered(d, i)
             PROVE  CoveredNext(d, i)
  BY DEF CoverageGrows
<1>1. \A t \in Sessions \ {s} : request'[t] = request[t]
  BY DEF IInv, TypeOK
<1>2. CASE i \in served[d] \cup missed[d]
  BY <1>2 DEF CoveredNext
<1>3. ASSUME NEW t \in Sessions, request[t].pc = "answer", request[t].data = d, request[t].index = i
      PROVE  CoveredNext(d, i)
  BY <1>1, <1>3 DEF CoveredNext
<1>4. QED BY <1>2, <1>3 DEF Covered

\* A request that the step does not move.
LEMMA StaysBelow ==
  ASSUME IInv, Contiguous, CoverageGrows, NEW t \in Sessions, request'[t] = request[t]
  PROVE  /\ request'[t].pc = "clear" => request'[t].index = -1
         /\ request'[t].pc = "store" =>
              \A i \in 0 .. request'[t].index - 1 : CoveredNext(request'[t].data, i)
<1>1. request[t].pc = "clear" => request[t].index = -1
  BY DEF Contiguous, CoveredBelow
<1>2. ASSUME request[t].pc = "store"
      PROVE  \A i \in 0 .. request[t].index - 1 : CoveredNext(request[t].data, i)
  <2>1. request[t].data \in Datasets /\ request[t].index \in Int
    BY <1>2 DEF IInv, TypeOK, Directed, Replaying, RequestType
  <2>2. \A i \in 0 .. request[t].index - 1 : Covered(request[t].data, i)
    BY <1>2 DEF Contiguous, CoveredBelow
  <2>3. \A i \in Nat : Covered(request[t].data, i) => CoveredNext(request[t].data, i)
    BY <2>1 DEF CoverageGrows
  <2>4. 0 .. request[t].index - 1 \subseteq Nat
    BY <2>1
  <2>5. QED BY <2>2, <2>3, <2>4
<1>3. QED BY <1>1, <1>2

\* A step that leaves the position alone, and of the requests moves one.
LEMMA MovesContiguous ==
  ASSUME IInv, Contiguous, UNCHANGED <<position, holder>>, CoverageGrows,
         NEW s \in Sessions, NEW r, request' = [request EXCEPT ![s] = r],
         r.pc = "clear" => r.index = -1,
         r.pc = "store" => /\ r.index \in Int /\ r.data \in Datasets
                           /\ \A i \in 0 .. r.index - 1 : CoveredNext(r.data, i)
  PROVE  Contiguous'
<1>1. \A t \in Sessions : request'[t] = IF t = s THEN r ELSE request[t]
  BY DEF IInv, TypeOK
<1>2. \A d \in Datasets : \A i \in Nat : Covered(d, i) => CoveredNext(d, i)
  BY DEF CoverageGrows
<1>3. position # None => position.index \in Int
  BY DEF IInv, TypeOK
<1>4. NoCandleIsSkipped'
  <2> SUFFICES ASSUME position # None, NEW i \in 0 .. position.index
               PROVE  CoveredNext(holder, i)
    BY DEF NoCandleIsSkipped, Covered, CoveredNext
  <2>1. i \in Nat /\ holder \in Datasets /\ Covered(holder, i)
    BY <1>3 DEF Contiguous, NoCandleIsSkipped, HeldById
  <2>2. QED BY <1>2, <2>1
<1>5. CoveredBelow'
  <2> SUFFICES ASSUME NEW t \in Sessions
               PROVE  /\ request'[t].pc = "clear" => request'[t].index = -1
                      /\ request'[t].pc = "store" =>
                           \A i \in 0 .. request'[t].index - 1 : CoveredNext(request'[t].data, i)
    BY DEF CoveredBelow, Covered, CoveredNext
  <2>1. CASE t = s
    BY <1>1, <2>1
  <2>2. CASE t # s
    BY <1>1, <2>2, StaysBelow
  <2>3. QED BY <2>1, <2>2
<1>6. HeldById'
  BY DEF Contiguous, HeldById
<1>7. QED BY <1>4, <1>5, <1>6 DEF Contiguous

\* A step that has nothing to do with the replay.
LEMMA OthersKeepContiguous ==
  ASSUME IInv, Contiguous, UNCHANGED replay,
         NEW s \in Sessions, request[s].pc # "answer",
         NEW r, request' = [request EXCEPT ![s] = r],
         r.pc \notin {"clear", "store"}
  PROVE  Contiguous'
<1>1. CoverageGrows
  BY CoverageGrowsBy DEF IInv, TypeOK, replay
<1>2. QED BY <1>1, MovesContiguous DEF replay

LEMMA EndKeepsContiguous ==
  ASSUME IInv, Contiguous, UNCHANGED replay, NEW s \in Sessions, request[s].pc # "answer", End(s)
  PROVE  Contiguous'
BY IdleIsRequest, OthersKeepContiguous DEF End

LEMMA GoesOnContiguous ==
  ASSUME IInv, Contiguous, UNCHANGED replay, NEW s \in Sessions, request[s].pc # "answer",
         NEW pc, GoTo(s, pc), pc \notin {"clear", "store"}
  PROVE  Contiguous'
<1> DEFINE r == [request[s] EXCEPT !.pc = pc]
<1>1. request[s] \in RequestType
  BY DEF IInv, TypeOK
<1>2. r.pc = pc
  BY <1>1 DEF RequestType
<1>3. request' = [request EXCEPT ![s] = r]
  BY DEF GoTo
<1> HIDE DEF r
<1>4. QED BY <1>2, <1>3, OthersKeepContiguous

LEMMA SwitchKeepsContiguous ==
  ASSUME IInv, Contiguous, NEW s \in Sessions,
         \/ \E k \in SELECTABLE_KINDS : BeginSelect(s, k)
         \/ \E confirm \in BOOLEAN : Select(s, confirm)
         \/ BeginActivate(s) \/ ReadStrategies(s) \/ Leave(s) \/ Enter(s) \/ PassIndex(s)
         \/ Commit(s) \/ AbortDeadlock(s) \/ Activate(s)
  PROVE  Contiguous'
<1>1. CASE \E k \in SELECTABLE_KINDS : BeginSelect(s, k)
  <2> PICK k \in SELECTABLE_KINDS : BeginSelect(s, k)
    BY <1>1
  <2> DEFINE r == [Idle EXCEPT !.op = "select", !.pc = "select", !.to = k, !.began = changes + 1]
  <2>1. r.pc \notin {"clear", "store"}
    BY DEF Idle
  <2>2. /\ request' = [request EXCEPT ![s] = r] /\ UNCHANGED replay
        /\ request[s].pc # "answer"
    BY DEF BeginSelect
  <2> HIDE DEF r
  <2>3. QED BY <2>1, <2>2, OthersKeepContiguous
<1>2. CASE \E confirm \in BOOLEAN : Select(s, confirm)
  <2> DEFINE pc == IF Active = None THEN "enter" ELSE "strategies"
             r == [request[s] EXCEPT !.from = Active, !.pc = pc]
  <2>1. request[s] \in RequestType /\ DOMAIN request = Sessions
    BY DEF IInv, TypeOK
  <2>2. r.pc \notin {"clear", "store"}
    BY <2>1 DEF RequestType
  <2>3. UNCHANGED replay /\ request[s].pc # "answer"
    BY <1>2 DEF Select, Ready
  <2>4. End(s) \/ request' = [request EXCEPT ![s] = r]
    BY <1>2, <2>1 DEF Select
  <2> HIDE DEF r
  <2>5. QED BY <2>2, <2>3, <2>4, EndKeepsContiguous, OthersKeepContiguous
<1>3. CASE BeginActivate(s)
  <2> DEFINE r == [Idle EXCEPT !.op = "activate", !.pc = "activate", !.to = Active]
  <2>1. r.pc \notin {"clear", "store"}
    BY DEF Idle
  <2>2. /\ request' = [request EXCEPT ![s] = r] /\ UNCHANGED replay
        /\ request[s].pc # "answer"
    BY <1>3 DEF BeginActivate
  <2> HIDE DEF r
  <2>3. QED BY <2>1, <2>2, OthersKeepContiguous
<1>4. CASE ReadStrategies(s)
  <2> DEFINE r == [request[s] EXCEPT !.pc = "leave", !.paused = request[s].from \in running]
  <2>1. request[s] \in RequestType
    BY DEF IInv, TypeOK
  <2>2. r.pc \notin {"clear", "store"}
    BY <2>1 DEF RequestType
  <2>3. /\ request' = [request EXCEPT ![s] = r] /\ UNCHANGED replay
        /\ request[s].pc # "answer"
    BY <1>4 DEF ReadStrategies, Ready, IInv, TypeOK
  <2> HIDE DEF r
  <2>4. QED BY <2>2, <2>3, OthersKeepContiguous
<1>5. CASE Leave(s) \/ Enter(s) \/ PassIndex(s)
  BY <1>5, GoesOnContiguous, EndKeepsContiguous DEF Leave, Enter, PassIndex, Ready
<1>6. CASE Commit(s) \/ Activate(s)
  BY <1>6, EndKeepsContiguous DEF Commit, Activate, Ready
<1>7. CASE AbortDeadlock(s)
  <2>1. request[s].pc # "answer"
    BY <1>7 DEF AbortDeadlock, Deadlocked, WaitsFor
  <2>2. QED BY <1>7, <2>1, EndKeepsContiguous DEF AbortDeadlock
<1>8. QED BY <1>1, <1>2, <1>3, <1>4, <1>5, <1>6, <1>7

\* The candle of a request that fails after SET was missed.
LEMMA FailKeepsContiguous ==
  ASSUME IInv, Contiguous, NEW s \in Sessions, Fail(s)
  PROVE  Contiguous'
<1>1. /\ request[s].pc = "answer" => request[s].data \in Datasets
      /\ request[s].index \in Int
      /\ served \in [Datasets -> SUBSET Int] /\ missed \in [Datasets -> SUBSET Int]
  BY DEF IInv, TypeOK, Directed, Replaying, RequestType
<1>2. UNCHANGED <<position, holder, served>> /\ request' = [request EXCEPT ![s] = Idle]
  BY DEF Fail, End
<1>3. CASE request[s].pc = "answer"
  <2>1. missed' = [missed EXCEPT ![request[s].data] = @ \cup {request[s].index}]
    BY <1>3 DEF Fail, MissedCandles
  <2>2. CoverageGrows
    BY <1>1, <1>2, <1>3, <2>1, CoverageGrowsBy
  <2>3. QED BY <1>2, <2>2, IdleIsRequest, MovesContiguous
<1>4. CASE request[s].pc # "answer"
  BY <1>2, <1>4, EndKeepsContiguous DEF Fail, End, replay
<1>5. QED BY <1>3, <1>4

LEMMA BeginReplayKeepsContiguous ==
  ASSUME IInv, Contiguous, NEW s \in Sessions, NEW op \in {"reset", "advance"}, BeginReplay(s, op)
  PROVE  Contiguous'
<1> DEFINE r == [Idle EXCEPT !.op = op, !.data = file,
                   !.pc = IF op = "reset" THEN "clear" ELSE "seek"]
<1>1. r.pc \in {"clear", "seek"} /\ r.index = -1
  BY DEF Idle
<1>2. /\ request' = [request EXCEPT ![s] = r] /\ UNCHANGED replay
      /\ request[s].pc # "answer"
  BY DEF BeginReplay
<1> HIDE DEF r
<1>3. CoverageGrows
  BY <1>2, CoverageGrowsBy DEF IInv, TypeOK, replay
<1>4. QED BY <1>1, <1>2, <1>3, MovesContiguous DEF replay

LEMMA ClearKeepsContiguous ==
  ASSUME IInv, Contiguous, NEW s \in Sessions, Clear(s)
  PROVE  Contiguous'
<1> DEFINE r == [request[s] EXCEPT !.pc = "store"]
<1>1. request[s] \in RequestType /\ request[s].pc = "clear"
  BY DEF IInv, TypeOK, Clear, Ready
<1>2. r.pc = "store" /\ r.index = -1
  BY <1>1 DEF RequestType, Contiguous, CoveredBelow
<1>3. /\ request' = [request EXCEPT ![s] = r]
      /\ position' = None /\ UNCHANGED <<served, missed>>
  BY DEF Clear, GoTo
<1> HIDE DEF r
<1>4. CoverageGrows
  BY <1>1, <1>3, CoverageGrowsBy DEF IInv, TypeOK
<1>5. \A t \in Sessions : request'[t] = IF t = s THEN r ELSE request[t]
  BY <1>3 DEF IInv, TypeOK
<1>6. CoveredBelow'
  <2> SUFFICES ASSUME NEW t \in Sessions
               PROVE  /\ request'[t].pc = "clear" => request'[t].index = -1
                      /\ request'[t].pc = "store" =>
                           \A i \in 0 .. request'[t].index - 1 : CoveredNext(request'[t].data, i)
    BY DEF CoveredBelow, Covered, CoveredNext
  <2>1. CASE t = s
    BY <1>2, <1>5, <2>1
  <2>2. CASE t # s
    BY <1>4, <1>5, <2>2, StaysBelow
  <2>3. QED BY <2>1, <2>2
<1>7. QED BY <1>3, <1>6 DEF Contiguous, NoCandleIsSkipped, HeldById

\* A position is resumed from covered candles of the same file, or its candles are missed.
LEMMA SeekKeepsContiguous ==
  ASSUME IInv, Contiguous, NEW s \in Sessions, Seek(s)
  PROVE  Contiguous'
<1> DEFINE data == request[s].data
           index == IF Resumes(data) THEN position.index ELSE -1
           next == IF IsFinished(data, index) THEN index ELSE index + 1
           r == [request[s] EXCEPT !.pc = "store", !.index = next]
<1>1. /\ request[s] \in RequestType /\ DOMAIN request = Sessions /\ request[s].pc = "seek"
      /\ data \in Datasets /\ index \in Int
      /\ served \in [Datasets -> SUBSET Int] /\ missed \in [Datasets -> SUBSET Int]
  BY DEF Seek, Ready, IInv, TypeOK, Directed, Replaying, Resumes
<1>2. UNCHANGED <<position, holder, served>>
  BY DEF Seek
<1>3. \/ missed' = missed
      \/ missed' = [missed EXCEPT ![data] = @ \cup (0..index)]
  BY DEF Seek, MissedCandles
<1>4. \A d \in Datasets : missed[d] \subseteq missed'[d]
  <2> HIDE DEF data, index
  <2>1. QED BY <1>1, <1>3
<1>5. CASE End(s)
  <2>1. CoverageGrows
    BY <1>1, <1>2, <1>4, <1>5, CoverageGrowsBy DEF End
  <2>2. QED BY <1>2, <1>5, <2>1, IdleIsRequest, MovesContiguous DEF End
<1>6. CASE request' = [request EXCEPT ![s] = r]
  <2>1. CoverageGrows
    BY <1>1, <1>2, <1>4, <1>6, CoverageGrowsBy
  <2>2. ASSUME NEW i \in 0..index
        PROVE  CoveredNext(data, i)
    <3>1. CASE ~Resumes(data)
      <4>1. index = -1
        BY <3>1
      <4>2. QED BY <4>1
    <3>2. CASE Resumes(data) /\ holder # data /\ holder.id = data.id
      <4>1. missed' = [missed EXCEPT ![data] = @ \cup (0..index)]
        BY <3>2 DEF Seek, MissedCandles
      <4>2. i \in missed'[data]
        <5> HIDE DEF data, index
        <5>1. QED BY <1>1, <4>1
      <4>3. QED BY <4>2 DEF CoveredNext
    <3>3. CASE Resumes(data) /\ holder = data
      <4>1. Covered(data, i)
        BY <3>3 DEF Resumes, Contiguous, NoCandleIsSkipped
      <4>2. i \in Nat
        BY <1>1
      <4>3. QED BY <1>1, <2>1, <4>1, <4>2 DEF CoverageGrows
    <3>4. Resumes(data) => holder.id = data.id
      BY DEF Resumes, Contiguous, HeldById
    <3>5. QED BY <3>1, <3>2, <3>3, <3>4
  <2>3. next \in {index, index + 1}
    OBVIOUS
  <2>4. r.pc = "store" /\ r.index = next /\ r.data = data
    BY <1>1 DEF RequestType
  <2> HIDE DEF r, index, next, data
  <2>5. next \in Int /\ \A i \in 0 .. next - 1 : CoveredNext(data, i)
    BY <1>1, <2>2, <2>3
  <2>6. QED
    BY <1>1, <1>2, <1>6, <2>1, <2>4, <2>5, MovesContiguous
<1>7. QED BY <1>1, <1>5, <1>6 DEF Seek

\* The candle of the new position is about to be sent.
LEMMA StoreKeepsContiguous ==
  ASSUME IInv, Contiguous, NEW s \in Sessions, Store(s)
  PROVE  Contiguous'
<1> DEFINE data == request[s].data
           index == request[s].index
           r == [request[s] EXCEPT !.pc = "answer"]
<1>1. /\ request[s] \in RequestType /\ request[s].pc = "store"
      /\ data \in Datasets /\ index \in Int
  BY DEF Store, Ready, IInv, TypeOK, Directed, Replaying, RequestType
<1>2. /\ position' = [id |-> data.id, index |-> index] /\ holder' = data
      /\ request' = [request EXCEPT ![s] = r] /\ UNCHANGED <<served, missed>>
  BY DEF Store, GoTo
<1>3. r.pc = "answer" /\ r.data = data /\ r.index = index
  BY <1>1 DEF RequestType
<1>4. \A i \in 0 .. index - 1 : Covered(data, i)
  BY <1>1 DEF Contiguous, CoveredBelow
<1> HIDE DEF r, data, index
<1>5. CoverageGrows
  BY <1>1, <1>2, CoverageGrowsBy DEF IInv, TypeOK
<1>6. \A t \in Sessions : request'[t] = IF t = s THEN r ELSE request[t]
  BY <1>2 DEF IInv, TypeOK
<1>7. NoCandleIsSkipped'
  <2> SUFFICES ASSUME NEW i \in 0..index
               PROVE  CoveredNext(data, i)
    BY <1>2 DEF NoCandleIsSkipped, Covered, CoveredNext
  <2>1. CASE i = index
    BY <1>3, <1>6, <2>1 DEF CoveredNext
  <2>2. CASE i # index
    <3>1. i \in 0 .. index - 1 /\ i \in Nat
      BY <1>1, <2>2
    <3>2. QED BY <1>1, <1>4, <1>5, <3>1 DEF CoverageGrows
  <2>3. QED BY <2>1, <2>2
<1>8. CoveredBelow'
  <2> SUFFICES ASSUME NEW t \in Sessions
               PROVE  /\ request'[t].pc = "clear" => request'[t].index = -1
                      /\ request'[t].pc = "store" =>
                           \A i \in 0 .. request'[t].index - 1 : CoveredNext(request'[t].data, i)
    BY DEF CoveredBelow, Covered, CoveredNext
  <2>1. CASE t = s
    BY <1>3, <1>6, <2>1
  <2>2. CASE t # s
    BY <1>5, <1>6, <2>2, StaysBelow
  <2>3. QED BY <2>1, <2>2
<1>9. HeldById'
  BY <1>1, <1>2 DEF HeldById
<1>10. QED BY <1>7, <1>8, <1>9 DEF Contiguous

LEMMA AnswerKeepsContiguous ==
  ASSUME IInv, Contiguous, NEW s \in Sessions, Answer(s)
  PROVE  Contiguous'
<1>1. /\ request[s].data \in Datasets
      /\ served \in [Datasets -> SUBSET Int] /\ missed \in [Datasets -> SUBSET Int]
  BY DEF Answer, Ready, IInv, TypeOK, Directed, Replaying
<1>2. /\ UNCHANGED <<position, holder, missed>> /\ request' = [request EXCEPT ![s] = Idle]
      /\ served' = [served EXCEPT ![request[s].data] = @ \cup ({request[s].index} \cap Nat)]
  BY DEF Answer, End
<1>3. CoverageGrows
  BY <1>1, <1>2, CoverageGrowsBy
<1>4. QED BY <1>2, <1>3, IdleIsRequest, MovesContiguous

LEMMA NextKeepsContiguous == IInv /\ Contiguous /\ [Next]_vars => Contiguous'
<1> SUFFICES ASSUME IInv, Contiguous, [Next]_vars PROVE Contiguous'
  OBVIOUS
<1>1. CASE Regenerate \/ FinishWriting \/ AbandonWriting \/ UNCHANGED vars
  BY <1>1 DEF Regenerate, FinishWriting, AbandonWriting, vars, replay, Contiguous,
     NoCandleIsSkipped, CoveredBelow, HeldById, Covered
<1>2. ASSUME NEW s \in Sessions, Step(s)
      PROVE  Contiguous'
  BY <1>2, SwitchKeepsContiguous, ClearKeepsContiguous, SeekKeepsContiguous, StoreKeepsContiguous,
     AnswerKeepsContiguous DEF Step
<1>3. QED
  BY <1>1, <1>2, SwitchKeepsContiguous, BeginReplayKeepsContiguous, FailKeepsContiguous DEF Next

\* Every candle of a file up to the position has been sent, is about to be, or was
\* passed over in one of the two ways MissedCandles tells, for any number of sessions
\* that advance and reset the replay while requests fail and the dataset is written
\* anew (routers/replay.py, advance_session and reset_session).
THEOREM ReplayIsContiguous == Spec => []NoCandleIsSkipped
<1>1. Init => Contiguous
  BY IdleIsRequest DEF Init, Contiguous, NoCandleIsSkipped, CoveredBelow, HeldById
<1>2. Contiguous => NoCandleIsSkipped
  BY DEF Contiguous
<1>3. QED
  BY <1>1, <1>2, InitEstablishes, NextPreserves, NextKeepsContiguous, PTL DEF Spec

-----------------------------------------------------------------------------
\* A switch has looked for the strategies of the context it leaves.
Leaving(s) == request[s].pc \in HasLeft \cup {"leave"}

\* An activation knows the active context, or that context is exposed; it does not run
\* beside a switch away from its context unless that one is exposed; and a switch
\* suspends what runs in the context it leaves, or that context is exposed.
Exposing ==
  /\ \A t \in Sessions : request[t].pc = "activate" =>
       selected[request[t].to] \/ request[t].to \in exposed
  /\ \A s, t \in Sessions : /\ Leaving(s) /\ request[t].pc = "activate"
                            /\ request[t].to = request[s].from
                            => request[s].from \in exposed
  /\ \A s \in Sessions : Leaving(s) /\ request[s].from \in running =>
       request[s].paused \/ request[s].from \in exposed

Suspended == OnlyRacesKeepRunning /\ Exposing

\* A step that commits nothing, activates nothing and does not begin to leave.
LEMMA OthersKeepSuspended ==
  ASSUME IInv, Suspended, UNCHANGED <<rows, exposed>>,
         NEW s \in Sessions, NEW r, request' = [request EXCEPT ![s] = r],
         r.pc # "activate",
         r.pc \in HasLeft \cup {"leave"} =>
           \/ r.from = None
           \/ Leaving(s) /\ r.from = request[s].from /\ r.paused = request[s].paused
  PROVE  Suspended'
<1>1. DOMAIN request = Sessions /\ running \subseteq SELECTABLE_KINDS /\ None \notin SELECTABLE_KINDS
  BY ContextsAssumption DEF IInv, TypeOK
<1>2. \A t \in Sessions : request[t].pc = "activate" => request[t].to \in SELECTABLE_KINDS
  BY DEF IInv, Directed
<1>3. UNCHANGED <<selected, running, exposed>>
  BY DEF rows
<1>4. OnlyRacesKeepRunning'
  BY <1>3 DEF Suspended, OnlyRacesKeepRunning
<1>5. Exposing'
  BY <1>1, <1>2, <1>3 DEF Suspended, Exposing, Leaving
<1>6. QED BY <1>4, <1>5 DEF Suspended

LEMMA GoesOnSuspended ==
  ASSUME IInv, Suspended, UNCHANGED <<rows, exposed>>, NEW s \in Sessions, NEW pc, GoTo(s, pc),
         pc # "activate", pc \in HasLeft \cup {"leave"} => Leaving(s)
  PROVE  Suspended'
<1> DEFINE r == [request[s] EXCEPT !.pc = pc]
<1>1. request[s] \in RequestType
  BY DEF IInv, TypeOK
<1>2. r.pc = pc /\ r.from = request[s].from /\ r.paused = request[s].paused
  BY <1>1 DEF RequestType
<1>3. request' = [request EXCEPT ![s] = r]
  BY DEF GoTo
<1> HIDE DEF r
<1>4. QED BY <1>2, <1>3, OthersKeepSuspended

LEMMA EndKeepsSuspended ==
  ASSUME IInv, Suspended, UNCHANGED <<rows, exposed>>, NEW s \in Sessions, End(s)
  PROVE  Suspended'
BY IdleIsRequest, OthersKeepSuspended DEF End, HasLeft

LEMMA SelectKeepsSuspended ==
  ASSUME IInv, Suspended, NEW s \in Sessions,
         \/ \E k \in SELECTABLE_KINDS : BeginSelect(s, k)
         \/ \E confirm \in BOOLEAN : Select(s, confirm)
  PROVE  Suspended'
<1>1. CASE \E k \in SELECTABLE_KINDS : BeginSelect(s, k)
  <2> PICK k \in SELECTABLE_KINDS : BeginSelect(s, k)
    BY <1>1
  <2> DEFINE r == [Idle EXCEPT !.op = "select", !.pc = "select", !.to = k, !.began = changes + 1]
  <2>1. r.pc = "select"
    BY DEF Idle
  <2>2. request' = [request EXCEPT ![s] = r] /\ UNCHANGED <<rows, exposed>>
    BY DEF BeginSelect
  <2> HIDE DEF r
  <2>3. QED BY <2>1, <2>2, OthersKeepSuspended DEF HasLeft
<1>2. CASE \E confirm \in BOOLEAN : Select(s, confirm)
  <2> DEFINE pc == IF Active = None THEN "enter" ELSE "strategies"
             r == [request[s] EXCEPT !.from = Active, !.pc = pc]
  <2>1. request[s] \in RequestType /\ DOMAIN request = Sessions
    BY DEF IInv, TypeOK
  <2>2. r.pc # "activate" /\ (r.pc \in HasLeft \cup {"leave"} => r.from = None)
    BY <2>1 DEF RequestType, HasLeft
  <2>3. UNCHANGED <<rows, exposed>>
    BY <1>2 DEF Select
  <2>4. End(s) \/ request' = [request EXCEPT ![s] = r]
    BY <1>2, <2>1 DEF Select
  <2> HIDE DEF r
  <2>5. QED BY <2>2, <2>3, <2>4, EndKeepsSuspended, OthersKeepSuspended
<1>3. QED BY <1>1, <1>2

LEMMA ReplayKeepsSuspended ==
  ASSUME IInv, Suspended, NEW s \in Sessions,
         \/ \E op \in {"reset", "advance"} : BeginReplay(s, op)
         \/ Clear(s) \/ Seek(s) \/ Store(s) \/ Answer(s)
  PROVE  Suspended'
<1>1. CASE \E op \in {"reset", "advance"} : BeginReplay(s, op)
  <2> PICK op \in {"reset", "advance"} : BeginReplay(s, op)
    BY <1>1
  <2> DEFINE r == [Idle EXCEPT !.op = op, !.data = file,
                     !.pc = IF op = "reset" THEN "clear" ELSE "seek"]
  <2>1. r.pc \in {"clear", "seek"}
    BY DEF Idle
  <2>2. request' = [request EXCEPT ![s] = r] /\ UNCHANGED <<rows, exposed>>
    BY DEF BeginReplay
  <2> HIDE DEF r
  <2>3. QED BY <2>1, <2>2, OthersKeepSuspended DEF HasLeft
<1>2. CASE Clear(s)
  BY <1>2, GoesOnSuspended DEF Clear, HasLeft
<1>3. CASE Seek(s)
  <2>1. CASE End(s)
    BY <1>3, <2>1, EndKeepsSuspended DEF Seek
  <2>2. CASE ~End(s)
    <3> PICK index : request' = [request EXCEPT ![s].pc = "store", ![s].index = index]
      BY <1>3, <2>2 DEF Seek
    <3> DEFINE r == [request[s] EXCEPT !.pc = "store", !.index = index]
    <3>1. request[s] \in RequestType /\ DOMAIN request = Sessions
      BY DEF IInv, TypeOK
    <3>2. r.pc = "store"
      BY <3>1 DEF RequestType
    <3>3. request' = [request EXCEPT ![s] = r]
      BY <3>1
    <3> HIDE DEF r
    <3>4. QED BY <1>3, <3>2, <3>3, OthersKeepSuspended DEF Seek, HasLeft
  <2>3. QED BY <2>1, <2>2
<1>4. CASE Store(s)
  BY <1>4, GoesOnSuspended DEF Store, HasLeft
<1>5. CASE Answer(s)
  BY <1>5, EndKeepsSuspended DEF Answer
<1>6. QED BY <1>1, <1>2, <1>3, <1>4, <1>5

LEMMA ReadStrategiesKeepsSuspended ==
  ASSUME IInv, Suspended, NEW s \in Sessions, ReadStrategies(s)
  PROVE  Suspended'
<1> DEFINE from == request[s].from
           r == [request[s] EXCEPT !.pc = "leave", !.paused = from \in running]
<1>1. request[s] \in RequestType /\ DOMAIN request = Sessions
  BY DEF IInv, TypeOK
<1>2. r.pc = "leave" /\ r.from = from /\ r.paused = (from \in running)
  BY <1>1 DEF RequestType
<1>3. /\ request' = [request EXCEPT ![s] = r]
      /\ UNCHANGED <<selected, running>> /\ exposed \subseteq exposed'
      /\ Activating(from) => from \in exposed'
  BY <1>1 DEF ReadStrategies, rows
<1> HIDE DEF r, from
<1>4. OnlyRacesKeepRunning'
  BY <1>3 DEF Suspended, OnlyRacesKeepRunning
<1>5. Exposing'
  BY <1>1, <1>2, <1>3 DEF Suspended, Exposing, Leaving, Activating
<1>6. QED BY <1>4, <1>5 DEF Suspended

LEMMA BeginActivateKeepsSuspended ==
  ASSUME IInv, Suspended, NEW s \in Sessions, BeginActivate(s)
  PROVE  Suspended'
<1> DEFINE r == [Idle EXCEPT !.op = "activate", !.pc = "activate", !.to = Active]
<1>1. r.pc = "activate" /\ r.to = Active /\ DOMAIN request = Sessions
  BY DEF Idle, IInv, TypeOK
<1>2. /\ request' = [request EXCEPT ![s] = r]
      /\ UNCHANGED <<selected, running>> /\ exposed \subseteq exposed'
      /\ \A t \in Sessions : Leaving(t) /\ request[t].from = Active => Active \in exposed'
  BY DEF BeginActivate, rows, Leaving
<1>3. selected[Active]
  BY DEF BeginActivate, Active
<1> HIDE DEF r
<1>4. OnlyRacesKeepRunning'
  BY <1>2 DEF Suspended, OnlyRacesKeepRunning
<1>5. Exposing'
  BY <1>1, <1>2, <1>3 DEF Suspended, Exposing, Leaving, HasLeft
<1>6. QED BY <1>4, <1>5 DEF Suspended

LEMMA ActivateKeepsSuspended ==
  ASSUME IInv, Suspended, NEW s \in Sessions, Activate(s)
  PROVE  Suspended'
<1> DEFINE k == request[s].to
<1>1. request[s].pc = "activate" /\ DOMAIN request = Sessions
  BY DEF Activate, Ready, IInv, TypeOK
<1>2. /\ request' = [request EXCEPT ![s] = Idle]
      /\ running' = running \cup {k} /\ UNCHANGED <<selected, exposed>>
  BY DEF Activate, End
<1>3. selected[k] \/ k \in exposed
  BY <1>1 DEF Suspended, Exposing
<1>4. \A t \in Sessions : Leaving(t) /\ request[t].from = k => k \in exposed
  BY <1>1 DEF Suspended, Exposing
<1> HIDE DEF k
<1>5. OnlyRacesKeepRunning'
  BY <1>2, <1>3 DEF Suspended, OnlyRacesKeepRunning
<1>6. Exposing'
  BY <1>1, <1>2, <1>4, IdleIsRequest DEF Suspended, Exposing, Leaving, HasLeft
<1>7. QED BY <1>5, <1>6 DEF Suspended

LEMMA CommitKeepsSuspended ==
  ASSUME IInv, Suspended, NEW s \in Sessions, Commit(s)
  PROVE  Suspended'
<1> DEFINE from == request[s].from
<1>1. Leaving(s) /\ DOMAIN request = Sessions /\ running \subseteq SELECTABLE_KINDS
  BY DEF Commit, Ready, IInv, TypeOK, Leaving, HasLeft
<1>2. /\ request' = [request EXCEPT ![s] = Idle] /\ UNCHANGED exposed
      /\ running' \subseteq running
      /\ request[s].paused => from \notin running'
      /\ \A k \in SELECTABLE_KINDS : selected[k] /\ k # from => selected'[k]
  BY DEF Commit, End
<1>3. \A t \in Sessions : request[t].pc = "activate" => request[t].to \in SELECTABLE_KINDS
  BY DEF IInv, Directed
<1>4. from \in running => request[s].paused \/ from \in exposed
  BY <1>1 DEF Suspended, Exposing
<1>5. \A t \in Sessions : request[t].pc = "activate" /\ request[t].to = from => from \in exposed
  BY <1>1 DEF Suspended, Exposing
<1> HIDE DEF from
<1>6. OnlyRacesKeepRunning'
  BY <1>1, <1>2, <1>4 DEF Suspended, OnlyRacesKeepRunning
<1>7. Exposing'
  BY <1>1, <1>2, <1>3, <1>5, IdleIsRequest DEF Suspended, Exposing, Leaving, HasLeft
<1>8. QED BY <1>6, <1>7 DEF Suspended

LEMMA NextKeepsSuspended == IInv /\ Suspended /\ [Next]_vars => Suspended'
<1> SUFFICES ASSUME IInv, Suspended, [Next]_vars PROVE Suspended'
  OBVIOUS
<1>1. CASE Regenerate \/ FinishWriting \/ AbandonWriting \/ UNCHANGED vars
  BY <1>1 DEF Regenerate, FinishWriting, AbandonWriting, vars, rows, Suspended,
     OnlyRacesKeepRunning, Exposing, Leaving
<1>2. ASSUME NEW s \in Sessions, Leave(s) \/ Enter(s)
      PROVE  Suspended'
  BY <1>2, GoesOnSuspended DEF Leave, Enter, Ready, Leaving, HasLeft
<1>3. ASSUME NEW s \in Sessions, PassIndex(s)
      PROVE  Suspended'
  BY <1>3, GoesOnSuspended, EndKeepsSuspended DEF PassIndex, Ready, Leaving, HasLeft
<1>4. ASSUME NEW s \in Sessions, AbortDeadlock(s) \/ Fail(s)
      PROVE  Suspended'
  BY <1>4, EndKeepsSuspended DEF AbortDeadlock, Fail
<1>5. ASSUME NEW s \in Sessions, Step(s)
      PROVE  Suspended'
  BY <1>2, <1>3, <1>4, <1>5, SelectKeepsSuspended, ReadStrategiesKeepsSuspended, CommitKeepsSuspended,
     ActivateKeepsSuspended, ReplayKeepsSuspended DEF Step
<1>6. QED
  BY <1>1, <1>4, <1>5, SelectKeepsSuspended, BeginActivateKeepsSuspended, ReplayKeepsSuspended
     DEF Next

\* A strategy runs in a context that is not active only if its activation overlapped
\* the switch away from it, for any number of sessions (context.py, switch_context;
\* strategy_instances.py, activate_instance).
THEOREM OnlyRacesSurvive == Spec => []OnlyRacesKeepRunning
<1>1. Init => Suspended
  BY IdleIsRequest DEF Init, Suspended, OnlyRacesKeepRunning, Exposing, Leaving, HasLeft
<1>2. Suspended => OnlyRacesKeepRunning
  BY DEF Suspended
<1>3. QED
  BY <1>1, <1>2, InitEstablishes, NextPreserves, NextKeepsSuspended, PTL DEF Spec
=============================================================================
