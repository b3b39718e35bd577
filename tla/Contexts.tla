------------------------------ MODULE Contexts ------------------------------
(***************************************************************************)
(* The execution contexts of a user and the replay session, as concurrent  *)
(* HTTP requests: backend/app/context.py (switch_context), its router,     *)
(* backend/app/routers/replay.py and shared/shared/replay_state.py.  The   *)
(* activation of a strategy is here as far as it meets a switch.           *)
(*                                                                         *)
(* A request is one READ COMMITTED transaction of PostgreSQL.  The rows of *)
(* execution_contexts it updates stay locked until it ends, a partial      *)
(* unique index lets at most one row of the user be active, and PostgreSQL *)
(* aborts one request of a circular wait.  It begins when get_current_user *)
(* looks for its session, whose row serialises the requests of one session;*)
(* those of two sessions interleave between any two of their calls.        *)
(***************************************************************************)
EXTENDS Integers, FiniteSets

CONSTANTS
  Sessions,    \* logins of the user that send requests
  None,        \* no context, no session, no dataset
  ReplaySymbols,
  Exports,     \* CSV exports, one file per symbol: [id, rows], a row [at, close]
  MaxGap,      \* the longest step of the time axis, in candles
  Scenarios    \* the file found first, and the bounds of the model with it

SELECTABLE_KINDS == {"PAPER", "REPLAY"}

(* The candles of a symbol's file: rows without a close are passed over.   *)
Priced(e, symbol) == {row \in e.rows[symbol] : row.close # None}
Exported(e, symbol) == {row.at : row \in Priced(e, symbol)}

(* The time axis: the minutes that every symbol has.                       *)
Shared(e) == {at \in UNION {Exported(e, symbol) : symbol \in ReplaySymbols} :
                \A symbol \in ReplaySymbols : at \in Exported(e, symbol)}

Gapless(axis) ==
  \A at \in axis : (\E later \in axis : later > at) => \E next \in axis : next - at \in 1..MaxGap

(* build_dataset refuses an axis that is empty, leaves out more than a     *)
(* tenth of a symbol's candles, or has a gap.                              *)
Sound(e) ==
  /\ Shared(e) # {} /\ Gapless(Shared(e))
  /\ \A symbol \in ReplaySymbols :
       10 * Cardinality(Exported(e, symbol) \ Shared(e)) <= Cardinality(Exported(e, symbol))

(* The files replay_data/dataset.json may hold, complete.  Two exports of  *)
(* one trading day have the same id, and candles of their own.             *)
Candles(e) == [symbol \in ReplaySymbols |->
                 {row \in Priced(e, symbol) : row.at \in Shared(e)}]
Datasets == {[id |-> e.id, bars |-> Cardinality(Shared(e)), candles |-> Candles(e)] :
               e \in {x \in Exports : Sound(x)}}

(* What is there while a file is being written: the checksum is wrong, or  *)
(* it is not JSON.                                                         *)
Torn == [id |-> "torn"]

(* load_dataset                                                            *)
Readable(f) == f \notin {None, Torn}

(* The rows of execution_context_switches.  began stands for switched_at,  *)
(* now() of PostgreSQL, the beginning of the transaction; the moment it    *)
(* ended, by COMMIT, is not in the table.                                  *)
Switches == [from : SELECTABLE_KINDS \cup {None}, to : SELECTABLE_KINDS,
             began : Nat, ended : Nat]

ASSUME ContextsAssumption ==
  /\ None \notin Sessions \cup SELECTABLE_KINDS
  /\ \A e \in Exports : \A symbol \in ReplaySymbols :
       \A row \in e.rows[symbol] : row.at \in Nat
  /\ MaxGap \in Nat
  /\ Scenarios \subseteq [file : Datasets \cup {None},  \* the one on disk at first
                          changes : Nat,    \* selections and activations
                          failures : Nat,   \* requests ended by an exception
                          fetches : Nat]    \* datasets written

VARIABLES
  selected,   \* selected[k]: the committed is_active of the context k
  running,    \* the contexts whose strategy is committed ACTIVE
  switched,   \* the committed rows of execution_context_switches
  file,       \* the dataset on disk
  writing,    \* the one that fetch_replay_dataset.py is writing
  position,   \* replay:session:<context> in Redis
  holder,     \* history: the dataset whose candle the position stands for
  served,     \* history: served[d], the candles of d sent to a client
  missed,     \* history: missed[d], those passed over as MissedCandles tells
  request,    \* request[s]: what the request of session s is doing
  exposed,    \* the contexts whose activation overlapped a switch away
  changes,    \* how many selections have begun
  failures,   \* how many requests have failed
  fetches,    \* how often the file has been written again
  bound       \* the scenario, chosen once for all

rows   == <<selected, running, switched>>
replay == <<position, holder, served, missed>>
bounds == <<changes, failures, fetches, bound>>
files == <<file, writing>>
vars == <<rows, files, replay, request, exposed, bounds>>
-----------------------------------------------------------------------------
Idle == [op |-> "none", pc |-> "idle", began |-> 0, from |-> None, to |-> None,
         paused |-> FALSE, data |-> None, index |-> -1]

(* active_context over the committed rows.                                 *)
Active == IF \E k \in SELECTABLE_KINDS : selected[k]
          THEN CHOOSE k \in SELECTABLE_KINDS : selected[k] ELSE None

(* The pcs of a selection whose transaction has updated the row it leaves, *)
(* locked the row it enters, and passed the unique index.                  *)
HasLeft    == {"enter", "index", "commit"}
HasEntered == {"index", "commit"}
HasIndexed == {"commit"}

(* The rows of execution_contexts locked by the transaction of s.          *)
Locks(s) == LET r == request[s] IN
  (IF r.pc \in HasLeft /\ r.from # None THEN {r.from} ELSE {})
    \cup (IF r.pc \in HasEntered THEN {r.to} ELSE {})

(* The sessions whose transaction the next statement of s waits for: the   *)
(* holder of the row it updates; for the unique index, a transaction that  *)
(* has deactivated or activated the other row and has not ended.           *)
WaitsFor(s) ==
  LET r == request[s]
      row(k) == {t \in Sessions \ {s} : k \in Locks(t)} IN
  CASE r.pc = "leave" -> row(r.from)
    [] r.pc = "enter" -> row(r.to)
    [] r.pc = "index" ->
         {t \in Sessions \ {s} :
            \/ /\ request[t].pc \in HasLeft
               /\ request[t].from \notin {None, r.to, r.from}
               /\ selected[request[t].from]
            \/ /\ request[t].pc \in HasIndexed
               /\ request[t].to # r.to}
    [] r.pc = "activate" ->
         {t \in Sessions \ {s} : /\ request[t].pc \in HasLeft
                                 /\ request[t].from = r.to
                                 /\ request[t].paused}
    [] OTHER -> {}

Ready(s, pc) == request[s].pc = pc /\ WaitsFor(s) = {}

GoTo(s, pc) == request' = [request EXCEPT ![s].pc = pc]

(* Mutant: get_db without its finally: the transaction stays open.         *)
EndWithoutRollback(s) == request' = [request EXCEPT ![s].op = "none"]

(* The transaction ends, by COMMIT or ROLLBACK, and with it its locks.     *)
End(s) == request' = [request EXCEPT ![s] = Idle]
-----------------------------------------------------------------------------
Ids == {d.id : d \in Datasets}

(* As seeded: no context selected yet; the dataset may be there or not.    *)
Init ==
  /\ selected = [k \in SELECTABLE_KINDS |-> FALSE]
  /\ running = {}
  /\ switched = {}
  /\ bound \in Scenarios /\ file = bound.file
  /\ writing = None
  /\ position = None /\ holder = None
  /\ served = [d \in Datasets |-> {}] /\ missed = [d \in Datasets |-> {}]
  /\ request = [s \in Sessions |-> Idle]
  /\ exposed = {}
  /\ changes = 0
  /\ failures = 0
  /\ fetches = 0

(* POST /api/contexts/select: the transaction begins, and its row will     *)
(* bear that moment; it may have to wait for the row of the session.       *)
BeginSelect(s, kind) ==
  /\ request[s].pc = "idle"
  /\ changes < bound.changes
  /\ changes' = changes + 1
  /\ request' = [request EXCEPT ![s] = [Idle EXCEPT
                    !.op = "select", !.pc = "select", !.to = kind, !.began = changes + 1]]
  /\ UNCHANGED <<rows, files, replay, exposed, failures, fetches, bound>>

(* switch_context: ensure_user_contexts reads the rows; the context is     *)
(* already active, the confirmation is missing (409), or the switch goes   *)
(* on from the active context it has read.                                 *)
Select(s, confirm) ==
  /\ Ready(s, "select")
  /\ IF Active = request[s].to \/ (Active # None /\ ~confirm)
     THEN End(s)
     ELSE request' = [request EXCEPT ![s].from = Active,
                        ![s].pc = IF Active = None THEN "enter" ELSE "strategies"]
  /\ UNCHANGED <<rows, files, replay, exposed, bounds>>

(* Mutant: the strategies of the context left are not looked for.          *)
ReadStrategiesBlindly(s) ==
  /\ Ready(s, "strategies")
  /\ request' = [request EXCEPT ![s].pc = "leave"]
  /\ UNCHANGED <<rows, files, replay, exposed, bounds>>

Activating(k) == \E s \in Sessions : /\ request[s].pc = "activate"
                                     /\ request[s].to = k

(* The SELECT of the ACTIVE strategies of the context left.  An activation *)
(* that has read its context and not written yet is not seen.              *)
ReadStrategies(s) ==
  LET from == request[s].from IN
  /\ Ready(s, "strategies")
  /\ request' = [request EXCEPT ![s].pc = "leave",
                                ![s].paused = from \in running]
  /\ exposed' = IF Activating(from) THEN exposed \cup {from} ELSE exposed
  /\ UNCHANGED <<rows, files, replay, bounds>>

(* The flush that deactivates the context left and pauses its strategies.  *)
Leave(s) ==
  /\ Ready(s, "leave")
  /\ GoTo(s, "enter")
  /\ UNCHANGED <<rows, files, replay, exposed, bounds>>

(* The flush that activates the target first takes the lock of its row.    *)
Enter(s) ==
  /\ Ready(s, "enter")
  /\ GoTo(s, "index")
  /\ UNCHANGED <<rows, files, replay, exposed, bounds>>

(* The active rows beside the target that the transaction has not left.    *)
Conflicts(s) == {k \in SELECTABLE_KINDS \ {request[s].to, request[s].from} :
                   selected[k]}

(* Mutant: without uq_execution_contexts_one_active_per_user.              *)
PassIndexAlways(s) ==
  /\ Ready(s, "index")
  /\ GoTo(s, "commit")
  /\ UNCHANGED <<rows, files, replay, exposed, bounds>>

(* uq_execution_contexts_one_active_per_user: an IntegrityError (500) when *)
(* another context is active; else the audit row is inserted and           *)
(* context.switched published, before the COMMIT: when that one fails, the *)
(* event tells of a switch that never was.                                 *)
PassIndex(s) ==
  /\ Ready(s, "index")
  /\ IF Conflicts(s) = {} THEN GoTo(s, "commit") ELSE End(s)
  /\ UNCHANGED <<rows, files, replay, exposed, bounds>>

Change(s) == [from |-> request[s].from, to |-> request[s].to,
              began |-> request[s].began, ended |-> changes]

(* COMMIT: both rows, the paused strategies and the audit row at once.     *)
Commit(s) ==
  LET r == request[s] IN
  /\ Ready(s, "commit")
  /\ selected' = [k \in SELECTABLE_KINDS |->
                    IF k = r.to THEN TRUE
                    ELSE IF k = r.from THEN FALSE ELSE selected[k]]
  /\ running' = IF r.paused THEN running \ {r.from} ELSE running
  /\ switched' = switched \cup {Change(s)}
  /\ End(s)
  /\ UNCHANGED <<files, replay, exposed, bounds>>

(* PostgreSQL aborts a transaction that waits in a circle.                 *)
Deadlocked(s) == \E t \in WaitsFor(s) : s \in WaitsFor(t)

AbortDeadlock(s) ==
  /\ Deadlocked(s)
  /\ End(s)
  /\ UNCHANGED <<rows, files, replay, exposed, bounds>>

(* A candle is passed over when its request fails after it has moved the   *)
(* position, and when the position is one that another file of the same id *)
(* has left.                                                               *)
MissedCandles(data, indices) == missed' = [missed EXCEPT ![data] = @ \cup indices]

(* Redis or PostgreSQL fails in the middle of a request: it is rolled back,*)
(* and what it has done in Redis stays.                                    *)
Fail(s) ==
  /\ request[s].pc # "idle"
  /\ failures < bound.failures
  /\ failures' = failures + 1
  /\ IF request[s].pc = "answer" THEN MissedCandles(request[s].data, {request[s].index})
     ELSE UNCHANGED missed
  /\ End(s)
  /\ UNCHANGED <<rows, files, position, holder, served, exposed, changes, fetches, bound>>
-----------------------------------------------------------------------------
(* POST /api/strategies/instances/{id}/activate: the active context, then  *)
(* the instance in it (one instance per context), then UPDATE and COMMIT.  *)
BeginActivate(s) ==
  /\ request[s].pc = "idle"
  /\ changes < bound.changes
  /\ Active # None
  /\ Active \notin running
  /\ request' = [request EXCEPT ![s] =
                   [Idle EXCEPT !.op = "activate", !.pc = "activate",
                                !.to = Active]]
  /\ changes' = changes + 1
  /\ exposed' = IF \E t \in Sessions : /\ request[t].pc \in HasLeft \cup {"leave"}
                                       /\ request[t].from = Active
                THEN exposed \cup {Active} ELSE exposed
  /\ UNCHANGED <<rows, files, replay, failures, fetches, bound>>

Activate(s) ==
  /\ Ready(s, "activate")
  /\ running' = running \cup {request[s].to}
  /\ End(s)
  /\ UNCHANGED <<selected, switched, files, replay, exposed, bounds>>
-----------------------------------------------------------------------------
(* POST /api/replay/session/reset and /advance: the active context must be *)
(* REPLAY (400 otherwise) and load_dataset must find a sound file (404).   *)
BeginReplay(s, op) ==
  /\ request[s].pc = "idle"
  /\ Active = "REPLAY"
  /\ Readable(file)
  /\ request' = [request EXCEPT ![s] =
                   [Idle EXCEPT !.op = op, !.data = file,
                      !.pc = IF op = "reset" THEN "clear" ELSE "seek"]]
  /\ UNCHANGED <<rows, files, replay, exposed, bounds>>

(* reset_session: DEL, then SET of a provider before its first candle.     *)
Clear(s) ==
  /\ Ready(s, "clear")
  /\ position' = None /\ holder' = None
  /\ GoTo(s, "store")
  /\ UNCHANGED <<rows, files, served, missed, exposed, bounds>>

IsFinished(data, index) == index >= data.bars - 1

(* Mutant: the position is resumed whatever dataset it belongs to.         *)
ResumesAny(data) == position # None

(* The session is resumed when it belongs to the dataset loaded.           *)
Resumes(data) == position # None /\ position.id = data.id

(* advance_session: GET; seek refuses (500) an index the file has not, and *)
(* without a session of this dataset the replay starts over; advance moves *)
(* one candle on unless the replay is finished.                            *)
Seek(s) ==
  LET data == request[s].data
      index == IF Resumes(data) THEN position.index ELSE -1 IN
  /\ Ready(s, "seek")
  /\ IF index >= data.bars THEN End(s)
     ELSE request' = [request EXCEPT ![s].pc = "store",
            ![s].index = IF IsFinished(data, index) THEN index ELSE index + 1]
  /\ IF Resumes(data) /\ holder # data /\ holder.id = data.id
     THEN MissedCandles(data, 0..index) ELSE UNCHANGED missed
  /\ UNCHANGED <<rows, files, position, holder, served, exposed, bounds>>

(* set_replay_session                                                      *)
Store(s) ==
  LET r == request[s] IN
  /\ Ready(s, "store")
  /\ position' = [id |-> r.data.id, index |-> r.index]
  /\ holder' = r.data
  /\ GoTo(s, "answer")
  /\ UNCHANGED <<rows, files, served, missed, exposed, bounds>>

(* The COMMIT of get_db, and the answer with the candle of the position,   *)
(* none before the first.                                                  *)
Answer(s) ==
  LET r == request[s] IN
  /\ Ready(s, "answer")
  /\ served' = [served EXCEPT ![r.data] = @ \cup ({r.index} \cap Nat)]
  /\ End(s)
  /\ UNCHANGED <<rows, files, position, holder, missed, exposed, bounds>>

(* scripts/fetch_replay_dataset.py writes another file, in place: it is    *)
(* emptied first.  Exports that are not sound leave the old one alone.     *)
Regenerate ==
  /\ writing = None
  /\ fetches < bound.fetches
  /\ fetches' = fetches + 1
  /\ writing' \in Datasets \ {file}
  /\ file' = Torn
  /\ UNCHANGED <<rows, replay, request, exposed, changes, failures, bound>>

FinishWriting ==
  /\ writing # None
  /\ file' = writing /\ writing' = None
  /\ UNCHANGED <<rows, replay, request, exposed, bounds>>

(* The script dies, or the disk is full.                                   *)
AbandonWriting ==
  /\ writing # None
  /\ failures < bound.failures
  /\ failures' = failures + 1
  /\ writing' = None
  /\ UNCHANGED <<rows, file, replay, request, exposed, changes, fetches, bound>>
-----------------------------------------------------------------------------
Step(s) ==
  \/ \E confirm \in BOOLEAN : Select(s, confirm)
  \/ ReadStrategies(s) \/ Leave(s) \/ Enter(s) \/ PassIndex(s)
  \/ Commit(s) \/ AbortDeadlock(s)
  \/ Activate(s)
  \/ Clear(s) \/ Seek(s) \/ Store(s) \/ Answer(s)

Next ==
  \/ \E s \in Sessions :
       \/ \E k \in SELECTABLE_KINDS : BeginSelect(s, k)
       \/ BeginActivate(s)
       \/ \E op \in {"reset", "advance"} : BeginReplay(s, op)
       \/ Step(s)
       \/ Fail(s)
  \/ Regenerate \/ FinishWriting \/ AbandonWriting

Spec == Init /\ [][Next]_vars

(* A request that has begun runs: a thread of the server is behind it.     *)
FairSpec == Spec /\ \A s \in Sessions : WF_vars(Step(s))
-----------------------------------------------------------------------------
(* The types.                                                              *)
RequestType ==
  [op : {"none", "select", "activate", "reset", "advance"},
   pc : {"idle", "select", "strategies", "leave", "enter", "index", "commit",
         "activate", "clear", "seek", "store", "answer"}, began : Nat,
   from : SELECTABLE_KINDS \cup {None}, to : SELECTABLE_KINDS \cup {None},
   paused : BOOLEAN, data : Datasets \cup {None}, index : Int]

TypeOK ==
  /\ selected \in [SELECTABLE_KINDS -> BOOLEAN]
  /\ running \subseteq SELECTABLE_KINDS /\ exposed \subseteq SELECTABLE_KINDS
  /\ switched \subseteq Switches
  /\ file \in Datasets \cup {None, Torn} /\ writing \in Datasets \cup {None}
  /\ position \in [id : Ids, index : Int] \cup {None}
  /\ holder \in Datasets \cup {None}
  /\ served \in [Datasets -> SUBSET Int] /\ missed \in [Datasets -> SUBSET Int]
  /\ request \in [Sessions -> RequestType]
  /\ changes \in Nat /\ failures \in Nat /\ fetches \in Nat /\ bound \in Scenarios

(* From the first switch on, exactly one context is active, and a row of   *)
(* the audit trail names it such that no switch which began after that one *)
(* was over has a row: the last row by switched_at tells the context that  *)
(* is active, unless it is the row of a switch that overlapped it,         *)
(* whatever switches cross, fail or are aborted (context.py: the two       *)
(* flushes of switch_context; uq_execution_contexts_one_active_per_user).  *)
AuditTellsTheContext ==
  LET active == {k \in SELECTABLE_KINDS : selected[k]} IN
  IF switched = {} THEN active = {}
  ELSE \E row \in switched : /\ active = {row.to}
                             /\ \A other \in switched : other.began <= row.ended

(* A strategy runs in a context that is not the active one only if its     *)
(* activation overlapped a switch away from that context (context.py:      *)
(* switch_context suspends the strategies of the context it leaves).       *)
OnlyRacesKeepRunning ==
  \A k \in running : selected[k] \/ k \in exposed

(* The candle i of dataset d has been sent, is about to be, or was missed. *)
Covered(d, i) ==
  \/ i \in served[d] \cup missed[d]
  \/ \E s \in Sessions : /\ request[s].pc = "answer"
                         /\ request[s].data = d /\ request[s].index = i

(* The replay skips no candle of the file it goes through: those up to the *)
(* position have been sent or are about to be, whatever resets, advances   *)
(* and new files cross, but for the one of a request that failed after it  *)
(* had moved the position, and the first ones of a file that took over the *)
(* position of another file of its id (routers/replay.py: the dataset_id   *)
(* test of advance_session, and SET before the answer).                    *)
NoCandleIsSkipped ==
  position # None => \A i \in 0..position.index : Covered(holder, i)

(* Every request is answered: no wait is for ever, although two switches   *)
(* may wait for each other (routers/context.py and routers/replay.py).     *)
RequestsAreAnswered ==
  \A s \in Sessions : request[s].pc # "idle" ~> request[s].pc = "idle"
=============================================================================
