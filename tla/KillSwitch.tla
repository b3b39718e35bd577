----------------------------- MODULE KillSwitch -----------------------------
(***************************************************************************)
(* The trading kill switch and the lifecycle of strategy instances, as     *)
(* concurrent HTTP requests on one PostgreSQL database and one Redis flag: *)
(* backend/app/kill_switch.py, backend/app/strategy_instances.py and the   *)
(* transaction of a request, backend/app/db.py (get_db).                   *)
(*                                                                         *)
(* A request is one READ COMMITTED transaction.  A client is one session   *)
(* cookie: get_current_user updates the row of the session and keeps that  *)
(* row locked until the transaction ends, so the requests of one session   *)
(* run one after the other, and those of two sessions interleave between   *)
(* any two of their SQL or Redis calls.                                    *)
(***************************************************************************)
EXTENDS Naturals, Sequences, FiniteSets

CONSTANTS
  Clients,       \* the sessions sending requests
  Strategies,    \* the identifiers strategies may get (uuids, never reused)
  None,          \* no client, no strategy
  MaxActive,     \* max_active_strategies of the user's profile
  MaxSaved,      \* MAX_SAVED_STRATEGIES
  MaxRequests,   \* bound of the model: requests sent
  MaxFailures    \* bound of the model: requests rolled back by an exception

ASSUME KillSwitchAssumption ==
  /\ None \notin Clients \cup Strategies
  /\ IsFiniteSet(Clients) /\ Clients # {}
  /\ IsFiniteSet(Strategies)
  /\ MaxActive \in Nat /\ MaxSaved \in Nat
  /\ MaxRequests \in Nat /\ MaxFailures \in Nat

VARIABLES
  status,    \* status[s]: the committed status of the row s of strategies
  flag,      \* settings:trading_kill_switch_engaged, in Redis
  audit,     \* the committed kill switch rows of audit_events, oldest first
  gaps,      \* history: the rows of audit written after a lost one
  holder,    \* the request that holds the advisory lock of the kill switch
  request,   \* request[c]: what the transaction of client c is doing
  begun,     \* how many requests have begun
  failures   \* how many requests an exception has rolled back

vars == <<status, flag, audit, gaps, holder, request, begun, failures>>
-----------------------------------------------------------------------------
(* A row that was never inserted is "absent"; a deleted one stays deleted. *)
Statuses == {"absent", "READY", "ACTIVE", "PAUSED", "STOPPED", "deleted"}

Exists(s) == status[s] \notin {"absent", "deleted"}

Active == {s \in Strategies : status[s] = "ACTIVE"}
Saved  == {s \in Strategies : Exists(s)}

Switches  == {"engage", "disengage"}
Lifecycle == {"activate", "pause", "stop", "delete"}

(* The statuses an operation accepts (_ACTIVATABLE_FROM and the tests of   *)
(* pause_instance, stop_instance and delete_instance) and the one it sets. *)
AcceptedFrom ==
  [activate |-> {"READY", "PAUSED", "STOPPED"},
   pause    |-> {"ACTIVE"},
   stop     |-> {"ACTIVE", "PAUSED", "READY"},
   delete   |-> {"READY", "PAUSED", "STOPPED"}]

Target == [activate |-> "ACTIVE", pause |-> "PAUSED", stop |-> "STOPPED",
           delete |-> "deleted"]

Idle == [op |-> "none", pc |-> "idle", strategy |-> None, selected |-> {}]

Pcs == {"idle", "load", "check", "write",
        "lock", "read_flag", "select", "flush", "set_flag", "commit"}

Requests ==
  [op : Switches \cup Lifecycle \cup {"create", "none"},
   pc : Pcs,
   strategy : Strategies \cup {None},
   selected : SUBSET Strategies]

AuditRows == [action : Switches, suspended : SUBSET Strategies]

(* The rows an engage has updated and not committed yet: another writer of *)
(* such a row waits; a reader still sees the committed version.            *)
Locked(s) ==
  \E c \in Clients : /\ request[c].pc \in {"set_flag", "commit"}
                     /\ s \in request[c].selected

(* The request goes on to its next call.                                   *)
GoTo(c, pc) == request' = [request EXCEPT ![c].pc = pc]

(* Mutant: a lock of the connection, not of the transaction.               *)
EndKeepingLock(c) == /\ request' = [request EXCEPT ![c] = Idle]
                     /\ UNCHANGED holder

(* The transaction ends, and its advisory lock with it.                    *)
End(c) == /\ request' = [request EXCEPT ![c] = Idle]
          /\ holder' = IF holder = c THEN None ELSE holder
-----------------------------------------------------------------------------
(* Some instances may have been saved before.                              *)
Init ==
  /\ status \in [Strategies -> {"absent", "READY"}]
  /\ Cardinality(Saved) <= MaxSaved
  /\ flag = FALSE
  /\ audit = <<>>
  /\ gaps = {}
  /\ holder = None
  /\ request = [c \in Clients |-> Idle]
  /\ begun = 0
  /\ failures = 0

(* Mutant: engage and disengage do not take the lock.                      *)
FirstStepUnlocked(op) == IF op \in Switches THEN "read_flag"
                         ELSE IF op = "create" THEN "check" ELSE "load"

FirstStep(op) == IF op \in Switches THEN "lock"
                 ELSE IF op = "create" THEN "check" ELSE "load"

(* Bound of the model: an identifier is left for each pending creation.    *)
FreshIdentifier == Cardinality({s \in Strategies : status[s] = "absent"})
                     > Cardinality({c \in Clients : request[c].op = "create"})

(* A request begins: get_current_user takes the lock of its session.       *)
Begin(c, op, s) ==
  /\ request[c].pc = "idle"
  /\ begun < MaxRequests
  /\ (s = None) <=> (op \notin Lifecycle)
  /\ op = "create" => FreshIdentifier
  /\ request' = [request EXCEPT ![c] = [op |-> op, pc |-> FirstStep(op),
                     strategy |-> s, selected |-> {}]]
  /\ begun' = begun + 1
  /\ UNCHANGED <<status, flag, audit, gaps, holder, failures>>

(* _get_owned_instance and the test of the status: 404, 409, or go on.     *)
Load(c) ==
  LET r == request[c] IN
  /\ r.pc = "load"
  /\ \/ status[r.strategy] \notin AcceptedFrom[r.op] /\ End(c)
     \/ /\ status[r.strategy] \in AcceptedFrom[r.op]
        /\ IF r.op = "activate" THEN GoTo(c, "check") ELSE GoTo(c, "write")
        /\ UNCHANGED holder
  /\ UNCHANGED <<status, flag, audit, gaps, begun, failures>>

(* Mutant: one too many.                                                   *)
UnderLimitOrAt(op) == IF op = "activate" THEN Cardinality(Active) <= MaxActive
                                         ELSE Cardinality(Saved) <= MaxSaved

(* _enforce_active_limit (activate), _enforce_saved_limit (create).        *)
UnderLimit(op) == IF op = "activate" THEN Cardinality(Active) < MaxActive
                                     ELSE Cardinality(Saved) < MaxSaved

CheckLimit(c) ==
  /\ request[c].pc = "check"
  /\ \/ ~UnderLimit(request[c].op) /\ End(c)
     \/ UnderLimit(request[c].op) /\ GoTo(c, "write") /\ UNCHANGED holder
  /\ UNCHANGED <<status, flag, audit, gaps, begun, failures>>

(* create_instance: INSERT of a READY row, then commit.                    *)
Insert(c) ==
  /\ request[c].pc = "write" /\ request[c].op = "create"
  /\ \E s \in Strategies : /\ status[s] = "absent"
                           /\ status' = [status EXCEPT ![s] = "READY"]
  /\ End(c)
  /\ UNCHANGED <<flag, audit, gaps, begun, failures>>

(* UPDATE ... SET status, or DELETE, by primary key, then commit: the row  *)
(* is not tested again.  A row deleted meanwhile matches nothing.          *)
Write(c) ==
  LET s == request[c].strategy  op == request[c].op IN
  /\ request[c].pc = "write" /\ op \in Lifecycle
  /\ ~Locked(s)
  /\ status' = IF Exists(s) THEN [status EXCEPT ![s] = Target[op]] ELSE status
  /\ End(c)
  /\ UNCHANGED <<flag, audit, gaps, begun, failures>>

(* The foreign keys of runs and orders refuse the DELETE: 409.             *)
DeletionBlocked(c) ==
  /\ request[c].pc = "write" /\ request[c].op = "delete"
  /\ ~Locked(request[c].strategy)
  /\ End(c)
  /\ UNCHANGED <<status, flag, audit, gaps, begun, failures>>
-----------------------------------------------------------------------------
(* engage and disengage.                                                   *)

(* _acquire_lock: pg_advisory_xact_lock.                                   *)
AcquireLock(c) ==
  /\ request[c].pc = "lock"
  /\ holder = None
  /\ holder' = c
  /\ GoTo(c, "read_flag")
  /\ UNCHANGED <<status, flag, audit, gaps, begun, failures>>

(* The flag is read under the lock: an action already done is a no-op.     *)
ReadFlag(c) ==
  LET op == request[c].op IN
  /\ request[c].pc = "read_flag"
  /\ \/ (flag <=> op = "engage") /\ End(c)
     \/ op = "engage" /\ ~flag /\ GoTo(c, "select") /\ UNCHANGED holder
     \/ op = "disengage" /\ flag /\ GoTo(c, "set_flag") /\ UNCHANGED holder
  /\ UNCHANGED <<status, flag, audit, gaps, begun, failures>>

(* The ACTIVE strategies, in this session's memory from here on.           *)
SelectActive(c) ==
  /\ request[c].pc = "select"
  /\ request' = [request EXCEPT ![c].selected = Active, ![c].pc = "flush"]
  /\ UNCHANGED <<status, flag, audit, gaps, holder, begun, failures>>

(* Mutant: an update that matches no row goes unnoticed.                   *)
FlushBlindly(c) ==
  /\ request[c].pc = "flush"
  /\ GoTo(c, "set_flag")
  /\ UNCHANGED <<status, flag, audit, gaps, holder, begun, failures>>

(* The flush sends the updates by primary key and the audit row; a row     *)
(* deleted meanwhile raises StaleDataError and rolls the request back.     *)
Flush(c) ==
  /\ request[c].pc = "flush"
  /\ \/ (\E s \in request[c].selected : ~Exists(s)) /\ End(c)
     \/ /\ \A s \in request[c].selected : Exists(s)
        /\ GoTo(c, "set_flag") /\ UNCHANGED holder
  /\ UNCHANGED <<status, flag, audit, gaps, begun, failures>>

(* set_trading_kill_switch_engaged: the Redis write, before the COMMIT.    *)
SetFlag(c) ==
  /\ request[c].pc = "set_flag"
  /\ flag' = (request[c].op = "engage")
  /\ GoTo(c, "commit")
  /\ UNCHANGED <<status, audit, gaps, holder, begun, failures>>

(* get_db commits once the route has returned: the suspended strategies    *)
(* and the audit row become visible together.                              *)
Commit(c) ==
  LET r == request[c] IN
  /\ r.pc = "commit"
  /\ status' = [s \in Strategies |->
                  IF s \in r.selected /\ Exists(s) THEN "PAUSED"
                                                  ELSE status[s]]
  /\ audit' = Append(audit, [action |-> r.op, suspended |-> r.selected])
  /\ End(c)
  /\ UNCHANGED <<flag, gaps, begun, failures>>

(* An exception, a failed COMMIT, or the death of the process: get_db rolls*)
(* back.  Redis is not part of the transaction, so after SetFlag the flag  *)
(* stays as it was written and the row that explains it is lost: the next  *)
(* row of audit, if any, comes after a gap.                                *)
Rollback(c) ==
  /\ request[c].pc # "idle"
  /\ failures < MaxFailures
  /\ failures' = failures + 1
  /\ gaps' = IF request[c].pc = "commit" THEN gaps \cup {Len(audit) + 1} ELSE gaps
  /\ End(c)
  /\ UNCHANGED <<status, flag, audit, begun>>

Step(c) ==
  \/ Load(c) \/ CheckLimit(c) \/ Insert(c) \/ Write(c) \/ DeletionBlocked(c)
  \/ AcquireLock(c) \/ ReadFlag(c) \/ SelectActive(c) \/ Flush(c)
  \/ SetFlag(c) \/ Commit(c)

Ask(c) == \E op \in Switches \cup Lifecycle \cup {"create"},
             s \in Strategies \cup {None} : Begin(c, op, s)

Next == \E c \in Clients : Ask(c) \/ Step(c) \/ Rollback(c)

Spec == Init /\ [][Next]_vars

(* A request that is being served goes on; PostgreSQL grants the advisory  *)
(* lock and the row locks in the order they were asked for, so a waiting   *)
(* request is not passed over for ever.  Nobody has to send a request.     *)
Fairness == \A c \in Clients : SF_vars(Step(c))

FairSpec == Spec /\ Fairness
-----------------------------------------------------------------------------
(* Types, and who may be past the advisory lock: its holder alone.         *)
Critical == {"read_flag", "select", "flush", "set_flag", "commit"}

TypeOK ==
  /\ status \in [Strategies -> Statuses]
  /\ flag \in BOOLEAN
  /\ audit \in Seq(AuditRows)
  /\ gaps \subseteq Nat
  /\ holder \in Clients \cup {None}
  /\ request \in [Clients -> Requests]
  /\ begun \in Nat /\ failures \in Nat

LastAction == IF audit = <<>> THEN "disengage" ELSE audit[Len(audit)].action

Quiet == \A c \in Clients : request[c].pc \notin Critical

Orphaned == Len(audit) + 1 \in gaps

(* While no request is between the advisory lock and its end, the flag says*)
(* what the last audit row says, however engagements and disengagements    *)
(* crossed and failed, unless a COMMIT that followed the Redis write failed*)
(* since that row: the docstring (kill_switch.py:29-32) excludes that, the *)
(* COMMIT of get_db (db.py:35), after the write of line 212, does not.  The*)
(* next switch that commits puts them back in agreement.                   *)
FlagMatchesAudit == Quiet => (flag <=> LastAction = "engage") \/ Orphaned

(* Concurrent or repeated requests take effect once: no two neighbouring   *)
(* rows record the same change, and the first one is an engagement, except *)
(* where the row between them was lost with its COMMIT (kill_switch.engage *)
(* and disengage, their no-op branch).                                     *)
AuditAlternates ==
  \A i \in (1..Len(audit)) \ gaps :
    audit[i].action # IF i = 1 THEN "disengage" ELSE audit[i - 1].action

(* What an engagement's audit row names as suspended is PAUSED when the    *)
(* row appears: nobody deletes or rewrites those strategies between the    *)
(* flush and the commit, and a strategy deleted before the flush cancels   *)
(* the request (engage, suspended_strategy_ids).                           *)
AuditRowIsTrue ==
  [][audit' # audit =>
       \A s \in audit'[Len(audit')].suspended : status'[s] = "PAUSED"]_vars

(* A request is answered: the advisory lock, the row locks and the early   *)
(* returns never leave it waiting (get_db, engage, activate_instance ...). *)
RequestsComplete ==
  \A c \in Clients : (request[c].pc # "idle") ~> (request[c].pc = "idle")

(* Counting and writing are not one step, so requests that cross exceed the*)
(* limits of the profile and of the context; but never by more than the    *)
(* other sessions that had a request in flight (_enforce_active_limit,     *)
(* _enforce_saved_limit and their callers).                                *)
OvershootBounded ==
  /\ Cardinality(Active) <= MaxActive + Cardinality(Clients) - 1
  /\ Cardinality(Saved) <= MaxSaved + Cardinality(Clients) - 1
=============================================================================
