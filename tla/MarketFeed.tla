------------------------------ MODULE MarketFeed ------------------------------
(***************************************************************************)
(* The market agent: a tick visits the connected Paper accounts, keeps one *)
(* MCP session manager for each, gathers evidence through it and publishes *)
(* one market event per account.  Every manager runs a supervisor in a     *)
(* thread of its own, which opens the session, keeps it open until it is   *)
(* told to restart or stop, and retries after a failure.                   *)
(*                                                                         *)
(* The tick and the supervisors share the attributes of the manager        *)
(* without a lock that covers two of them: the wanted credentials, the two *)
(* events, the session and the health are written and read one at a time.  *)
(* An answer of the server is only recent, old or missing; the symbols of  *)
(* a context are constant.                                                 *)
(***************************************************************************)
EXTENDS Naturals

CONSTANTS
  PaperAccounts,      \* Alpaca Paper accounts
  Contextless,        \* those whose user has no PAPER context
  Credentials,        \* pairs of a key and its secret
  Symbols,            \* the monitored symbols
  Threads,            \* bound on the supervisors alive at once
  MaxDisturbances     \* bound on changes of the accounts and failures of any kind

ASSUME FeedAssumption ==
  /\ Contextless \subseteq PaperAccounts /\ Threads \subseteq Nat \ {0}
  /\ "none" \notin PaperAccounts \cup Credentials
  /\ MaxDisturbances \in Nat

Nothing == "none"
NoThread == 0
Nobody == [account |-> Nothing, keys |-> Nothing]

VARIABLES
  stored,             \* the credentials stored for each account, Nothing unless connected
  manager,            \* _managers: the supervisor of each account's manager
  known,              \* _managers_credentials
  sup,                \* per supervisor: its phase and the attributes of its manager
  at,                 \* where the tick is
  todo,               \* the accounts left in this tick, with the credentials read for them
  current,            \* the account being visited
  options,            \* whether _option_evidence_cache has contracts for it
  stale,              \* the flag of the evidence gathered for it
  edits, faults

accountVars == <<stored, edits>>
sessionVars == <<manager, known, sup>>
tickVars == <<at, todo, current, options, stale>>
feedVars == <<accountVars, sessionVars, tickVars, faults>>

Visits == [account : PaperAccounts, keys : Credentials]
Answers == {"recent", "old", "missing"}
Items == {"clock", "news"} \cup Symbols

Supervisors ==
  [phase : {"top", "read", "connecting", "open", "backoff", "ended"},
   wanted : Credentials \cup {Nothing},       \* _credentials
   using : Credentials \cup {Nothing},        \* those of the connection being made or open
   session : BOOLEAN,               \* _session is not None; it may be closed
   health : {"STOPPED", "STARTING", "HEALTHY", "RECONNECTING"},
   stop : BOOLEAN, restart : BOOLEAN]

Ended == [phase |-> "ended", wanted |-> Nothing, using |-> Nothing, session |-> FALSE,
          health |-> "STOPPED", stop |-> FALSE, restart |-> FALSE]

FeedInit ==
  /\ stored \in [PaperAccounts -> Credentials \cup {Nothing}]
  /\ manager = [a \in PaperAccounts |-> NoThread] /\ known = [a \in PaperAccounts |-> Nothing]
  /\ sup = [i \in Threads |-> Ended]
  /\ at = "idle" /\ todo = {} /\ current = Nobody
  /\ options = [a \in PaperAccounts |-> FALSE] /\ stale = TRUE
  /\ edits = 0 /\ faults = 0

Fault == edits + faults < MaxDisturbances /\ faults' = faults + 1

-----------------------------------------------------------------------------
(* The accounts: connected, disconnected, or connected with other keys. *)

Edit(a, keys) ==
  /\ edits + faults < MaxDisturbances /\ edits' = edits + 1
  /\ stored[a] # keys /\ stored' = [stored EXCEPT ![a] = keys]
  /\ UNCHANGED <<sessionVars, tickVars, faults>>

-----------------------------------------------------------------------------
(* The supervisor. *)

Becomes(i, s) == sup' = [sup EXCEPT ![i] = s]
Supervising(i, phase) == sup[i].phase = phase

Exit(i) ==
  /\ Supervising(i, "top") /\ sup[i].stop
  /\ Becomes(i, Ended)
  /\ UNCHANGED faults

\* The event is cleared before the credentials are read.
ClearRestart(i) ==
  /\ Supervising(i, "top") /\ ~sup[i].stop
  /\ Becomes(i, [sup[i] EXCEPT !.restart = FALSE, !.phase = "read"])
  /\ UNCHANGED faults

ReadCredentials(i) ==
  /\ Supervising(i, "read")
  /\ Becomes(i, [sup[i] EXCEPT !.using = sup[i].wanted, !.phase = "connecting"])
  /\ UNCHANGED faults

\* A variant: the request to restart is taken for met once a session is open.
OpenedAnew(i) ==
  /\ Supervising(i, "connecting")
  /\ Becomes(i, [sup[i] EXCEPT !.phase = "open", !.session = TRUE, !.health = "HEALTHY",
                               !.restart = FALSE])
  /\ UNCHANGED faults

\* Only stop() is looked at by the thread that connects, once it has connected.
Opened(i) ==
  /\ Supervising(i, "connecting")
  /\ Becomes(i, [sup[i] EXCEPT !.phase = "open", !.session = TRUE, !.health = "HEALTHY"])
  /\ UNCHANGED faults

(* The session is closed; _session still refers to it, and the health stays,
   until the next one is open. *)
Leave(i) ==
  /\ Supervising(i, "open") /\ (sup[i].stop \/ sup[i].restart)
  /\ Becomes(i, [sup[i] EXCEPT !.phase = "top"])
  /\ UNCHANGED faults

(* The server cannot be reached, refuses, or closes the session. *)
Lost(i) ==
  /\ sup[i].phase \in {"connecting", "open"} /\ Fault
  /\ Becomes(i, IF sup[i].stop
                THEN Ended
                ELSE [sup[i] EXCEPT !.phase = "backoff", !.session = FALSE, !.health = "RECONNECTING"])

\* A variant: the delay lasts until nothing is asked.
RetryUnlessTold(i) ==
  /\ Supervising(i, "backoff") /\ ~sup[i].restart
  /\ Becomes(i, [sup[i] EXCEPT !.phase = "top"])
  /\ UNCHANGED faults

\* The delay is slept through, whatever is asked meanwhile.
Retry(i) ==
  /\ Supervising(i, "backoff")
  /\ Becomes(i, [sup[i] EXCEPT !.phase = "top"])
  /\ UNCHANGED faults

Supervise(i) ==
  \/ Exit(i) \/ ClearRestart(i) \/ ReadCredentials(i) \/ Opened(i) \/ Leave(i) \/ Retry(i)

SupervisorStep(i) == (Supervise(i) \/ Lost(i)) /\ UNCHANGED <<accountVars, manager, known, tickVars>>

-----------------------------------------------------------------------------
(* The tick. *)

Connected == {a \in PaperAccounts : stored[a] # Nothing}
Visit(a) == current.account = a
Session(a) == sup[manager[a]]

\* stop() waits five seconds for the thread, then forgets it.
Stopped(s) == [s EXCEPT !.stop = TRUE, !.session = FALSE, !.health = "STOPPED"]

\* A variant: the manager is dropped without being stopped.
CleanupWithoutStop ==
  /\ manager' = [a \in PaperAccounts |-> IF a \in Connected THEN manager[a] ELSE NoThread]
  /\ known' = [a \in PaperAccounts |-> IF a \in Connected THEN known[a] ELSE Nothing]
  /\ options' = [a \in PaperAccounts |-> IF a \in Connected THEN options[a] ELSE FALSE]
  /\ UNCHANGED sup

(* _cleanup_stale_managers *)
Cleanup ==
  /\ manager' = [a \in PaperAccounts |-> IF a \in Connected THEN manager[a] ELSE NoThread]
  /\ known' = [a \in PaperAccounts |-> IF a \in Connected THEN known[a] ELSE Nothing]
  /\ options' = [a \in PaperAccounts |-> IF a \in Connected THEN options[a] ELSE FALSE]
  /\ sup' = [i \in Threads |->
              IF \E a \in PaperAccounts \ Connected : manager[a] = i THEN Stopped(sup[i]) ELSE sup[i]]

StartTick ==
  /\ at = "idle" /\ at' = "next"
  /\ todo' = {[account |-> a, keys |-> stored[a]] : a \in Connected}
  /\ Cleanup
  /\ UNCHANGED <<accountVars, current, stale, faults>>

\* The visit of this account is over.
Proceed == at' = "next" /\ current' = Nobody /\ stale' = TRUE

\* An exception that no one catches below run_service: the other accounts wait.
TickDies ==
  /\ Fault
  /\ at' = "idle" /\ todo' = {} /\ current' = Nobody /\ stale' = TRUE
  /\ UNCHANGED <<accountVars, sessionVars, options>>

EndTick ==
  /\ at = "next" /\ todo = {}
  /\ at' = "idle"
  /\ UNCHANGED <<accountVars, sessionVars, todo, current, options, stale, faults>>

Take(v) == at = "next" /\ v \in todo /\ todo' = todo \ {v}

\* The secret of the deployment no longer decrypts what is stored.
Undecryptable(v) ==
  /\ Take(v) /\ Fault
  /\ UNCHANGED <<accountVars, sessionVars, at, current, options, stale>>

(* _ensure_manager: the first step of restart() writes the credentials. *)
Manage(v) ==
  LET a == v.account
  IN  /\ Take(v) /\ current' = v
      /\ \/ /\ manager[a] = NoThread
            /\ \E i \in Threads :      \* the first free one: a thread has no identity
                 /\ sup[i] = Ended /\ \A j \in Threads : j < i => sup[j] # Ended
                 /\ manager' = [manager EXCEPT ![a] = i]
                 /\ Becomes(i, [Ended EXCEPT !.phase = "top", !.wanted = v.keys, !.health = "STARTING"])
            /\ known' = [known EXCEPT ![a] = v.keys]
            /\ at' = "report"
         \/ /\ manager[a] # NoThread /\ known[a] # v.keys
            /\ Becomes(manager[a], [Session(a) EXCEPT !.wanted = v.keys])
            /\ at' = "signal"
            /\ UNCHANGED <<manager, known>>
         \/ /\ manager[a] # NoThread /\ known[a] = v.keys
            /\ at' = "report"
            /\ UNCHANGED sessionVars
      /\ UNCHANGED <<accountVars, options, stale, faults>>

SignalRestart(a) ==
  /\ Visit(a) /\ at = "signal" /\ at' = "report"
  /\ Becomes(manager[a], [Session(a) EXCEPT !.restart = TRUE])
  /\ known' = [known EXCEPT ![a] = current.keys]
  /\ UNCHANGED <<accountVars, manager, todo, current, options, stale, faults>>

\* _paper_execution_context_id finds the user's PAPER context.
HasContext(a) == a \notin Contextless

(* The health of the session is published, then looked at. *)
Ready(a) == Session(a).health = "HEALTHY" /\ HasContext(a)

Report(a) ==
  /\ Visit(a) /\ at = "report"
  /\ IF Ready(a)
     THEN at' = "gather" /\ UNCHANGED <<current, stale>>
     ELSE Proceed
  /\ UNCHANGED <<accountVars, sessionVars, todo, options, faults>>

(* call_tool: refused by the limiter, without an open session, or too late,
   a call only leaves an error in the evidence. *)
Answering(a) == Session(a).session /\ Session(a).phase = "open"

Gatherable(a) ==
  {e \in [Items -> Answers] :
     /\ e["clock"] # "old"                  \* it tells the time of the request
     /\ ~Answering(a) => \A x \in Items : e[x] = "missing"}

(* _evidence_is_stale: the newest timestamp anywhere in the evidence. *)
Stale(e) == \A x \in Items : e[x] # "recent"

\* Bars and quotes are upserted as well; a failure of that is only logged.
Gather(a) ==
  /\ Visit(a) /\ at = "gather" /\ at' = "publish"
  /\ \E e \in Gatherable(a) : stale' = Stale(e)
  /\ UNCHANGED <<accountVars, sessionVars, todo, current, options, faults>>

\* A variant: an event without recent data is not published.
PublishIfRecent(a) ==
  /\ Visit(a) /\ at = "publish"
  /\ IF stale THEN Proceed ELSE at' = "status" /\ UNCHANGED <<current, stale>>
  /\ UNCHANGED <<accountVars, sessionVars, todo, options, faults>>

Publish(a) ==
  /\ Visit(a) /\ at = "publish" /\ at' = "status"
  /\ UNCHANGED <<accountVars, sessionVars, todo, current, options, stale, faults>>

\* The message to the agent room, at most one a minute for the same bars.
WriteStatus(a) ==
  /\ Visit(a) /\ at = "status" /\ at' = "options"
  /\ UNCHANGED <<accountVars, sessionVars, todo, current, options, stale, faults>>

(* A discovery is kept for a minute; then whatever the two calls give, also
   nothing, is the new one. *)
RefreshOptions(a) ==
  /\ Visit(a) /\ at = "options"
  /\ \E found \in {FALSE, Answering(a), options[a]} : options' = [options EXCEPT ![a] = found]
  /\ Proceed
  /\ UNCHANGED <<accountVars, sessionVars, todo, faults>>

TickStep ==
  \/ StartTick \/ EndTick
  \/ \E v \in todo : Manage(v)
  \/ \E a \in PaperAccounts :
       SignalRestart(a) \/ Report(a) \/ Gather(a) \/ Publish(a) \/ WriteStatus(a) \/ RefreshOptions(a)

\* Redis fails publish_health or publish_event, PostgreSQL a query or the message.
TickFails == at # "idle" /\ at # "signal" /\ at # "gather" /\ TickDies

(* The threads are daemons of the process. *)
AgentRestarts ==
  /\ Fault
  /\ manager' = [a \in PaperAccounts |-> NoThread] /\ known' = [a \in PaperAccounts |-> Nothing]
  /\ sup' = [i \in Threads |-> Ended]
  /\ at' = "idle" /\ todo' = {} /\ current' = Nobody /\ stale' = TRUE
  /\ options' = [a \in PaperAccounts |-> FALSE]
  /\ UNCHANGED accountVars

FeedNext ==
  \/ \E a \in PaperAccounts, k \in Credentials \cup {Nothing} : Edit(a, k)
  \/ \E i \in Threads : SupervisorStep(i)
  \/ TickStep \/ TickFails \/ AgentRestarts
  \/ \E v \in todo : Undecryptable(v)

FeedSpec == FeedInit /\ [][FeedNext]_feedVars

(* The loop of run_service and the threads go on; a connection that is being
   made is refused or made in the end. *)
FairFeedSpec ==
  /\ FeedSpec
  /\ WF_feedVars(TickStep)
  /\ \A i \in Threads : WF_feedVars(Supervise(i) /\ UNCHANGED <<accountVars, manager, known, tickVars>>)

-----------------------------------------------------------------------------
(* A session that nobody asked to stop is the one its account's manager uses:
   an account that was disconnected and connected again has one, its new
   manager's, while the supervisor of the old one is still stopping
   (market_agent/main.py:230-261). *)
OneSessionPerAccount ==
  \A i \in Threads :
    sup[i] # Ended /\ ~sup[i].stop => \E a \in PaperAccounts : manager[a] = i

(* No session is left behind with old credentials: one that is being made or open
   with others than those the tick last gave the account's manager has been told to
   restart, or is being told, wherever the supervisor was when they changed
   (mcp_session.py:206-329: restart() writes, then signals; the supervisor clears,
   then reads). *)
OldSessionIsTold ==
  \A a \in PaperAccounts :
    /\ manager[a] # NoThread
    /\ Session(a).phase \in {"connecting", "open"}
    /\ Session(a).using # known[a]
    => Session(a).restart \/ (at = "signal" /\ Visit(a))

(* An account whose credentials no longer change ends with an open session
   made with them, also when the change came while the supervisor was
   connecting or waiting (mcp_session.py:248-329). *)
FeedCatchesUp ==
  \A a \in PaperAccounts, k \in Credentials :
    <>[](stored[a] = k) => <>[](manager[a] # NoThread /\ Session(a).phase = "open" /\ Session(a).using = k)

(* The events of an account that stays connected never cease, whatever failed
   before, for it or for the accounts visited before it
   (market_agent/main.py:858-970). *)
FeedKeepsFlowing ==
  \A a \in PaperAccounts \ Contextless :
    <>[](stored[a] # Nothing) => []<>(at = "status" /\ Visit(a))
=============================================================================
