------------------------------- MODULE AiBudget -------------------------------
(***************************************************************************)
(* The governance of the calls to the model: settings, switch, key and     *)
(* daily counters in Redis, edited by the API and read by every process    *)
(* that calls.  A process reads them once for a piece of work (an event, a *)
(* tick, a question), keeps them in the provider it caches for each key,   *)
(* and may call several times; a call reserves a slot and its highest      *)
(* price in one script of Redis before it is sent.                         *)
(*                                                                         *)
(* An edit is a sequence of requests to Redis: the switch, then the        *)
(* settings read, merged and written, then the key, read, merged and       *)
(* written once more.  Prices are whole units; the model and the tokens of *)
(* the settings count only through the price they imply.                   *)
(***************************************************************************)
EXTENDS Integers

CONSTANTS
  Agents,             \* processes that call, one thread each
  Editors,            \* requests PUT /api/settings/ai that may overlap
  Slots,              \* values of max_calls_per_day
  Budgets,            \* values of daily_budget_usd
  Prices,             \* what one call may cost under some model and max_tokens
  HardCap,            \* AI_DAILY_BUDGET_HARD_CAP_USD
  DefaultSettings,    \* the settings until some are stored
  MaxPerMinute,       \* max_calls_per_minute, not edited here
  Menu,               \* the requests an editor may send
  MaxBurst,           \* bound on the calls of one piece of work
  MaxPuts, MaxCrashes

Keys == {"env", "stored"}
Absent == [absent |-> TRUE]
Settings == [slots : Slots, budget : Budgets, price : Prices]
Rows == [values : Settings, key : BOOLEAN]     \* the JSON under settings:ai_runtime

None == "none"

(* What the body of a PUT asks for; the empty set leaves a field as it is. *)
Optional(S) == {{}} \cup {{x} : x \in S}
Changes ==
  [switch : BOOLEAN, budget : Optional(Budgets), price : Optional(Prices),
   key : {None, "clear", "set", "unencryptable"}]

ASSUME BudgetAssumption ==
  /\ Slots \subseteq Nat /\ Budgets \subseteq Nat /\ Prices \subseteq Nat \ {0}
  /\ HardCap \in Budgets /\ DefaultSettings \in Settings
  /\ MaxPerMinute \in Nat \ {0}
  /\ Menu \subseteq Changes
  /\ MaxBurst \in Nat /\ MaxPuts \in Nat /\ MaxCrashes \in Nat

VARIABLES
  enabled,            \* settings:ai_calls_enabled
  row,                \* settings:ai_runtime, Absent until something is stored
  calls, cost,        \* the counters of the day
  at,                 \* each agent: "idle", "ready" or "send"
  using,              \* the key of its provider, None without one
  burst,              \* calls it has tried in this piece of work
  cache,              \* the configuration of the provider it cached for each key
  window,             \* calls its limiter counts for each key
  put,                \* each editor: where it is in its request
  change,             \* what it was asked
  draft,              \* what it is about to write
  puts, crashes

redis == <<enabled, row>>
counters == <<calls, cost>>
agent == <<at, using, burst, cache, window, crashes>>
editor == <<put, change, draft, puts>>
vars == <<redis, counters, agent, editor>>

Configs == [values : Settings, enabled : BOOLEAN]

\* An older deployment may have stored a budget above the cap.
Init ==
  /\ enabled = TRUE
  /\ row \in {Absent} \cup [values : {[DefaultSettings EXCEPT !.budget = b] : b \in Budgets}, key : BOOLEAN]
  /\ calls = 0 /\ cost = 0
  /\ at = [a \in Agents |-> "idle"] /\ using = [a \in Agents |-> None]
  /\ burst = [a \in Agents |-> 0]
  /\ cache = [a \in Agents |-> [k \in Keys |-> Absent]]
  /\ window = [a \in Agents |-> [k \in Keys |-> 0]]
  /\ put = [e \in Editors |-> "idle"]
  /\ change = [e \in Editors |-> Absent] /\ draft = [e \in Editors |-> Absent]
  /\ puts = 0 /\ crashes = 0

-----------------------------------------------------------------------------
(* Reading. *)

AtMost(a, b) == IF a < b THEN a ELSE b

Clamped(s) == [s EXCEPT !.budget = AtMost(@, HardCap)]

\* A variant: only writing clamps.
StoredSettings == IF row = Absent THEN Clamped(DefaultSettings) ELSE row.values

(* get_ai_runtime_settings: the stored values, or the defaults, clamped. *)
RuntimeSettings == Clamped(IF row = Absent THEN DefaultSettings ELSE row.values)

KeyInUse == IF row # Absent /\ row.key THEN "stored" ELSE "env"

-----------------------------------------------------------------------------
(* The processes that call. *)

Goto(a, label) == at' = [at EXCEPT ![a] = label]

\* A variant: a cached provider is returned as it is.
KeepCached(a, config) ==
  IF cache[a][KeyInUse] = Absent THEN [cache EXCEPT ![a][KeyInUse] = config] ELSE cache

(* get_ai_provider: one provider per key; its configuration is written again,
   its limiter survives. *)
Provider(a, config) == [cache EXCEPT ![a][KeyInUse] = config]

(* Settings, switch and key are read at the start of a piece of work. *)
Configure(a) ==
  /\ at[a] = "idle"
  /\ Goto(a, "ready")
  /\ using' = [using EXCEPT ![a] = KeyInUse]
  /\ burst' = [burst EXCEPT ![a] = 0]
  /\ cache' = Provider(a, [values |-> RuntimeSettings, enabled |-> enabled])
  /\ UNCHANGED <<window, crashes, redis, counters, editor>>

Config(a) == cache[a][using[a]]
Trying(a) == at[a] = "ready" /\ burst[a] < MaxBurst
Tried(a) == burst' = [burst EXCEPT ![a] = @ + 1]
Allowed(a) == Config(a).enabled /\ window[a][using[a]] < MaxPerMinute
Counted(a) == window' = [window EXCEPT ![a][using[a]] = @ + 1]

(* The script: a slot and the price, or nothing. *)
Reservable(s) == calls < s.slots /\ s.price <= s.budget /\ cost <= s.budget - s.price

Reserve(a) ==
  LET s == Config(a).values
  IN  /\ Trying(a) /\ Allowed(a) /\ Reservable(s)
      /\ Goto(a, "send") /\ Tried(a) /\ Counted(a)
      /\ calls' = calls + 1 /\ cost' = cost + s.price
      /\ UNCHANGED <<using, cache, crashes, redis, editor>>

(* The limiter counts a call that the script refuses. *)
Refused(a) ==
  /\ Trying(a)
  /\ IF Allowed(a)
     THEN ~Reservable(Config(a).values) /\ Counted(a)
     ELSE UNCHANGED window
  /\ Tried(a)
  /\ UNCHANGED <<at, using, cache, crashes, redis, counters, editor>>

(* messages.create, whether it answers or fails: the reservation stays. *)
Send(a) ==
  /\ at[a] = "send"
  /\ Goto(a, "ready")
  /\ UNCHANGED <<using, burst, cache, window, crashes, redis, counters, editor>>

Finish(a) ==
  /\ at[a] = "ready"
  /\ Goto(a, "idle")
  /\ using' = [using EXCEPT ![a] = None] /\ burst' = [burst EXCEPT ![a] = 0]
  /\ UNCHANGED <<cache, window, crashes, redis, counters, editor>>

(* A restarted process has an empty cache and a fresh limiter. *)
Crash(a) ==
  /\ crashes < MaxCrashes /\ crashes' = crashes + 1
  /\ Goto(a, "idle")
  /\ using' = [using EXCEPT ![a] = None] /\ burst' = [burst EXCEPT ![a] = 0]
  /\ cache' = [cache EXCEPT ![a] = [k \in Keys |-> Absent]]
  /\ window' = [window EXCEPT ![a] = [k \in Keys |-> 0]]
  /\ UNCHANGED <<redis, counters, editor>>

\* The oldest call leaves the window of sixty seconds.
Slide(a, k) ==
  /\ window[a][k] > 0
  /\ window' = [window EXCEPT ![a][k] = @ - 1]
  /\ UNCHANGED <<at, using, burst, cache, crashes, redis, counters, editor>>

\* 00:00 UTC: the counters have other names.
NewDay ==
  /\ calls > 0
  /\ calls' = 0 /\ cost' = 0
  /\ UNCHANGED <<redis, agent, editor>>

AgentStep(a) == Configure(a) \/ Reserve(a) \/ Refused(a) \/ Send(a) \/ Finish(a)

-----------------------------------------------------------------------------
(* The edits. *)

Goes(e, label) == put' = [put EXCEPT ![e] = label]

\* The request is forgotten once it has been answered.
At(e, label) ==
  /\ Goes(e, label)
  /\ change' = IF label = "idle" THEN [change EXCEPT ![e] = Absent] ELSE change
Drafted(e, r) == draft' = [draft EXCEPT ![e] = r]
HasValues(c) == c.budget \cup c.price # {}

\* Where the request goes once the switch, or the settings, are written.
ThenKey(e) == IF change[e].key = None THEN "idle" ELSE "readKey"

(* Validation comes first: a budget above the cap is refused with a 422. *)
Put(e, c) ==
  /\ put[e] = "idle" /\ puts < MaxPuts /\ puts' = puts + 1
  /\ \A b \in c.budget : b <= HardCap
  /\ change' = [change EXCEPT ![e] = c]
  /\ Goes(e, "switch")
  /\ UNCHANGED <<draft, redis, counters, agent>>

WriteSwitch(e) ==
  /\ put[e] = "switch"
  /\ enabled' = change[e].switch
  /\ At(e, IF HasValues(change[e]) THEN "read" ELSE ThenKey(e))
  /\ UNCHANGED <<draft, puts, row, counters, agent>>

Merged(s, c) ==
  [s EXCEPT !.budget = IF c.budget = {} THEN @ ELSE AtMost(CHOOSE b \in c.budget : TRUE, HardCap),
            !.price = IF c.price = {} THEN @ ELSE CHOOSE p \in c.price : TRUE]

(* set_ai_runtime_settings: reads the validated settings, which the key is
   not one of, and writes them all. *)
ReadSettings(e) ==
  /\ put[e] = "read"
  /\ Drafted(e, [values |-> Merged(RuntimeSettings, change[e]), key |-> FALSE])
  /\ At(e, "write")
  /\ UNCHANGED <<puts, redis, counters, agent>>

WriteSettings(e) ==
  /\ put[e] = "write"
  /\ row' = draft[e] /\ Drafted(e, Absent)
  /\ At(e, ThenKey(e))
  /\ UNCHANGED <<enabled, puts, counters, agent>>

(* The key is encrypted before anything is read: without a secret a 503,
   after the switch and the settings were written. *)
ReadForKey(e) ==
  /\ put[e] = "readKey"
  /\ IF change[e].key = "unencryptable"
     THEN At(e, "idle") /\ UNCHANGED draft
     ELSE /\ Drafted(e, [values |-> RuntimeSettings, key |-> change[e].key = "set"])
          /\ At(e, "writeKey")
  /\ UNCHANGED <<puts, redis, counters, agent>>

WriteKey(e) ==
  /\ put[e] = "writeKey"
  /\ row' = draft[e] /\ Drafted(e, Absent)
  /\ At(e, "idle")
  /\ UNCHANGED <<enabled, puts, counters, agent>>

EditorStep(e) == WriteSwitch(e) \/ ReadSettings(e) \/ WriteSettings(e) \/ ReadForKey(e) \/ WriteKey(e)

Next ==
  \/ \E a \in Agents : AgentStep(a) \/ Crash(a) \/ \E k \in Keys : Slide(a, k)
  \/ \E e \in Editors : EditorStep(e) \/ \E c \in Menu : Put(e, c)
  \/ NewDay

Spec == Init /\ [][Next]_vars

(* Processes and requests go on; nothing obliges anyone to edit. *)
FairSpec ==
  /\ Spec
  /\ \A a \in Agents : WF_vars(AgentStep(a)) /\ WF_vars(Finish(a))
  /\ \A e \in Editors : WF_vars(EditorStep(e))

-----------------------------------------------------------------------------
(* The types. *)
TypeOK ==
  /\ enabled \in BOOLEAN /\ row \in Rows \cup {Absent}
  /\ calls \in Nat /\ cost \in Nat
  /\ at \in [Agents -> {"idle", "ready", "send"}]
  /\ using \in [Agents -> Keys \cup {None}] /\ burst \in [Agents -> Nat]
  /\ cache \in [Agents -> [Keys -> Configs \cup {Absent}]]
  /\ window \in [Agents -> [Keys -> Nat]]
  /\ put \in [Editors -> {"idle", "switch", "read", "write", "readKey", "writeKey"}]
  /\ change \in [Editors -> Changes \cup {Absent}]
  /\ draft \in [Editors -> Rows \cup {Absent}]
  /\ puts \in Nat /\ crashes \in Nat

(* Whatever is stored, edited at once or left from an older deployment, no
   day reserves more than the cap of the deployment
   (ai_runtime_settings.py:28-57, 120-165). *)
HardCapHolds == cost <= HardCap

(* Once the switch is off for good the processes stop calling: the one thing
   a cached provider must not remember (ai_provider.py:279-291). *)
SwitchStopsCalls ==
  <>[]~enabled => <>[](\A a \in Agents : at[a] # "send")
=============================================================================
