-------------------------- MODULE OperationsProofs --------------------------
(***************************************************************************)
(* What the operators of a deployment rely on: the money the AI spends     *)
(* (AiBudget) and the health that is reported and alerted (ServiceHealth). *)
(***************************************************************************)
EXTENDS ServiceHealth, AiBudget, SequenceTheorems, TLAPS

(***************************************************************************)
(* The budget.  The cap of the deployment holds whatever the processes,    *)
(* the editors and the values that may be stored.  The script of Redis     *)
(* compares with the budget of the configuration its caller cached, so the *)
(* argument is about the caches: each configuration in them went through   *)
(* Clamped.                                                                *)
(***************************************************************************)

CappedConfigs == {c \in Configs : c.values.budget <= HardCap}

\* A process that may call has a configuration, and every cached one is capped.
CachesAreCapped ==
  /\ cache \in [Agents -> [Keys -> CappedConfigs \cup {Absent}]]
  /\ \A a \in Agents : at[a] # "idle" => using[a] \in Keys /\ cache[a][using[a]] \in CappedConfigs

\* A request that is being served knows what it was asked, and what it will write.
EditorsAreReady ==
  \A e \in Editors :
    /\ put[e] # "idle" => change[e] \in Changes
    /\ put[e] \in {"write", "writeKey"} => draft[e] \in Rows

IInv == TypeOK /\ CachesAreCapped /\ EditorsAreReady /\ HardCapHolds

-----------------------------------------------------------------------------
LEMMA ClampedIsCapped ==
  ASSUME NEW s \in Settings
  PROVE  Clamped(s) \in Settings /\ Clamped(s).budget <= HardCap
BY BudgetAssumption DEF Clamped, AtMost, Settings

LEMMA RuntimeIsCapped ==
  ASSUME TypeOK
  PROVE  RuntimeSettings \in Settings /\ RuntimeSettings.budget <= HardCap
<1>1. CASE row = Absent
  BY <1>1, ClampedIsCapped, BudgetAssumption DEF RuntimeSettings
<1>2. CASE row # Absent
  <2>1. row.values \in Settings
    BY <1>2 DEF TypeOK, Rows
  <2>2. QED BY <1>2, <2>1, ClampedIsCapped DEF RuntimeSettings
<1>3. QED BY <1>1, <1>2

LEMMA MergedIsTyped ==
  ASSUME NEW s \in Settings, NEW c \in Changes
  PROVE  Merged(s, c) \in Settings
<1>1. c.budget # {} => (CHOOSE b \in c.budget : TRUE) \in Budgets
  BY DEF Changes, Optional
<1>2. c.price # {} => (CHOOSE p \in c.price : TRUE) \in Prices
  BY DEF Changes, Optional
<1>3. \A b \in Budgets : AtMost(b, HardCap) \in Budgets
  BY BudgetAssumption DEF AtMost
<1>4. QED BY <1>1, <1>2, <1>3 DEF Merged, Settings

LEMMA KeyInUseIsKey == KeyInUse \in Keys
BY DEF KeyInUse, Keys

-----------------------------------------------------------------------------
LEMMA InitEstablishes == Init => IInv
<1> SUFFICES ASSUME Init PROVE IInv
  OBVIOUS
<1>1. row \in Rows \cup {Absent}
  BY BudgetAssumption DEF Init, Rows, Settings
<1>2. TypeOK
  BY <1>1 DEF Init, TypeOK, Keys
<1>3. CachesAreCapped
  BY DEF Init, CachesAreCapped
<1>4. EditorsAreReady
  BY DEF Init, EditorsAreReady
<1>5. HardCapHolds
  BY BudgetAssumption DEF Init, HardCapHolds
<1>6. QED BY <1>2, <1>3, <1>4, <1>5 DEF IInv

\* What the processes do.
LEMMA AgentPreserves ==
  ASSUME IInv, NEW a \in Agents, AgentStep(a) \/ Crash(a) \/ \E k \in Keys : Slide(a, k)
  PROVE  IInv'
<1> USE DEF IInv
<1>0. UNCHANGED <<redis, editor>> => EditorsAreReady' /\ (row \in Rows \cup {Absent})' /\ (enabled \in BOOLEAN)'
  BY DEF redis, editor, EditorsAreReady, TypeOK
<1>1. CASE Configure(a)
  <2>1. [values |-> RuntimeSettings, enabled |-> enabled] \in CappedConfigs
    BY RuntimeIsCapped DEF CappedConfigs, Configs, TypeOK
  <2>2. TypeOK'
    BY <1>1, <2>1, KeyInUseIsKey DEF Configure, Goto, Provider, TypeOK, redis, counters, editor, CappedConfigs
  <2>3. CachesAreCapped'
    BY <1>1, <2>1, KeyInUseIsKey DEF Configure, Goto, Provider, TypeOK, CachesAreCapped
  <2>4. QED BY <1>0, <1>1, <2>2, <2>3 DEF Configure, HardCapHolds, counters
<1>2. CASE Reserve(a)
  <2>1. /\ Config(a) \in CappedConfigs
        /\ using[a] \in Keys
    BY <1>2 DEF Reserve, Trying, Config, CachesAreCapped
  <2>2. /\ Config(a).values.price \in Nat
        /\ Config(a).values.budget \in Nat
        /\ Config(a).values.budget <= HardCap
    BY <2>1, BudgetAssumption DEF CappedConfigs, Configs, Settings
  <2>3. cost' <= HardCap
    BY <1>2, <2>2, BudgetAssumption DEF Reserve, Reservable, TypeOK
  <2>4. TypeOK'
    BY <1>2, <2>1, <2>2 DEF Reserve, Goto, Tried, Counted, TypeOK, redis, editor
  <2>5. CachesAreCapped'
    BY <1>2, <2>1 DEF Reserve, Goto, Config, TypeOK, CachesAreCapped
  <2>6. QED BY <1>0, <1>2, <2>3, <2>4, <2>5 DEF Reserve, HardCapHolds
<1>3. CASE Refused(a)
  <2>1. using[a] \in Keys
    BY <1>3 DEF Refused, Trying, CachesAreCapped
  <2>2. window' \in [Agents -> [Keys -> Nat]]
    BY <1>3, <2>1, SMTT(30) DEF Refused, Counted, TypeOK
  <2>3. burst' \in [Agents -> Nat]
    BY <1>3 DEF Refused, Tried, TypeOK
  <2>4. TypeOK'
    BY <1>3, <2>2, <2>3 DEF Refused, TypeOK, redis, counters, editor
  <2>5. QED
    BY <1>0, <1>3, <2>4 DEF Refused, CachesAreCapped, HardCapHolds, counters
<1>4. CASE Send(a)
  <2>1. TypeOK'
    BY <1>4 DEF Send, Goto, TypeOK, redis, counters, editor
  <2>2. CachesAreCapped'
    BY <1>4 DEF Send, Goto, TypeOK, CachesAreCapped
  <2>3. QED BY <1>0, <1>4, <2>1, <2>2 DEF Send, HardCapHolds, counters
<1>5. CASE Finish(a)
  <2>1. TypeOK'
    BY <1>5 DEF Finish, Goto, TypeOK, redis, counters, editor
  <2>2. CachesAreCapped'
    BY <1>5 DEF Finish, Goto, TypeOK, CachesAreCapped
  <2>3. QED BY <1>0, <1>5, <2>1, <2>2 DEF Finish, HardCapHolds, counters
<1>6. CASE Crash(a)
  <2>1. TypeOK'
    BY <1>6, BudgetAssumption DEF Crash, Goto, TypeOK, redis, counters, editor
  <2>2. CachesAreCapped'
    BY <1>6 DEF Crash, Goto, TypeOK, CachesAreCapped
  <2>3. QED BY <1>0, <1>6, <2>1, <2>2 DEF Crash, HardCapHolds, counters
<1>7. ASSUME NEW k \in Keys, Slide(a, k)
      PROVE  IInv'
  <2>1. TypeOK'
    BY <1>7 DEF Slide, TypeOK, redis, counters, editor
  <2>2. CachesAreCapped'
    BY <1>7 DEF Slide, CachesAreCapped
  <2>3. QED BY <1>0, <1>7, <2>1, <2>2 DEF Slide, HardCapHolds, counters
<1>8. QED BY <1>1, <1>2, <1>3, <1>4, <1>5, <1>6, <1>7 DEF AgentStep

\* What the requests do: they touch neither a cache nor a counter.
LEMMA EditorPreserves ==
  ASSUME IInv, NEW e \in Editors, EditorStep(e) \/ \E c \in Menu : Put(e, c)
  PROVE  IInv'
<1> USE DEF IInv
<1>0. UNCHANGED <<counters, agent>> => CachesAreCapped' /\ HardCapHolds'
  BY DEF counters, agent, CachesAreCapped, HardCapHolds
<1>1. CASE WriteSwitch(e)
  <2>1. change[e] \in Changes
    BY <1>1 DEF WriteSwitch, EditorsAreReady
  <2>2. TypeOK'
    BY <1>1, <2>1 DEF WriteSwitch, At, Goes, ThenKey, Changes, TypeOK, counters, agent
  <2>3. EditorsAreReady'
    BY <1>1, <2>1 DEF WriteSwitch, At, Goes, ThenKey, TypeOK, EditorsAreReady
  <2>4. QED BY <1>0, <1>1, <2>2, <2>3 DEF WriteSwitch
<1>2. CASE ReadSettings(e)
  <2>1. [values |-> Merged(RuntimeSettings, change[e]), key |-> FALSE] \in Rows
    BY <1>2, RuntimeIsCapped, MergedIsTyped DEF ReadSettings, EditorsAreReady, Rows
  <2>2. TypeOK'
    BY <1>2, <2>1 DEF ReadSettings, At, Goes, Drafted, TypeOK, redis, counters, agent
  <2>3. EditorsAreReady'
    BY <1>2, <2>1 DEF ReadSettings, At, Goes, Drafted, TypeOK, EditorsAreReady
  <2>4. QED BY <1>0, <1>2, <2>2, <2>3 DEF ReadSettings
<1>3. CASE WriteSettings(e)
  <2>1. draft[e] \in Rows
    BY <1>3 DEF WriteSettings, EditorsAreReady
  <2>2. TypeOK'
    BY <1>3, <2>1 DEF WriteSettings, At, Goes, ThenKey, Drafted, TypeOK, counters, agent
  <2>3. EditorsAreReady'
    BY <1>3 DEF WriteSettings, At, Goes, ThenKey, Drafted, TypeOK, EditorsAreReady
  <2>4. QED BY <1>0, <1>3, <2>2, <2>3 DEF WriteSettings
<1>4. CASE ReadForKey(e)
  <2>1. [values |-> RuntimeSettings, key |-> change[e].key = "set"] \in Rows
    BY RuntimeIsCapped DEF Rows
  <2>2. TypeOK'
    BY <1>4, <2>1, SMTT(30) DEF ReadForKey, At, Goes, Drafted, TypeOK, redis, counters, agent
  <2>3. EditorsAreReady'
    BY <1>4, <2>1 DEF ReadForKey, At, Goes, Drafted, TypeOK, EditorsAreReady
  <2>4. QED BY <1>0, <1>4, <2>2, <2>3 DEF ReadForKey
<1>5. CASE WriteKey(e)
  <2>1. draft[e] \in Rows
    BY <1>5 DEF WriteKey, EditorsAreReady
  <2>2. TypeOK'
    BY <1>5, <2>1 DEF WriteKey, At, Goes, Drafted, TypeOK, counters, agent
  <2>3. EditorsAreReady'
    BY <1>5 DEF WriteKey, At, Goes, Drafted, TypeOK, EditorsAreReady
  <2>4. QED BY <1>0, <1>5, <2>2, <2>3 DEF WriteKey
<1>6. ASSUME NEW c \in Menu, Put(e, c)
      PROVE  IInv'
  <2>1. c \in Changes
    BY BudgetAssumption
  <2>2. TypeOK'
    BY <1>6, <2>1 DEF Put, Goes, TypeOK, redis, counters, agent
  <2>3. EditorsAreReady'
    BY <1>6, <2>1 DEF Put, Goes, TypeOK, EditorsAreReady
  <2>4. QED BY <1>0, <1>6, <2>2, <2>3 DEF Put
<1>7. QED BY <1>1, <1>2, <1>3, <1>4, <1>5, <1>6 DEF EditorStep

LEMMA DayPreserves ==
  ASSUME IInv, NewDay
  PROVE  IInv'
BY BudgetAssumption
   DEF IInv, NewDay, TypeOK, CachesAreCapped, EditorsAreReady, HardCapHolds, redis, agent, editor

LEMMA StutterPreserves ==
  ASSUME IInv, UNCHANGED vars
  PROVE  IInv'
BY DEF IInv, TypeOK, CachesAreCapped, EditorsAreReady, HardCapHolds, vars, redis, counters, agent, editor

\* The reservations of a day never exceed the cap of the deployment
\* (reserve_ai_call and get_ai_runtime_settings), for any number of processes that
\* keep any configuration they read, any number of overlapping edits and any budget
\* an older deployment left in Redis.
THEOREM CapHolds == Spec => []HardCapHolds
<1>1. Init => IInv
  BY InitEstablishes
<1>2. IInv /\ [Next]_vars => IInv'
  BY AgentPreserves, EditorPreserves, DayPreserves, StutterPreserves DEF Next
<1>3. IInv => HardCapHolds
  BY DEF IInv
<1>4. QED BY <1>1, <1>2, <1>3, PTL DEF Spec

\* The settings, the caches and the requests keep their types, so that what is
\* compared and clamped above is a number (ai_runtime_settings.py:28-57).
THEOREM BudgetTypes == Spec => []TypeOK
<1>1. Init => IInv
  BY InitEstablishes
<1>2. IInv /\ [Next]_vars => IInv'
  BY AgentPreserves, EditorPreserves, DayPreserves, StutterPreserves DEF Next
<1>3. IInv => TypeOK
  BY DEF IInv
<1>4. QED BY <1>1, <1>2, <1>3, PTL DEF Spec

-----------------------------------------------------------------------------
(***************************************************************************)
(* The health.  The watchdog reads the latest rows once per tick and is    *)
(* the only one to write rows; between the reading and the row the latest  *)
(* row of a service must not change.  The alerts of an event are counted   *)
(* by what the alert worker has committed, so that a redelivered event     *)
(* finds the contexts that have theirs.                                    *)
(***************************************************************************)

Row == [service : Services, previous : States \cup {"none"}, state : States]

HealthTypeOK ==
  /\ beat \in [Beating -> States \cup {"none"}]
  /\ log \in Seq(Row)
  /\ watch \in {"idle", "scan", "insert", "publish", "dead"}
  /\ cursor \in Nat \ {0}
  /\ known \in [Services -> States \cup {"none"}]
  /\ finding \in States

RowsBefore(s, n) == {j \in RowsOf(s) : j < n}

HasGreatest(S) == \E i \in S : \A j \in S : j <= i

\* Among the rows a service had at any point one is the latest.
LatestExists ==
  \A s \in Services, n \in Nat : RowsBefore(s, n) # {} => HasGreatest(RowsBefore(s, n))

(* What the watchdog read at the start of its tick is still true of the services
   it has not written a row for; it records nothing but changes. *)
TickIsFresh ==
  /\ watch \in {"insert", "publish"} => cursor <= Len(Essential)
  /\ watch \in {"scan", "insert"} =>
       \A k \in DOMAIN Essential : k >= cursor => known[Essential[k]] = Latest(Essential[k])
  /\ watch = "publish" =>
       /\ Len(log) > 0
       /\ \A k \in DOMAIN Essential : k > cursor => known[Essential[k]] = Latest(Essential[k])
  /\ watch = "insert" => finding # known[Service]

RowsInv == HealthTypeOK /\ LatestExists /\ TickIsFresh /\ RowsChain

-----------------------------------------------------------------------------
(* ESSENTIAL_SERVICES names every service once. *)
LEMMA EssentialNames ==
  /\ Len(Essential) \in Nat /\ DOMAIN Essential = 1 .. Len(Essential)
  /\ \A i \in DOMAIN Essential : Essential[i] \in Services
  /\ \A i, j \in DOMAIN Essential : Essential[i] = Essential[j] => i = j
<1>1. PICK stores : stores = <<Api, "postgres", "redis">>
  OBVIOUS
<1>2. WorkerOrder \in Seq(Workers) /\ DOMAIN WorkerOrder = 1 .. Len(WorkerOrder) /\ Len(WorkerOrder) \in Nat
  <2>1. WorkerOrder \in Seq(STRING)
    BY HealthAssumption
  <2>2. QED BY <2>1 DEF Workers
<1>3. /\ stores \in Seq({Api} \cup Stores) /\ Len(stores) = 3
      /\ \A i, j \in 1 .. 3 : stores[i] = stores[j] => i = j
  BY <1>1 DEF Api, Stores
<1>4. stores \in Seq(Services) /\ WorkerOrder \in Seq(Services)
  BY <1>2, <1>3 DEF Services, Beating
<1>5. /\ Essential \in Seq(Services) /\ Len(Essential) = 3 + Len(WorkerOrder)
      /\ \A i \in 1 .. Len(Essential) : Essential[i] = IF i <= 3 THEN stores[i] ELSE WorkerOrder[i - 3]
  BY <1>1, <1>2, <1>3, <1>4, ConcatProperties DEF Essential
<1>6. DOMAIN Essential = 1 .. Len(Essential) /\ \A i \in DOMAIN Essential : Essential[i] \in Services
  BY <1>5
<1>7. ASSUME NEW i \in 1 .. Len(Essential), NEW j \in 1 .. Len(Essential), Essential[i] = Essential[j]
      PROVE  i = j
  <2>1. CASE i <= 3 /\ j <= 3
    BY <1>2, <1>3, <1>5, <1>7, <2>1
  <2>2. CASE i > 3 /\ j > 3
    <3>1. i - 3 \in DOMAIN WorkerOrder /\ j - 3 \in DOMAIN WorkerOrder
      BY <1>2, <1>5, <2>2
    <3>2. WorkerOrder[i - 3] = WorkerOrder[j - 3]
      BY <1>5, <1>7, <2>2
    <3>3. i - 3 = j - 3
      BY <3>1, <3>2, HealthAssumption
    <3>4. QED BY <1>2, <1>5, <3>3
  <2>3. ASSUME NEW k \in 1 .. Len(Essential), NEW l \in 1 .. Len(Essential), k <= 3, l > 3
        PROVE  Essential[k] # Essential[l]
    <3>1. l - 3 \in 1 .. Len(WorkerOrder) /\ k \in 1 .. 3
      BY <1>2, <1>5, <2>3
    <3>2. stores[k] \in {Api} \cup Stores /\ WorkerOrder[l - 3] \in Workers
      BY <1>2, <1>3, <3>1, ElementOfSeq
    <3>3. Essential[k] = stores[k] /\ Essential[l] = WorkerOrder[l - 3]
      BY <1>2, <1>5, <2>3
    <3>4. QED BY <3>2, <3>3, HealthAssumption
  <2>4. QED BY <1>2, <1>5, <1>7, <2>1, <2>2, <2>3
<1>8. QED BY <1>2, <1>5, <1>6, <1>7

LEMMA AllRowsAreBefore ==
  ASSUME HealthTypeOK, NEW s
  PROVE  /\ Len(log) + 1 \in Nat /\ RowsBefore(s, Len(log) + 1) = RowsOf(s)
         /\ RowsOf(s) \subseteq 1 .. Len(log)
BY DEF HealthTypeOK, RowsBefore, RowsOf, Entries

\* A state read from the rows is one.
LEMMA LatestIsState ==
  ASSUME HealthTypeOK, LatestExists, NEW s \in Services
  PROVE  Latest(s) \in States \cup {"none"}
<1>1. CASE RowsOf(s) = {}
  BY <1>1 DEF Latest
<1>2. CASE RowsOf(s) # {}
  <2>1. PICK m : m = CHOOSE i \in RowsOf(s) : \A j \in RowsOf(s) : j <= i
    OBVIOUS
  <2>2. m \in RowsOf(s)
    BY <1>2, <2>1, AllRowsAreBefore DEF LatestExists, HasGreatest
  <2>3. m \in DOMAIN log /\ log[m] \in Row
    BY <2>2, ElementOfSeq DEF RowsOf, Entries, HealthTypeOK
  <2>4. QED BY <1>2, <2>1, <2>3 DEF Latest, Row
<1>3. QED BY <1>1, <1>2

LEMMA ObservedIsState ==
  ASSUME HealthTypeOK, Scanning
  PROVE  Service \in Services /\ Observed \in States
<1>1. Service \in Services
  <2>1. cursor \in 1 .. Len(Essential)
    BY EssentialNames DEF Scanning, HealthTypeOK
  <2>2. QED BY <2>1, EssentialNames DEF Service
<1>2. CASE Service \in Stores
  BY <1>2, <1>1 DEF Observed, States, Published
<1>3. CASE Service \notin Stores
  <2>1. beat[Service] \in States \cup {"none"}
    BY <1>1, <1>3 DEF HealthTypeOK, Services
  <2>2. QED BY <1>3, <2>1, <1>1 DEF Observed, States, Published
<1>4. QED BY <1>1, <1>2, <1>3

LEMMA RowsInit == HealthInit => RowsInv
<1> SUFFICES ASSUME HealthInit PROVE RowsInv
  OBVIOUS
<1>1. log = <<>> /\ Entries = {} /\ watch = "idle" /\ cursor = 1
  BY DEF HealthInit, Entries
<1>2. HealthTypeOK
  BY <1>1 DEF HealthInit, HealthTypeOK, States
<1>3. \A s : RowsOf(s) = {}
  BY <1>1 DEF RowsOf
<1>4. LatestExists /\ RowsChain
  BY <1>1, <1>3 DEF LatestExists, RowsBefore, RowsChain
<1>5. TickIsFresh
  BY <1>1 DEF TickIsFresh
<1>6. QED BY <1>2, <1>4, <1>5 DEF RowsInv

-----------------------------------------------------------------------------
\* A step that writes no row leaves the chain as it is.
LEMMA RowsStay ==
  ASSUME RowsInv, log' = log, HealthTypeOK', TickIsFresh'
  PROVE  RowsInv'
<1>1. Entries' = Entries /\ \A s : RowsOf(s)' = RowsOf(s)
  BY DEF Entries, RowsOf
<1>2. LatestExists'
  BY <1>1 DEF RowsInv, LatestExists, RowsBefore
<1>3. RowsChain'
  BY <1>1 DEF RowsInv, RowsChain
<1>4. QED BY <1>2, <1>3 DEF RowsInv

LEMMA LatestStays ==
  ASSUME log' = log, NEW s
  PROVE  Latest(s)' = Latest(s)
BY DEF Latest, RowsOf, Entries

\* The world and the alert worker do not disturb the watchdog's tick.
LEMMA OthersKeepRows ==
  ASSUME RowsInv, UNCHANGED watchdog, beat' \in [Beating -> States \cup {"none"}]
  PROVE  RowsInv'
<1>1. log' = log /\ watch' = watch /\ cursor' = cursor /\ known' = known /\ finding' = finding
  BY DEF watchdog
<1>2. HealthTypeOK'
  BY <1>1 DEF RowsInv, HealthTypeOK
<1>3. TickIsFresh'
  BY <1>1, LatestStays DEF RowsInv, TickIsFresh, Service
<1>4. QED BY <1>1, <1>2, <1>3, RowsStay

\* The tick goes on to the next service, or ends.
LEMMA TickMovesOn ==
  ASSUME RowsInv, log' = log, UNCHANGED <<beat>>,
         \/ Advance /\ known' = known /\ finding' \in States
            /\ (watch = "insert" \/ watch = "scan" \/ watch = "publish")
         \/ Forget("idle") \/ Forget("dead")
         \/ watch' = "idle" /\ UNCHANGED <<cursor, known, finding>>
         \/ watch' = "dead" /\ UNCHANGED <<cursor, known, finding>>
  PROVE  RowsInv'
<1>1. HealthTypeOK'
  BY DEF RowsInv, HealthTypeOK, Advance, Forget, States
<1>2. CASE Advance /\ known' = known /\ (watch = "insert" \/ watch = "scan" \/ watch = "publish")
  <2>1. cursor' = cursor + 1 /\ watch' = "scan" /\ cursor \in Nat
    BY <1>2 DEF Advance, RowsInv, HealthTypeOK
  <2>2. \A k \in DOMAIN Essential : k >= cursor + 1 => k > cursor /\ k >= cursor
    BY <2>1, EssentialNames
  <2>3. \A k \in DOMAIN Essential : k >= cursor + 1 => known[Essential[k]] = Latest(Essential[k])
    BY <1>2, <2>2 DEF RowsInv, TickIsFresh
  <2>4. TickIsFresh'
    BY <1>2, <2>1, <2>3, LatestStays DEF TickIsFresh
  <2>5. QED BY <1>1, <2>4, RowsStay
<1>3. CASE watch' \in {"idle", "dead"}
  <2>1. TickIsFresh'
    BY <1>3 DEF TickIsFresh
  <2>2. QED BY <1>1, <2>1, RowsStay
<1>4. QED BY <1>2, <1>3 DEF Forget

LEMMA StartWatchKeepsRows ==
  ASSUME RowsInv, StartWatch
  PROVE  RowsInv'
<1>1. CASE up["postgres"]
  <2>1. /\ known' = [s \in Services |-> Latest(s)] /\ watch' = "scan"
        /\ log' = log /\ cursor' = cursor /\ finding' = finding /\ beat' = beat
    BY <1>1 DEF StartWatch, world
  <2>2. HealthTypeOK'
    BY <2>1, LatestIsState DEF RowsInv, HealthTypeOK
  <2>3. \A k \in DOMAIN Essential : Essential[k] \in Services
    BY EssentialNames
  <2>4. TickIsFresh'
    BY <2>1, <2>3, LatestStays DEF TickIsFresh
  <2>5. QED BY <2>1, <2>2, <2>4, RowsStay
<1>2. CASE ~up["postgres"]
  BY <1>2, TickMovesOn DEF StartWatch, AfterHeartbeat, world
<1>3. QED BY <1>1, <1>2

LEMMA ObserveKeepsRows ==
  ASSUME RowsInv, Observe
  PROVE  RowsInv'
<1>1. /\ Scanning /\ Observed \in States /\ finding' = Observed
      /\ log' = log /\ known' = known /\ beat' = beat /\ watch = "scan"
  BY ObservedIsState DEF Observe, RowsInv, world, Scanning
<1>2. CASE Observed = known[Service]
  BY <1>1, <1>2, TickMovesOn DEF Observe
<1>3. CASE Observed # known[Service]
  <2>1. watch' = "insert" /\ cursor' = cursor /\ cursor <= Len(Essential)
    BY <1>1, <1>3 DEF Observe, Scanning
  <2>2. HealthTypeOK'
    BY <1>1, <2>1 DEF RowsInv, HealthTypeOK
  <2>3. finding' # known'[Service']
    BY <1>1, <1>3, <2>1 DEF Service
  <2>4. TickIsFresh'
    BY <1>1, <2>1, <2>3, LatestStays DEF RowsInv, TickIsFresh
  <2>5. QED BY <1>1, <2>2, <2>4, RowsStay
<1>4. QED BY <1>2, <1>3

\* The row continues the chain of its service and touches no other chain.
LEMMA InsertKeepsRows ==
  ASSUME RowsInv, InsertRow
  PROVE  RowsInv'
<1>0. /\ watch = "insert" /\ watch' = "publish" /\ cursor' = cursor /\ known' = known
      /\ finding' = finding /\ beat' = beat /\ finding # known[Service]
      /\ cursor \in DOMAIN Essential /\ Service \in Services
      /\ known[Service] = Latest(Service) /\ known[Service] \in States \cup {"none"}
  <2>1. cursor \in 1 .. Len(Essential) /\ watch = "insert"
    BY EssentialNames DEF RowsInv, HealthTypeOK, TickIsFresh, InsertRow
  <2>2. cursor \in DOMAIN Essential /\ Service \in Services
    BY <2>1, EssentialNames DEF Service
  <2>3. known[Service] = Latest(Service)
    BY <2>1, <2>2 DEF RowsInv, TickIsFresh, Service
  <2>4. finding # known[Service]
    BY <2>1 DEF RowsInv, TickIsFresh
  <2>5. QED BY <2>1, <2>2, <2>3, <2>4 DEF RowsInv, HealthTypeOK, InsertRow, world
<1> DEFINE n == Len(log) + 1
<1>1. PICK r \in Row : /\ log' = Append(log, r)
                       /\ r.service = Service /\ r.previous = known[Service] /\ r.state = finding
  <2>1. [service |-> Service, previous |-> known[Service], state |-> finding] \in Row
    BY <1>0 DEF RowsInv, HealthTypeOK, Row
  <2>2. QED BY <2>1 DEF InsertRow
<1>2. /\ log' \in Seq(Row) /\ Len(log') = n /\ n \in Nat /\ log'[n] = r
      /\ Entries = 1 .. Len(log) /\ Entries' = Entries \cup {n} /\ n \notin Entries
      /\ \A i \in Entries : log'[i] = log[i] /\ i < n /\ i \in Nat
  BY <1>1 DEF RowsInv, HealthTypeOK, Entries
<1> HIDE DEF n
<1> DEFINE After(s) == {k \in Entries' : log'[k].service = s}
<1>3. ASSUME NEW s
      PROVE  RowsOf(s)' = After(s) /\ After(s) = IF s = Service THEN RowsOf(s) \cup {n} ELSE RowsOf(s)
  BY <1>1, <1>2 DEF RowsOf
<1>4. ASSUME NEW s, s # Service
      PROVE  Latest(s)' = Latest(s)
  <2>1. RowsOf(s)' = RowsOf(s) /\ RowsOf(s) \subseteq Entries
    BY <1>3, <1>4 DEF RowsOf
  <2>2. CASE RowsOf(s) = {}
    BY <2>1, <2>2 DEF Latest
  <2>3. CASE RowsOf(s) # {} /\ s \in Services
    <3>1. PICK m : m = CHOOSE i \in RowsOf(s) : \A j \in RowsOf(s) : j <= i
      OBVIOUS
    <3>2. m \in RowsOf(s)
      BY <2>3, <3>1, AllRowsAreBefore DEF RowsInv, LatestExists, HasGreatest
    <3>3. log'[m] = log[m]
      BY <1>2, <2>1, <3>2
    <3>4. QED BY <2>1, <2>3, <3>1, <3>3 DEF Latest
  <2>4. RowsOf(s) # {} => s \in Services
    <3>1. \A i \in Entries : log[i] \in Row
      BY ElementOfSeq DEF RowsInv, HealthTypeOK, Entries
    <3>2. QED BY <3>1 DEF RowsOf, Row
  <2>5. QED BY <2>2, <2>3, <2>4
<1> HIDE DEF After
<1>5. HealthTypeOK'
  BY <1>0, <1>2 DEF RowsInv, HealthTypeOK
<1>6. TickIsFresh'
  <2>1. \A k \in DOMAIN Essential : k > cursor => Essential[k] # Service
    BY <1>0, EssentialNames DEF Service
  <2>2. \A k \in DOMAIN Essential : k > cursor => known[Essential[k]] = Latest(Essential[k])
    BY <1>0, EssentialNames DEF RowsInv, TickIsFresh
  <2>3. Len(log') > 0
    BY <1>1, <1>2 DEF RowsInv, HealthTypeOK, n
  <2>4. cursor <= Len(Essential)
    BY <1>0, EssentialNames
  <2>5. QED BY <1>0, <1>4, <2>1, <2>2, <2>3, <2>4 DEF TickIsFresh
<1>7. LatestExists'
  <2> SUFFICES ASSUME NEW s \in Services, NEW m \in Nat, RowsBefore(s, m)' # {}
               PROVE  HasGreatest(RowsBefore(s, m)')
    BY DEF LatestExists, HasGreatest
  <2>0. RowsBefore(s, m)' = {j \in After(s) : j < m}
    BY <1>3 DEF RowsBefore
  <2>1. CASE s = Service /\ n < m
    <3>1. RowsOf(s) \subseteq 1 .. Len(log)
      BY AllRowsAreBefore DEF RowsInv
    <3>2. After(s) = RowsOf(s) \cup {n}
      BY <1>3, <2>1
    <3>3. \A j \in After(s) : j <= n /\ j < m
      BY <1>2, <2>1, <3>1, <3>2 DEF n
    <3>4. QED BY <2>0, <3>2, <3>3 DEF HasGreatest
  <2>2. CASE s # Service \/ n >= m
    <3>1. RowsBefore(s, m)' = RowsBefore(s, m)
      BY <1>2, <1>3, <2>0, <2>2 DEF RowsBefore
    <3>2. QED BY <3>1 DEF RowsInv, LatestExists
  <2>3. QED BY <1>2, <2>1, <2>2
<1>8. RowsChain'
  <2>1. ASSUME NEW i \in Entries
        PROVE  /\ i \in Nat /\ log[i].service \in Services
               /\ {j \in After(log[i].service) : j < i} = RowsBefore(log[i].service, i)
    <3>1. i \in Nat /\ log[i] \in Row
      BY <1>2, <2>1, ElementOfSeq DEF RowsInv, HealthTypeOK, Entries
    <3>2. n \notin {j \in After(log[i].service) : j < i}
      BY <1>2, <2>1, <3>1
    <3>3. QED BY <1>3, <3>1, <3>2 DEF RowsBefore, Row
  <2>2. ASSUME NEW i \in Entries
        PROVE  LET before == RowsBefore(log[i].service, i)
               IN  /\ log'[i].state # log'[i].previous
                   /\ IF before = {} THEN log'[i].previous = "none"
                      ELSE log'[i].previous = log'[CHOOSE j \in before : \A k \in before : k <= j].state
    <3>1. PICK before : before = RowsBefore(log[i].service, i)
      OBVIOUS
    <3>2. PICK m : m = CHOOSE j \in before : \A k \in before : k <= j
      OBVIOUS
    <3>3. /\ log[i].state # log[i].previous
          /\ IF before = {} THEN log[i].previous = "none" ELSE log[i].previous = log[m].state
      BY <2>2, <3>1, <3>2 DEF RowsInv, RowsChain, RowsBefore
    <3>4. before # {} => m \in Entries
      BY <2>1, <2>2, <3>1, <3>2 DEF RowsInv, LatestExists, HasGreatest, RowsBefore, RowsOf
    <3>5. QED BY <1>2, <2>2, <3>1, <3>2, <3>3, <3>4
  <2>3. LET before == RowsOf(Service)
        IN  /\ log'[n].state # log'[n].previous
            /\ IF before = {} THEN log'[n].previous = "none"
               ELSE log'[n].previous = log'[CHOOSE j \in before : \A k \in before : k <= j].state
    <3>1. PICK before : before = RowsOf(Service)
      OBVIOUS
    <3>2. PICK m : m = CHOOSE j \in before : \A k \in before : k <= j
      OBVIOUS
    <3>3. known[Service] = IF before = {} THEN "none" ELSE log[m].state
      BY <1>0, <3>1, <3>2 DEF Latest
    <3>4. before # {} => m \in Entries
      BY <1>0, <3>1, <3>2, AllRowsAreBefore DEF RowsInv, LatestExists, HasGreatest, RowsOf
    <3>5. QED BY <1>0, <1>1, <1>2, <3>1, <3>2, <3>3, <3>4
  <2>4. ASSUME NEW i \in Entries'
        PROVE  LET before == {j \in After(log'[i].service) : j < i}
               IN  /\ log'[i].state # log'[i].previous
                   /\ IF before = {} THEN log'[i].previous = "none"
                      ELSE log'[i].previous = log'[CHOOSE j \in before : \A k \in before : k <= j].state
    <3>1. CASE i = n
      <4>1. log'[i].service = Service
        BY <1>1, <1>2, <3>1
      <4>2. After(Service) = RowsOf(Service) \cup {n} /\ \A j \in RowsOf(Service) : j < n
        BY <1>2, <1>3 DEF RowsOf
      <4>3. {j \in After(Service) : j < n} = RowsOf(Service)
        BY <1>2, <4>2
      <4>4. QED BY <2>3, <3>1, <4>1, <4>3
    <3>2. CASE i # n
      <4>1. i \in Entries /\ log'[i] = log[i]
        BY <1>2, <3>2
      <4>2. PICK before : before = RowsBefore(log[i].service, i)
        OBVIOUS
      <4>3. {j \in After(log'[i].service) : j < i} = before
        BY <2>1, <4>1, <4>2
      <4>4. /\ log'[i].state # log'[i].previous
            /\ IF before = {} THEN log'[i].previous = "none"
               ELSE log'[i].previous = log'[CHOOSE j \in before : \A k \in before : k <= j].state
        BY <2>2, <4>1, <4>2
      <4>5. QED BY <4>3, <4>4
    <3>3. QED BY <3>1, <3>2
  <2>5. ASSUME NEW i \in Entries'
        PROVE  \A s : s = log'[i].service =>
                 LET before == {j \in RowsOf(s)' : j < i}
                 IN  /\ log'[i].state # log'[i].previous
                     /\ IF before = {} THEN log'[i].previous = "none"
                        ELSE log'[i].previous = log'[CHOOSE j \in before : \A k \in before : k <= j].state
    BY <1>3, <2>4
  <2>6. QED BY <2>5 DEF RowsChain
<1>9. QED BY <1>5, <1>6, <1>7, <1>8 DEF RowsInv

LEMMA WatchdogKeepsRows ==
  ASSUME RowsInv, WatchdogStep \/ WatchdogCrash
  PROVE  RowsInv'
<1>1. CASE StartWatch
  BY <1>1, StartWatchKeepsRows
<1>2. CASE Observe
  BY <1>2, ObserveKeepsRows
<1>3. CASE InsertRow
  BY <1>3, InsertKeepsRows
<1>4. CASE PublishTransition \/ RecordFails
  <2>1. Advance /\ known' = known /\ finding' = finding /\ log' = log /\ beat' = beat /\ finding \in States
    BY <1>4 DEF PublishTransition, RecordFails, world, RowsInv, HealthTypeOK
  <2>2. QED BY <1>4, <2>1, TickMovesOn DEF PublishTransition, RecordFails
<1>5. CASE TickAborted \/ EndWatch \/ WatchdogCrash
  <2>1. (Forget("idle") \/ Forget("dead")) /\ log' = log /\ beat' = beat
    BY <1>5 DEF TickAborted, EndWatch, WatchdogCrash, AfterHeartbeat, world
  <2>2. QED BY <2>1, TickMovesOn
<1>6. CASE WatchdogRestart
  BY <1>6, TickMovesOn DEF WatchdogRestart, world
<1>7. QED BY <1>1, <1>2, <1>3, <1>4, <1>5, <1>6 DEF WatchdogStep

\* A heartbeat key holds what its service published, or has expired.
LEMMA WorldKeepsRows ==
  ASSUME RowsInv,
         \/ \E d \in Stores : Outage(d) \/ Return(d)
         \/ \E s \in Beating :
              \/ Start(s) \/ Restart(s) \/ ServiceCrash(s) \/ Stop(s) \/ Expire(s) \/ TickDies(s)
              \/ \E state \in {"HEALTHY", "DEGRADED"} : Tick(s, state)
         \/ BackendHeartbeat
  PROVE  RowsInv'
<1>1. UNCHANGED watchdog
  BY DEF Outage, Return, Start, Restart, ServiceCrash, Stop, Expire, TickDies, Tick, BackendHeartbeat
<1>2. beat' = beat \/ \E s \in Beating, state \in Published \cup {"none"} : beat' = [beat EXCEPT ![s] = state]
  <2>1. Api \in Beating
    BY DEF Beating
  <2>2. CASE BackendHeartbeat
    BY <2>1, <2>2 DEF BackendHeartbeat, PublishHeartbeat, Published
  <2>3. CASE \E d \in Stores : Outage(d) \/ Return(d)
    BY <2>3 DEF Outage, Return
  <2>4. ASSUME NEW s \in Beating,
               \/ Start(s) \/ Restart(s) \/ ServiceCrash(s) \/ Stop(s) \/ Expire(s) \/ TickDies(s)
               \/ \E state \in {"HEALTHY", "DEGRADED"} : Tick(s, state)
        PROVE  beat' = beat \/ \E state \in Published \cup {"none"} : beat' = [beat EXCEPT ![s] = state]
    BY <2>4 DEF Start, Restart, ServiceCrash, Stop, Expire, TickDies, Tick, PublishHeartbeat, Published
  <2>5. QED BY <2>2, <2>3, <2>4
<1>3. beat' \in [Beating -> States \cup {"none"}]
  BY <1>2 DEF RowsInv, HealthTypeOK, States
<1>4. QED BY <1>1, <1>3, OthersKeepRows

LEMMA RowsNext == RowsInv /\ [HealthNext]_healthVars => RowsInv'
<1> SUFFICES ASSUME RowsInv, [HealthNext]_healthVars PROVE RowsInv'
  OBVIOUS
<1>1. CASE AlertStep \/ DispatchCrash \/ UNCHANGED healthVars
  <2>1. UNCHANGED watchdog /\ beat' = beat
    BY <1>1 DEF AlertStep, TakeEvent, Alert, AckEvent, FailEvent, DispatchDies, DispatchRestart,
                DispatchCrash, healthVars, world
  <2>2. QED BY <2>1, OthersKeepRows DEF RowsInv, HealthTypeOK
<1>2. QED BY <1>1, WorldKeepsRows, WatchdogKeepsRows DEF HealthNext

(* The rows of a service form a chain: each starts where the last one ended and changes
   the state, wherever the watchdog crashed and whatever the stores did
   (watchdog/main.py:185-203). *)
THEOREM RowsAreAChain == HealthSpec => []RowsChain
<1>1. RowsInv => RowsChain
  BY DEF RowsInv
<1>2. QED BY <1>1, RowsInit, RowsNext, PTL DEF HealthSpec

-----------------------------------------------------------------------------
(* The alerts.  An event is a row, so its counters exist as long as rows are
   only appended; the handler has given an alert to every context it is done with. *)
CountersMatch ==
  /\ log \in Seq(Row) /\ Len(alerts) = Len(log) /\ Len(deliveries) = Len(log)
  /\ alerts \in Seq([Contexts -> {0, 1}]) /\ deliveries \in Seq(Nat)

EventsAreRows ==
  /\ published \subseteq Entries /\ settled \subseteq Entries
  /\ watch = "publish" => Len(log) > 0
  /\ dispatch = "work" => event \in Entries

SettledWereAlerted == \A i \in settled, c \in Contexts : alerts[i][c] = 1

DoneWereAlerted ==
  dispatch = "work" => todo \subseteq Contexts /\ \A c \in Contexts \ todo : alerts[event][c] = 1

AlertsInv == CountersMatch /\ EventsAreRows /\ SettledWereAlerted /\ DoneWereAlerted

LEMMA AlertsInit == HealthInit => AlertsInv
<1> SUFFICES ASSUME HealthInit PROVE AlertsInv
  OBVIOUS
<1>1. CountersMatch
  BY DEF HealthInit, CountersMatch
<1>2. EventsAreRows /\ SettledWereAlerted /\ DoneWereAlerted
  BY DEF HealthInit, EventsAreRows, SettledWereAlerted, DoneWereAlerted
<1>3. QED BY <1>1, <1>2 DEF AlertsInv

\* A new row has counters of its own; those of the others stay.
LEMMA InsertKeepsAlerts ==
  ASSUME RowsInv, AlertsInv, InsertRow
  PROVE  AlertsInv'
<1>1. PICK z \in [Contexts -> {0, 1}] : alerts' = Append(alerts, z)
  BY DEF InsertRow
<1>2. deliveries' = Append(deliveries, 0)
  BY DEF InsertRow
<1>3. log' \in Seq(Row) /\ Len(log') = Len(log) + 1
  BY InsertKeepsRows DEF RowsInv, HealthTypeOK, InsertRow
<1>4. CountersMatch'
  BY <1>1, <1>2, <1>3 DEF AlertsInv, CountersMatch
<1>5. /\ Entries = 1 .. Len(log) /\ Entries' = 1 .. Len(log) + 1 /\ Len(log) \in Nat
      /\ \A i \in Entries : i \in Entries' /\ alerts'[i] = alerts[i]
  BY <1>1, <1>3 DEF AlertsInv, CountersMatch, Entries
<1>6. UNCHANGED <<published, settled, dispatch, event, todo>>
  BY DEF InsertRow
<1>7. EventsAreRows'
  BY <1>3, <1>5, <1>6 DEF AlertsInv, EventsAreRows
<1>8. SettledWereAlerted' /\ DoneWereAlerted'
  BY <1>5, <1>6 DEF AlertsInv, EventsAreRows, SettledWereAlerted, DoneWereAlerted
<1>9. QED BY <1>4, <1>7, <1>8 DEF AlertsInv

\* Steps that write neither rows nor alerts nor acknowledgements.
LEMMA AlertsStay ==
  ASSUME AlertsInv, UNCHANGED <<log, alerts, settled>>, deliveries' \in Seq(Nat), Len(deliveries') = Len(deliveries),
         EventsAreRows', DoneWereAlerted'
  PROVE  AlertsInv'
BY DEF AlertsInv, CountersMatch, SettledWereAlerted

LEMMA WatchdogKeepsAlerts ==
  ASSUME RowsInv, AlertsInv, WatchdogStep \/ WatchdogCrash
  PROVE  AlertsInv'
<1>1. CASE InsertRow
  BY <1>1, InsertKeepsAlerts
<1>2. CASE ~InsertRow
  <2>1. UNCHANGED <<log, worker>>
    BY <1>2 DEF WatchdogStep, WatchdogCrash, StartWatch, Observe, TickAborted, PublishTransition,
                RecordFails, EndWatch, WatchdogRestart
  <2>2. Entries' = Entries
    BY <2>1 DEF Entries
  <2>3. watch' # "publish"
    BY <1>2 DEF WatchdogStep, WatchdogCrash, StartWatch, Observe, TickAborted, PublishTransition,
                RecordFails, EndWatch, WatchdogRestart, Advance, Forget, AfterHeartbeat
  <2>4. published' \subseteq Entries
    <3>1. CASE PublishTransition
      <4>1. Len(log) \in Entries
        BY <3>1 DEF PublishTransition, AlertsInv, EventsAreRows, CountersMatch, Entries
      <4>2. QED BY <3>1, <4>1 DEF PublishTransition, AlertsInv, EventsAreRows
    <3>2. CASE ~PublishTransition
      BY <1>2, <3>2 DEF WatchdogStep, WatchdogCrash, StartWatch, Observe, TickAborted, RecordFails,
                        EndWatch, WatchdogRestart, AlertsInv, EventsAreRows
    <3>3. QED BY <3>1, <3>2
  <2>5. EventsAreRows' /\ DoneWereAlerted'
    BY <2>1, <2>2, <2>3, <2>4 DEF worker, AlertsInv, EventsAreRows, DoneWereAlerted
  <2>6. QED BY <2>1, <2>5, AlertsStay DEF worker, AlertsInv, CountersMatch
<1>3. QED BY <1>1, <1>2

LEMMA TakeKeepsAlerts ==
  ASSUME AlertsInv, NEW i \in Entries, TakeEvent(i)
  PROVE  AlertsInv'
<1>1. UNCHANGED <<log, alerts, settled, published, watch>> /\ event' = i /\ todo' = Contexts /\ dispatch' = "work"
  BY DEF TakeEvent, watchdog
<1>2. deliveries' \in Seq(Nat) /\ Len(deliveries') = Len(deliveries)
  <2>1. i \in 1 .. Len(deliveries)
    BY DEF AlertsInv, CountersMatch, Entries
  <2>2. Least(MaxRetries, deliveries[i] + 1) \in Nat
    BY <2>1, HealthAssumption DEF Least, AlertsInv, CountersMatch
  <2>3. deliveries' = [deliveries EXCEPT ![i] = Least(MaxRetries, deliveries[i] + 1)]
    BY DEF TakeEvent
  <2>4. QED BY <2>1, <2>2, <2>3, ExceptSeq DEF AlertsInv, CountersMatch
<1>3. EventsAreRows' /\ DoneWereAlerted'
  BY <1>1 DEF AlertsInv, EventsAreRows, DoneWereAlerted, Entries
<1>4. QED BY <1>1, <1>2, <1>3, AlertsStay

\* The deduplication: a context that has its alert is only crossed off.
LEMMA AlertKeepsAlerts ==
  ASSUME AlertsInv, NEW c \in Contexts, Alert(c)
  PROVE  AlertsInv'
<1>0. /\ dispatch = "work" /\ event \in Entries /\ event \in 1 .. Len(alerts) /\ todo \subseteq Contexts
      /\ UNCHANGED <<log, settled, published, watch, deliveries>> /\ alerts[event] \in [Contexts -> {0, 1}]
  BY ElementOfSeq DEF Alert, watchdog, AlertsInv, EventsAreRows, DoneWereAlerted, CountersMatch, Entries
<1>1. Entries' = Entries
  BY <1>0 DEF Entries
<1>2. CASE AlreadyAlerted(c)
  <2>1. alerts' = alerts /\ todo' = todo \ {c} /\ dispatch' = dispatch /\ event' = event
    BY <1>2 DEF Alert
  <2>2. alerts[event][c] = 1
    BY <1>0, <1>2 DEF AlreadyAlerted
  <2>3. EventsAreRows' /\ DoneWereAlerted'
    BY <1>0, <1>1, <2>1, <2>2 DEF AlertsInv, EventsAreRows, DoneWereAlerted
  <2>4. QED BY <1>0, <2>1, <2>3, AlertsStay DEF AlertsInv, CountersMatch
<1>3. CASE ~AlreadyAlerted(c)
  <2>1. alerts[event][c] = 0
    BY <1>0, <1>3 DEF AlreadyAlerted
  <2>2. PICK z : z = [alerts[event] EXCEPT ![c] = 1]
    OBVIOUS
  <2>3. z \in [Contexts -> {0, 1}] /\ z[c] = 1 /\ \A b \in Contexts \ {c} : z[b] = alerts[event][b]
    BY <1>0, <2>2
  <2>4. alerts' = [alerts EXCEPT ![event] = z]
    BY <1>3, <2>1, <2>2 DEF Alert
  <2>5. /\ alerts' \in Seq([Contexts -> {0, 1}]) /\ Len(alerts') = Len(alerts)
        /\ \A i \in Entries : alerts'[i] = IF i = event THEN z ELSE alerts[i]
    BY <1>0, <2>3, <2>4, ExceptSeq DEF AlertsInv, CountersMatch, Entries
  <2>6. CountersMatch'
    BY <1>0, <2>5 DEF AlertsInv, CountersMatch
  <2>7. \A i \in Entries, b \in Contexts : alerts[i][b] = 1 => alerts'[i][b] = 1
    BY <2>3, <2>5
  <2>8. SettledWereAlerted'
    BY <1>0, <2>7 DEF AlertsInv, SettledWereAlerted, EventsAreRows
  <2>9. \/ todo' = todo \ {c} /\ dispatch' = dispatch /\ event' = event
        \/ dispatch' = "dead"
    BY <1>3 DEF Alert, Leave
  <2>10. EventsAreRows'
    BY <1>0, <1>1, <2>9 DEF AlertsInv, EventsAreRows
  <2>11. DoneWereAlerted'
    BY <1>0, <2>3, <2>5, <2>7, <2>9 DEF AlertsInv, DoneWereAlerted
  <2>12. QED BY <2>6, <2>8, <2>10, <2>11 DEF AlertsInv
<1>4. QED BY <1>2, <1>3

LEMMA HandlerKeepsAlerts ==
  ASSUME AlertsInv, AckEvent \/ FailEvent \/ DispatchDies \/ DispatchRestart \/ DispatchCrash
  PROVE  AlertsInv'
<1>1. UNCHANGED <<log, alerts, deliveries, published, watch>> /\ dispatch' # "work"
  BY DEF AckEvent, FailEvent, DispatchDies, DispatchRestart, DispatchCrash, watchdog, Leave
<1>2. settled' = settled \/ (settled' = settled \cup {event} /\ dispatch = "work" /\ todo = {})
  BY DEF AckEvent, FailEvent, DispatchDies, DispatchRestart, DispatchCrash
<1>3. Entries' = Entries
  BY <1>1 DEF Entries
<1>4. SettledWereAlerted'
  BY <1>1, <1>2 DEF AlertsInv, SettledWereAlerted, DoneWereAlerted
<1>5. EventsAreRows' /\ DoneWereAlerted'
  BY <1>1, <1>2, <1>3 DEF AlertsInv, EventsAreRows, DoneWereAlerted
<1>6. QED BY <1>1, <1>4, <1>5 DEF AlertsInv, CountersMatch

(* No event has two alerts in a context and an acknowledged one has exactly one in each,
   for any number of contexts, deliveries and crashes half way through them
   (alert_worker/main.py:136-183). *)
THEOREM AlertsAreUnique == HealthSpec => []OneAlertPerContext
<1>1. HealthInit => RowsInv /\ AlertsInv
  BY RowsInit, AlertsInit
<1>2. RowsInv /\ AlertsInv /\ [HealthNext]_healthVars => RowsInv' /\ AlertsInv'
  <2> SUFFICES ASSUME RowsInv, AlertsInv, [HealthNext]_healthVars PROVE RowsInv' /\ AlertsInv'
    OBVIOUS
  <2>1. RowsInv'
    BY RowsNext
  <2>2. CASE UNCHANGED <<watchdog, worker>>
    <3>1. UNCHANGED <<log, watch, published, settled, deliveries, dispatch, event, todo, alerts>>
      BY <2>2 DEF watchdog, worker
    <3>2. QED
      BY <2>1, <3>1 DEF AlertsInv, CountersMatch, EventsAreRows, SettledWereAlerted, DoneWereAlerted, Entries
  <2>3. CASE WatchdogStep \/ WatchdogCrash
    BY <2>1, <2>3, WatchdogKeepsAlerts
  <2>4. CASE AlertStep \/ DispatchCrash
    BY <2>1, <2>4, TakeKeepsAlerts, AlertKeepsAlerts, HandlerKeepsAlerts DEF AlertStep
  <2>5. UNCHANGED <<watchdog, worker>> \/ WatchdogStep \/ WatchdogCrash \/ AlertStep \/ DispatchCrash
    BY DEF HealthNext, healthVars, Outage, Return, Start, Restart, ServiceCrash, Stop, Expire, TickDies, Tick,
           BackendHeartbeat
  <2>6. QED BY <2>1, <2>2, <2>3, <2>4, <2>5
<1>3. AlertsInv => OneAlertPerContext
  <2> SUFFICES ASSUME AlertsInv, NEW i \in Entries, NEW c \in Contexts
               PROVE  alerts[i][c] <= 1 /\ (i \in settled => alerts[i][c] = 1)
    BY DEF OneAlertPerContext
  <2>1. alerts[i] \in [Contexts -> {0, 1}]
    BY ElementOfSeq DEF AlertsInv, CountersMatch, Entries
  <2>2. QED BY <2>1 DEF AlertsInv, SettledWereAlerted
<1>4. QED BY <1>1, <1>2, <1>3, PTL DEF HealthSpec
=============================================================================
