# Formal models of the ZikoSoft Trader AI pipeline

TLA+ specifications of the parts of this repository where concurrency, crashes,
lost answers and the arithmetic of a decision matter, the TLC configurations that
check them, and TLAPS proofs of their main properties.  Paths are relative to the root
of the repository.

## 1. The system

The program is a paper-trading assistant: a FastAPI backend, a chain of agents and
workers that talk through Redis streams, PostgreSQL for everything durable, Redis for
flags, counters and heartbeats, and Alpaca as the broker.  Every agent and worker is a
process that runs `tick()` in a loop (`agents/common/bootstrap.py`).

```
market agent -> market.analysis.completed -> strategy agent -> strategy.proposal.created
  -> risk critic agent -> risk.critique.completed -> risk engine -> risk.validation.completed
  -> execution explanation agent -> order.commands -> ORDER WORKER -> Alpaca
                                                        |  ^ trade_updates (WebSocket)
                                                        v  |
                                                    order.events -> backend, alert worker
watchdog -> system.events -> alert worker       backend (HTTP): kill switch, strategies, ...
```

### Components

| component | state | operations | talks to | what is hard | what makes it correct | modelled in |
|---|---|---|---|---|---|---|
| event bus (`shared/shared/eventbus.py`) | streams, consumer groups, PEL, dead-letter streams | publish, read, reclaim, ack, fail | every service | crash between handling and XACK, stale counters, trimming, undecodable entries | nothing lost, at-least-once | `EventBus` |
| service bootstrap (`agents/common/bootstrap.py`) | heartbeat key | loop of ticks, SIGTERM | all services, watchdog | a tick that raises, a process that dies | the loop goes on | `EventBus`, `ServiceHealth` |
| market agent (`agents/market_agent`, `agents/common/mcp_session.py`) | one MCP session manager per account, caches | gather evidence, publish | bus, MCP server, AI | sessions restarted on new credentials by another thread | one session per account, catching up with the credentials | `MarketFeed`, partly |
| strategy agent | `strategy_runs`, proposals | evaluate, attach an option, publish | bus, AI | one run per candle, the retry of the option discovery | one run per window, published after its commit | `DecisionPipeline`, `TradingRules` |
| strategy engines (`strategies/`) | none | signals | strategy agent | order of candles, bounds of a window | the signal of the definition | `StrategyEngines` |
| option selection (`shared/shared/options.py`) | none | choose a contract | strategy agent | ties and boundaries | the best eligible contract | `OptionSelection` |
| risk critic agent | critiques in `agent_decisions` | critique | bus, AI | deduplication that is a SELECT, keyed by candle | one critique per candle | `DecisionPipeline` |
| risk engine | `risk_decisions` | evaluate the controls, decide | bus | deduplication; a flag no other control may overrule | the worst finding decides; the AI's demand for a human is not lost | `DecisionPipeline`, `RiskControls` |
| execution explanation agent | explanations | explain, publish the order command | bus, AI, order worker | commit, then publish twice | one command per approved decision | `DecisionPipeline` |
| order worker (`workers/order_worker/main.py`) | `orders`, `order_events` | handle a command, sweep open orders | bus, Alpaca, kill switch | lost answers, retries, crossing with the listener, restart | no order without its row and its checks; no row that lies | `OrderWorker`, `OrderTracking` |
| trade updates listener | connection, thread | connect, receive, reconcile | Alpaca, `orders` | lost events, restart, a second thread on the same rows | fills arrive; a reconnection catches up | `OrderTracking`, one account |
| trading kill switch (`backend/app/kill_switch.py`) | Redis flag, `audit_events`, `strategies.status` | engage, disengage, history | order worker, lifecycle | Redis and PostgreSQL are two systems; concurrent operators | flag, audit trail and suspensions agree | `KillSwitch` |
| strategy lifecycle (`backend/app/strategy_instances.py`) | `strategies` | create, activate, pause, stop, delete, update, clone | kill switch, contexts | check-then-act under READ COMMITTED | limits hold up to the requests in flight | `KillSwitch`, `Contexts`, partly |
| execution contexts (`backend/app/context.py`) | `execution_contexts.is_active`, switches | select | lifecycle, bus | two flushes, a unique index, a crossing activation, rows dated by their start | one active context, told by the trail | `Contexts` |
| replay session (`backend/app/routers/replay.py`, `shared/shared/replay_*.py`, `scripts/fetch_replay_dataset.py`) | dataset on disk, position in Redis | build, load, advance, reset | execution contexts | two requests, a file rewritten meanwhile, Redis written before the COMMIT | no candle is skipped | `Contexts` |
| onboarding (`backend/app/onboarding.py`) | account, steps | connect, retry, restart | Alpaca | a failing step, overlapping requests | keys were accepted, steps in order | `Onboarding` |
| AI governance (`shared/shared/ai_*.py`, `backend/app/routers/ai_settings.py`) | settings, switch, key, counters of the day | read, call, edit | every service that calls the model | settings cached while they change | the daily cap holds, the switch works | `AiBudget` |
| watchdog | `service_health_events` | observe, record, publish | heartbeats, alert worker | TTL expiry, Redis being observed and used | transitions form a chain and converge | `ServiceHealth` |
| alert worker | `alerts` | incident, recovery | watchdog, Telegram | redelivery half way | one alert per incident and context | `ServiceHealth` |
| portfolio worker; sessions and login; read-only API; models, seed, startup | - | - | - | - | - | no (section 6) |
| frontend, infra, Alembic, translations | - | - | - | - | - | no (section 6) |

`PROJECT.json` lists the same components with their sources and, under `hazards`, every
place of this code where an order of events could go wrong, with the properties that
cover it or the reason why none does.

## 2. Modules

| module | models | state ↔ code | actions ↔ code |
|---|---|---|---|
| `ReliableQueue` | what a consumer group promises | sets of messages published, handled, dead-lettered, expired, settled | abstract: publish, handle, give up, settle |
| `EventBus` | `EventConsumer` and the tick around it | `id`, `lastId`, `trimmed`: the stream; `cursor`, `pel`, `deliveries`, `stale`: the group; `dead`: dead-letter stream; `pc`, `inbox`, `hand`: the generator a process is iterating | `Publish`, `StartRead`/`NextRead` (`read`), `StartReclaim`/`NextClaim` (`reclaim_stale`), `Ack`, `FailAndRetry`/`FailAndGiveUp` (`fail`), `HandlerReturns`/`HandlerRaises`, `Crash` |
| `OrderWorker` | the tick thread of the order worker | `status`, `pid`, `filledAt`: columns of `orders`; `queue`, `dead`: the command; `broker`: the order at Alpaca; `engaged`: the Redis flag; `account`: the connected accounts; `pc`, `hand`, `answer`, `todo`, `creds`: local variables; `deliveries`, `unread`: history | one action per database or HTTP call, in the order of the code: `CheckBlocks`, `InsertPending`, `PlaceAccepted`, `PlaceRejected`, `Record`, `RecordRefusal`, `Ack`, the sweep `Scan`, `SkipOrder`, `CancelAccepted`, ... |
| `OrderTracking` | the same with the listener thread | adds `link`, `wire`: the connection; `lpc`, `firstConnect`, `seen`, `listed`: locals of `_supervisor` and of the reconciliation; `missed`: history | `Connect`, `Receive`, `Apply`, `ListRows`, `Ask`, `Save`, `Drop`, `ProcessDies`; the actions of `OrderWorker` are reused |
| `KillSwitch` | kill switch and lifecycle as concurrent transactions | `status`: committed `strategies`; `flag`: Redis; `audit`: committed rows; `holder`: advisory lock; `request[c]`: a transaction; `gaps`: history, where a row was lost with its COMMIT | `AcquireLock`, `ReadFlag`, `SelectActive`, `Flush`, `SetFlag`, `Commit`, `Rollback`; `Load`, `CheckLimit`, `Insert`, `Write`, `DeletionBlocked` |
| `DecisionPipeline` | the four services between an analysis and an order command | `analyses`, `proposed`, `critiqued`, `validated`, `commands`: streams, with what is not acknowledged; `runs`, `critiques`, `decisions`, `explanations`: rows; `at`, `message`, `todo`, `draft`: where a service is; `open`, `due`: status of the strategy, its cadence | per stage: take a message, look for the row, commit, publish, acknowledge; `Environment`: analyses, the user, time, failures |
| `StrategyEngines` | `strategies/*/engine.py`, `_base/indicators.py`, building a proposal | functions of the candles | - |
| `OptionSelection` | `select_option_contract` and its filters | functions of a list of offers | - |
| `RiskControls` | `_evaluate_controls`, `_combine_outcome` | functions of the facts the queries return | - |
| `TradingRules` | one symbol through the three, from the candles to the verdict | `bars`, `proposal`, `option`, `facts`: what the processes hand on | `Candle` (the answer of the server), `EvaluateCrossover`/`EvaluateRsi`/`EvaluateAi`, `AttachOption`, `Decide` |
| `ServiceHealth` | heartbeats, watchdog, alert worker | `up`: Redis and PostgreSQL; `process`, `beat`, `started`: the services and their keys; `log`: `service_health_events`; `watch`, `cursor`, `known`, `finding`: the tick of the watchdog; `published`, `settled`, `dead`, `deliveries`: `system.events`; `dispatch`, `event`, `todo`: the alert worker; `alerts` | `Tick`, `TickDies`, `Restart`, `Expire`, `Stop`, `BackendHeartbeat`, `WatchdogStep`, `AlertStep`, outages and crashes |
| `AiBudget` | who may call the model, and the request that changes it | `enabled`, `row`: Redis settings; `calls`, `cost`: counters of the day; `cache`, `window`: provider and limiter per process and key; `put`, `draft`: the request in progress | `Configure` (settings read for a piece of work), `Reserve` (the script), `Send`; `Put`, `WriteSwitch`, `ReadSettings`, `WriteSettings`, `ReadForKey`, `WriteKey`; `Slide`, `NewDay` |
| `MarketFeed` | the tick of the market agent and the supervisor threads | `stored`: credentials; `manager`, `known`: `_managers`, `_managers_credentials`; `sup`: attributes of a manager, shared without a lock; `at`, `todo`, `current`, `options`, `stale`: the tick | one action per read or write of a shared attribute: `Cleanup`, `Retry`, `Publish`, ..., `Supervise` |
| `Contexts` | selection of a context, activation, replay session, dataset | `selected`, `running`, `switched`: committed rows; `file`, `writing`: `dataset.json`; `position`: Redis; `request[s]`: a transaction with its locks; `holder`, `served`, `missed`: history of the replay | `BeginSelect`, `Select`, `ReadStrategies`, `Leave`, `Enter`, `PassIndex`, `Commit`; `BeginActivate`; `Clear`, `Seek`, `Store`, `Answer`; `Regenerate`, `FinishWriting`, `AbandonWriting` |
| `Onboarding` | connect, retry, restart | `account`: committed rows; `request[s]`: the ORM objects of a transaction with the columns it changed and the rows it locked | `Connect`, `Restart`, `CompleteStep`, `FailStep`, `Finish`, `Commit`, `Rollback` |
| `*Proofs` | theorems about the module they are named after; `OrderWorkerProofs` also those of `OrderTracking`, `AccountProofs` those of `Onboarding` and `MarketFeed`, `OperationsProofs` those of `AiBudget` and `ServiceHealth` | | |
| `MC*` | model values and instances for TLC | | |

How they fit together: `EventBus` implements `ReliableQueue` (`AtLeastOnce`), and
`DecisionPipeline` uses its streams as `ReliableQueue` promises.  `OrderTracking`
implements `OrderWorker` (`ImplementsWorker`): in `OrderWorker` the listener may write any
true status at any time (`ListenerWrites`), and `OrderTracking` shows that the real
listener writes nothing else.  `TradingRules` composes engines, selection and controls;
what can go wrong between the processes that call them is `DecisionPipeline`, which
leaves the signal and the verdict open.  The flag that `KillSwitch` switches is the
`engaged` of `OrderWorker`, part of `open` in `DecisionPipeline` and a fact of
`RiskControls`, free to change at any time in all of them.

Each module also holds *mutants*, marked as such: operators that change one
definition the way a plausible programming error would (a missing guard, a swapped
order).  No specification uses them; replacing the definition by its mutant makes TLC
report the property that `PROJECT.json` names for it, which shows that the property is
sensitive to the code.

### Assumptions and abstractions

- *Alpaca* is external.  A submission with a known `client_order_id` yields the existing
  order, as the docstring of `workers/order_worker/main.py` (lines 32-39) says, or is refused,
  as `alpaca_trading_client.py` (lines 189-194) allows; it never creates a second order.  An
  order is `open`, `partial`, `cancelling`, `filled`, `rejected` (taken, then refused) or
  `canceled` (every other end); REST and the stream use their own names for these stages,
  as the code and its tests do.
- *Accounts*: in `OrderWorker` the account of a user may be connected, disconnected or become
  unreadable at any time (`ChangeAccount`); in `OrderTracking` it is usable throughout.
- *Order commands*: one per risk decision, so that the row, the idempotency key and the
  `client_order_id` (unique constraints of `backend/app/models/orders.py`) are all the
  index `d`.  What the worker tests of a command is a record of facts (`Fact`); sizes,
  symbols and bracket legs are left out.
- *Retries*: `EventBus` has the counter; `OrderWorker` lets `fail()` either keep the
  command or give it up; `DecisionPipeline` keeps failures below the number that
  dead-letters a message.  Faults, crashes, toggles and edits are bounded by constants
  whose names begin with `Max`.
- *Journal and announcements* of the order worker (`order_events`,
  `order.status.changed`) are control steps, where the process can die; their content is
  not state.
- One process per service (as `docker-compose.yml` deploys them), but for `EventBus`,
  which has two consumers; one account with fixed credentials in `OrderTracking`.
- *PostgreSQL* (`KillSwitch`, `Contexts`, `Onboarding`): READ COMMITTED; UPDATE and DELETE by
  primary key with the columns that changed, as SQLAlchemy emits them; a row updated
  and not committed makes other writers wait; a circular wait aborts one request.  In
  `KillSwitch` an UPDATE of a deleted row raises `StaleDataError` in the flush of
  `engage`.  Redis is not part of the transaction: what was written there stays when
  the COMMIT fails.  `get_current_user` updates the row of
  the session, which serialises the requests of one login; two logins interleave.
- *Numbers*: closes are small integers, money is in cents, deltas in hundredths; an
  average is kept as the sum of its window and fractions are compared by cross
  products, so that nothing is rounded.  What floating point does to a tie is not
  modelled.
- *Audit trail of contexts*: `switched_at` is `now()`, the start of the transaction.  A row has
  the number of its transaction in the order of starting (`began`), which is what the table
  knows, and how many had started when it committed (`ended`), which it does not.
- *Replay*: a dataset is its identifier and its candles; another export of the same day has
  the same identifier.
- *Time* passes by actions: a TTL expires (`Expire`) only when no heartbeat came, an
  analysis is due, a window slides, a day ends, an idle entry becomes stale.

## 3. Runs

| run | what it shows | bounds | distinct states |
|---|---|---|---|
| `EventBus` | no published entry disappears without having been handled, trimmed or dead-lettered (`NothingLost`); the group implements `ReliableQueue` (`AtLeastOnce`); every message is handled or given up in the end (`EventuallySettled`) | two processes, two messages, the handler of one of which may raise, batch of 2, 1 retry, stream kept to one entry so that trimming happens, 1 crash | 257,837 |
| `EventBusPoison` | *violation*: an entry that `_decode` rejects is redelivered for ever and never dead-lettered | one process | - |
| `OrderWorker` | only commands that passed every check become orders; the rows are true about ids and dates, and only the row of a command delivered again can be `rejected` while its order lives; a settled command left a row; the row is written before the order; every command is settled; the sweep of an engaged switch reaches every open order whose account can be used | one command of every shape and any account, 2 faults, 1 crash, 2 toggles, 1 change of the account, any true report of the stream | 434,329 |
| `OrderTrackingCrossing` | the two threads implement `OrderWorker`; no fill slips through between them (`EveryFillIsTracked`), and one that was not lost is dated in the end; a reconnection brings the rows of ended orders out of the non-terminal statuses, and nothing brings them back, unless the tick was about to write the row | one command, 1 fault, crash, toggle and lost connection, 3 events on the wire | 467,788 |
| `KillSwitchConcurrent` | flag and audit trail disagree only after a COMMIT that failed behind the Redis write, until the next switch; an audit row names strategies that were really suspended; limits are exceeded by at most the requests in flight; every request ends | two sessions, three strategies, at most 1 active and 2 saved, 4 requests, 1 failure anywhere | 261,084 |
| `TradingRules` | candles are put oldest first and the sliding sums are the sums of their windows; the option chosen is the best eligible one; a proposal of the AI is approved only if its flags were not all strings or `require_human_approval` was edited meanwhile | up to 5 candles (3 closes, one missing, one undated) in either order; lists of up to two of 13 offers, 3 prices of the underlying, answers of the AI whose flags are all strings or not, 13 sets of facts, 2 days | 170,707 |
| `DecisionPipeline` | at most one command for a candle; each command has critique, approved decision and explanation behind it; each recorded proposal is explained, and ordered if approved, unless another one of its candle was examined or a publication was lost | one symbol, one candle analysed again and again with and without options, 1 failure anywhere | 193,908 |
| `ServiceHealth` | the rows of a service form a chain; an incident alerts a context once; the watchdog ends up reporting HEALTHY what runs and not alive what stays stopped; no event is forgotten | one worker and the API, two contexts, 2 deliveries, every pair of `Pairs` of mishaps that interfere | 565,754 |
| `AiBudget` | no day costs more than the hard cap; once the switch is off the calls stop | two processes, one settings request of four kinds, budgets around the cap, 2 calls a day, 1 crash | 335,513 |
| `MarketFeed` | a session that nobody asked to stop is the one of its account's manager; one with old credentials has been told to reconnect; the sessions catch up with the credentials; the events of a connected account never cease | two accounts, two keys, two supervisors at once, 2 disturbances, each a change of an account or a failure | 860,696 |
| `Contexts` | exactly one context is active and a row of the audit trail names it, with no recorded switch that began after that one was over; a strategy runs on in a context left only if its activation overlapped the switch; no candle is skipped, but for those of a failed answer or of a file that takes over another's position; every request is answered | two logins; without a dataset 5 selections or activations and 2 failures; with one, 1 selection, 1 failure, any advances and resets, and the dataset fetched once again, from two symbols' exports with other prices, other minutes and each unsoundness | 391,399 |
| `Onboarding` | stored keys are keys Alpaca accepted; without overlapping requests the completed steps are a prefix, and a connected account was completed with the keys it stores | two logins, three pairs of keys, six steps, 5 requests | 1,637,204 |

The violation is recorded under `findings` of `PROJECT.json`.  The passing properties are
stated so that they hold of what the code does; where a text of the repository promises
more, the exception is a conjunct of the property and section 5 quotes the text.

*Why the bounds are enough.*  The hazards take two actors and one disturbance: two
consumers of an entry, two sessions, two threads on one row, an outage during a
report.  The bounds give each run that, and the mutants are found well below them.
`EventBus` trims with a stream of one entry and gives up after one retry; `MaxDeliveries` is
high enough for every message to be settled after the crash and the failures it may meet.  In
`KillSwitch`, three strategies can only exceed the limit of active ones by more than the
bound of `OvershootBounded`; its half about saved ones is proved.  In `AiBudget` the budgets
lie below, at and above the cap, and the price of a call may double between two calls.
`TradingRules` needs one candle more than the longer window (`LongPeriod` = 3) for a
crossing and one more for a value to leave the window twice; its offers and facts
differ from an acceptable one in one respect each, on either side of a bound.  In
`Contexts` a deadlock of two switches, and a switch that waits while two others come and go,
take four changes; with a dataset one selection makes the context REPLAY, and the number
of advances and resets is open, so that they cross each other, the fetch and the failure.
Which of the two is the case, and the bounds that go with it, is a member of `Scenarios`,
chosen once for all. In `MarketFeed` two disturbances are what it takes to disconnect an
account and connect it again beside its old supervisor, to change the keys twice, or to change
them and fail; each failure leads to a retry whose time is open. Symmetry is not used.
`CHECK_DEADLOCK FALSE` appears where the model stops because a bound on the requests, or the
one verdict of `TradingRules`, has been reached (those of `KillSwitch`, `Contexts`,
`Onboarding` and `TradingRules`), and nowhere else.

*Fairness.*
- `EventBus`: weak fairness of a process (`run_service` calls `tick` for ever and handlers
  have timeouts) and of the passing of time.
- `OrderWorker`: weak fairness of the tick thread, strong fairness of taking each waiting
  command, because every tick reads and then reclaims; nothing is assumed of Alpaca, of
  the operator or of the listener.  `OrderTracking`: weak fairness of the two threads (the
  supervisor reconnects for ever).
- `KillSwitch`: strong fairness of each request, because PostgreSQL grants advisory and
  row locks in the order of arrival; nobody has to send a request.
- `DecisionPipeline`: weak fairness of the steps of each service (the loop of
  `run_service`, and Docker restarts a container); nobody has to publish an analysis.
- `ServiceHealth`: weak fairness of the ticks, of restarts, of expiry when a service is
  silent, of the watchdog and of the alert worker; no store has to come back.
- `AiBudget`: weak fairness of a process and of a request under way.
- `MarketFeed`: weak fairness of the tick and of each supervisor, hence of the end of a
  connection attempt (its timeouts) and of a backoff.
- `Contexts`: weak fairness of each request; a deadlock is broken by PostgreSQL.
- `Onboarding` and `TradingRules` claim safety only.

## 4. Proofs

Checked by TLAPS, for every value of the constants that the named assumptions of the
module allow (`BusAssumption`, `WorkerAssumption`, `KillSwitchAssumption`,
`TrackingAssumption`, `PipelineAssumption`, `BudgetAssumption`, `HealthAssumption`,
`FeedAssumption`, `ContextsAssumption`, `OnboardingAssumption`, `TradingAssumption` and, for
`TradingRules`, those of the modules it composes).  They say that bounds are natural numbers
and that names of different kinds differ.  `HealthAssumption` takes the workers for a sequence
without repetition, as `ESSENTIAL_SERVICES` is (`shared/shared/watchdog.py:13`);
`EnginesAssumption` takes from `validate_parameters` that the short period and the lower
threshold of the RSI lie below the others; `TradingAssumption` gives the inputs their types.
`TrackingAssumption` also says that the stream is up, without which there is no listener.

Every invariant and every action property of the runs is stated by a theorem, and so are
both refinements; what remains to TLC is liveness.

- `EventBusProofs`: `TypeCorrect`, `BusInvariant`, `NothingIsLost`, `ImplementsAtLeastOnce`.
  `NothingLost` alone is not inductive: an acknowledgement preserves it only if the
  message in hand was handled or dead-lettered before.  `BusInv` adds what the hands know
  (`HandConsistent`) and that the group's cursor bounds what was delivered
  (`GroupConsistent`).  `BatchIsPrefix` says that a batch is a prefix of the unread entries,
  so that moving the cursor skips none.  The refinement maps every step to a step of
  `ReliableQueue` or to a stutter.
- `OrderWorkerProofs`: `TypeCorrect`, `OnlyVettedOrdersExist`, `RecordedFactsAreTrue`, `SettledCommandsLeaveATrace`, `RowsAreWrittenAhead`.  `WorkerInv` adds
  what the thread has established before each call: at `place`, a row exists, and it is
  `pending` if there is no order yet; at `record`, the answer about to be written is true;
  a row that is neither absent nor blocked belongs to a command that passed the checks;
  and before its POST a command on its first delivery has no order (`FirstDelivery`), so that
  a refusal can be wrong only of a command delivered again.
  For the two threads of `OrderTracking`: `ListenerImplementsWorker`, which maps every step of
  `TrackingSpec` to a step of `OrderWorker` or to a stutter, and `FillsAreTracked`.
  `TrackingInv` is `WorkerInv` and what the listener has heard: each event on the wire, in
  its hands or in an answer of REST is one the order at Alpaca has gone through
  (`WireHolds`, `SeenHolds`), and the rows it reconciles exist (`ListedExist`).  An order never
  goes back (`OneStageMoves`), so a true report stays true however late it is written,
  which is all that `ListenerWrites` asks (`SeenIsAllowed`).  So the invariants of the worker
  hold of the two threads (`RowsAreTrueForBothThreads`).
- `KillSwitchProofs`: `TypeCorrect`, `OneSwitchAtATime`, `FlagIsExplained`,
  `SwitchesTakeEffectOnce`, `AuditRowsAreTrue`, `LimitsAreNearlyKept`, all of them whatever fails.  `FlagIsExplained` and
  `SwitchesTakeEffectOnce` are about the rows that were committed and those lost with a
  COMMIT that failed after the Redis write (`gaps`).  The invariant says that only the holder of
  the advisory lock is past it (`Exclusion`) and how far flag and audit trail have diverged
  at each step of that request (`Phase`); `AuditRowsAreTrue` needs, instead, that rows
  updated and not committed still exist (`SelectedExist`).  `LimitsAreNearlyKept` counts
  the requests that have passed the test of their limit and not written yet together
  with the rows already written (`Crowded`): a test that passes sees a count below the
  limit, and all sessions together add at most one each.
- `DecisionPipelineProofs`: `PipelineInvariant`, `PipelineTypes`, `OneCommand`,
  `BackedCommands`, `ProposalsAreTracked`, `NoProposalVanishes`, for any symbols, candles and number of failures.  The checks of a stage
  are a SELECT before an INSERT, so the argument is a chain: a message refers to rows
  that exist (`Trail`), the rows of each stage are unique because its one process has
  looked before it commits (`Unique`), and the explainer publishes a command only between
  its own commit and its acknowledgement.  The last two are the safety half of
  `EveryProposalIsAnswered`: a recorded proposal has had its answer or a stage still owes it
  one, in its hands or in its stream (`Tracked`), so that none is left without when all is
  quiet.  Each stage may forget a message it finds done, hence the invariant relates
  neighbouring stages (`CriticFrom`, `EngineFrom`, `ExplainerFrom`): what a stage is about to
  publish the next one has not seen, and what a stage is about to acknowledge is on record.
- `TradingRulesProofs`: `ApprovedIsVetted` (what an APPROVED verdict implies, for any facts
  and limits), `AiKeepsAHumanInTheLoop`, `TheBestIsSelected` and `SlidingSumsAreWindows`.  An approved verdict has no finding at all,
  because every finding has one of the two tiers; and the flag of the AI strategy reaches
  the facts unchanged if all flags of the answer are strings (`FlagSurvives`).
  The other two are about what recursive functions compute, for lists of any length.
  `BestOf` is a scan that keeps the better of two offers; it returns one that no other
  precedes (`ScanFindsBest`) because the order of the offers is total and transitive
  (`BeforeIsAnOrder`), fractions compared by cross products included
  (`FractionsAreOrdered`).  `SlidingSumsAreWindows` says for candles in any order and for
  windows of any length that the averages and the RSI of the engines are those of the
  windows that end at the last candle.  A running sum, which adds the value that enters and
  subtracts the one that leaves, and the sum of a window are both a difference of two
  cumulative sums (`RunningSumIsADifference`, `WindowSumIsADifference`), and the losses are
  the gains of the mirrored values (`MirrorSwapsGainsAndLosses`).  The candles are in the
  order of time because an insertion keeps a sorted list sorted (`InsertionKeepsTheOrder`),
  and strictly so because no two dated candles have the same time (`BarsInv`).
  *Induction.*  The library states induction with an operator as parameter, which the
  installed provers cannot instantiate.  It is replaced by induction over a set of numbers:
  a non-empty set of naturals has a least element (`LeastElement`, from the
  well-foundedness of `NatOrder`), so a set that holds 0 and the successor of each of its
  elements holds all numbers up to a bound (`InductionUpTo`), and a function given by its first
  value and its steps exists (`RecursionExists`).
- `OperationsProofs`, on `AiBudget`: `BudgetTypes`, `CapHolds`, for any number of processes and of editing
  requests.  The reservation compares with the budget of the configuration its caller has cached, so
  the invariant is about the caches: each configuration in them went through the clamp
  (`CachesAreCapped`).
  On `ServiceHealth`: `RowsAreAChain` and `AlertsAreUnique`, for any workers, contexts, retries
  and mishaps.  The watchdog compares what it observes with the latest row it read at the
  beginning of the service's visit, and inserts in a later step; `RowsInv` adds that the rows of a
  service have a latest one (`LatestExists`) and that no other row of it can have appeared since
  the read, because there is one watchdog and it forgets everything when it dies
  (`TickIsFresh`).  An event is delivered again until it is acknowledged, and the worker
  commits alert by alert, so `AlertsInv` adds that the counters match the rows
  (`CountersMatch`), that each event stands for a row (`EventsAreRows`), and which
  contexts have their alert when an event is settled or the handler has passed them
  (`SettledWereAlerted`, `DoneWereAlerted`).
- `ContextsProofs`: `ContextTypes`, `SwitchesCommitAlone`, `TheTrailIsTrue`,
  `ReplayIsContiguous`, `OnlyRacesSurvive`, for any number of sessions.  A switch is two flushes and a COMMIT: the lock of the row it enters keeps away
  the switches to the same context (`EntersAlone`), the unique index those to another one;
  together they leave room for one transaction between the index and its COMMIT.  What the
  rows say of the order of switches rests on their dates: none began after its own end, or
  later than now (`Dated`).  For the replay the invariant adds that a request about to store a
  position continues from candles that are covered (`CoveredBelow`) and that the position
  carries the identifier of the file it stands for (`HeldById`); for the strategies, that a switch which has read
  them suspends whatever runs in the context it leaves, or an activation overlapped it
  (`Leaving`, `Exposing`, `Suspended`).
- `AccountProofs`, on `Onboarding`: `OnboardingTypes`, `StoredKeysWereAccepted`, `StepsInOrder`,
  `ConnectedWithOwnKeys`, for any number of sessions and any list of steps.  A COMMIT merges the columns
  of a request into a row another one has written since, so the invariant covers the rows
  and the copies requests work on.  The last two hold as long as no requests overlap: then a
  copy differs from its row only in the columns the request has changed (`Agrees`), COMMIT writes
  the copy itself, and the pipeline keeps the copy in order (`SoundRow`, `Sequential`).
  On `MarketFeed`: `FeedInvariant`, `SessionsAreOwned`, `RestartsAreNotMissed`, for any accounts,
  credentials and threads.  The tick and the supervisors share attributes without a lock, and
  every read or write of one is a step.  The invariant says that a manager in `_managers`
  has a thread that nobody told to stop (`ManagersRun`) and that the credentials such a thread
  works with are, or will be after the restart it is about to see, those the tick last gave it
  (`WantedIsGiven`, `OldSessionIsTold`): `restart` writes before it signals, the supervisor
  clears the signal before it reads.

*Only model-checked.*  Liveness, since fairness and ENABLED are out of the prover's reach:
both `EventuallySettled`, `SweepReachesOpenOrders`, `FillsArrive`, `ReconnectionCatchesUp`,
`RequestsComplete`, `EveryProposalIsAnswered`, `ReportsConverge`, `EventsAreSettled`,
`SwitchStopsCalls`, `FeedCatchesUp`, `FeedKeepsFlowing`, `RequestsAreAnswered`.  No module
declares a RECURSIVE operator: recursion is by recursive functions and folds.

## 5. Behaviours without a run of their own

These follow from the modelled actions: the models have the behaviour, and the
properties of section 3 are stated so that they hold with it.  Where a text of the
repository promises otherwise it is quoted.

*Orders.*
- `workers/order_worker/main.py:654-657` says that after an upstream error the next pass
  retries the `pending` row.  If the redelivered command meets a blocking status in the
  meantime (the kill switch, say), the `IntegrityError` of its own row (line 497) is taken
  for a duplicate, the command is acknowledged and the row stays `pending`.
- `partially_filled`, the word of REST, is not in `NON_TERMINAL_STATUSES` (lines 130-132,
  `partial_fill`): such an order leaves the sweep and the reconciliation.
- The two threads update one row without conditions (lines 659, 669): a fill the listener
  has written may be overwritten by the status the submission returned, and the sweep then
  sends a cancellation for a filled order, although lines 818-820 and
  `tests/test_order_worker.py:863` ("un ordre déjà terminal (fill) ne doit jamais déclencher
  d'appel Alpaca") exclude it.
- Lines 818-820 say that an order already `pending_cancel` does not come back in the sweep;
  `NON_TERMINAL_STATUSES` (line 131) holds `pending_cancel`, and its cancellation is
  requested again at every tick of an engaged switch.
- `trade_updates_listener.py:240-242` says that there is nothing to reconcile at the first
  connection; after a restart there may be.
- Lines 32-39 retry a `pending` row with the same `client_order_id` because "Alpaca documente que
  soumettre deux fois le même `client_order_id` renvoie l'ordre existant plutôt que de
  l'exécuter deux fois".  `alpaca_trading_client.py:189-194` takes every 403, 409 or 422 for a
  refusal, that of a duplicate included: after a lost answer the row is recorded `rejected`
  (`main.py:603-606`) while the order of the first submission lives.  `RecordedFactsHold` therefore
  lets a `rejected` row hide an order if its command was delivered more than once, and only then.
- Lines 898-902 say "Toute transition manquée pendant une coupure WebSocket est rattrapée
  ici via l'API REST (source de vérité), pour chaque ordre localement non-terminal de cet
  utilisateur".  The UPDATE of the sweep (line 873) is unconditional: when it follows the
  reconciliation that has written the end of the order, the row is `pending_cancel` again, no
  further event comes, and the transition stays lost.  `ReconnectionCatchesUp` exempts a row the
  tick is about to write when the reconnection finds it.
- A fill that is caught up so is caught up as `filled`, the word of REST, and only the `fill` of
  the stream sets `filled_at` (lines 226-232).
- A 401 on the retry of a submission whose answer was lost makes the row `error_auth`
  although Alpaca holds the order (line 630).  No later pass looks at such a row, nor at one
  left `rejected`.
- The sweep leaves an open order alone at every pass if its user has no connected account, or
  one whose credentials cannot be decrypted (lines 840-852): `SweepReachesOpenOrders` is about
  the others.
- With two consumers `fail()` may use a counter read before another consumer's delivery
  (`shared/shared/eventbus.py:139`): a message is dead-lettered early or retried longer.

*Kill switch and strategies.*
- `backend/app/kill_switch.py:29-32` says of a failure half way "l'état RESTE celui d'avant
  l'appel (jamais un état bâtard)", "jamais un flag Redis à `true` sans les stratégies
  réellement suspendues ni de ligne d'audit qui l'explique".  Redis is written at line 212 and
  the transaction commits later, in `get_db` (`backend/app/db.py:35`): a COMMIT that fails leaves
  the flag up without suspension and audit row.  The run has such failures; `FlagMatchesAudit`
  exempts the time from one of them to the next row, and nothing else.  For a
  disengagement the flag is down without a row; the operator who retries is told that nothing
  was to be done, since the no-op branch looks at the flag alone (lines 172-174 for an
  engagement).
- An activation that commits between the SELECT of `engage` (line 176) and its COMMIT
  survives the engagement.  Risk engine and order worker read the flag again.
- `history()` and `status_detail()` (line 159) sort by `created_at`, the start of the
  transaction, while the effects follow the advisory lock: a disengagement that began
  first and waited is listed below the engagement it undid.
- `backend/app/strategy_instances.py:353`: `_enforce_active_limit` counts under READ
  COMMITTED and writes later, so two activations that cross exceed the limit of the
  docstring (lines 6-15).  What holds is `OvershootBounded`.
- `delete_instance` ("refuse explicitement si `ACTIVE`", line 384) tests the row it loaded
  and deletes by primary key (line 396): a strategy activated in between is deleted.

*Decisions.*
- `agents/strategy_agent/main.py:577-583` allows "one enriched proposal for the same
  underlying candle" once an option can be quoted, under another window key; the critic
  deduplicates by candle (`agents/risk_critic_agent/main.py:224`), so the enriched proposal is
  dropped if the pending one was examined.  `EveryProposalIsAnswered` exempts it.
- Each stage commits, then publishes: a failure in between loses the message, since the
  redelivery finds the row and stops.
- The cooldown is kept per strategy: of two symbols of one candle the second is rejected.
- If `require_human_approval` is edited between the proposal and the verdict, the flag and
  the control of the risk engine look at a value each, and the proposal may be approved;
  `AiAsksForAHuman` exempts it, as it does the next point.
- `workers/order_worker/main.py:48-50` says "une décision `APPROVED` ne peut provenir QUE d'une
  stratégie déterministe (B15 impose `require_human_approval` à la stratégie IA, ce qui bloque
  toujours son passage en `APPROVED`)".  The provider hands on the answer of the model
  unchecked (`shared/shared/ai_provider.py:240-242`), `_valid_ai_output` does not look at
  `risk_flags` (`ai_market_agent_strategy/engine.py:59-67`, 146), and `_build_proposal` drops
  all flags, `requires_human_approval` among them, when one is not a string
  (`agents/strategy_agent/main.py:389-390`).  `TradingRules` has such answers.
- The days to expiration are counted when the option is chosen and again by the risk
  engine: a contract at the lower bound is rejected after midnight.
- A malformed contract in the evidence aborts the whole envelope.

*Market agent.*
- `_evidence_is_stale` looks at the newest of all timestamps: one fresh item, the clock
  among them, hides old data of the others.
- `agents/common/mcp_session.py:248-251` says that `restart()` "force une reconnexion immédiate
  (sans attendre le backoff)"; it sets an event that a supervisor asleep in its backoff (line
  325) does not look at.  Between the new credentials and the new session the calls use the
  old one.  `FeedCatchesUp` says that the new one comes, not when.
- An exception of Redis or PostgreSQL in the visit of one account ends the tick: faults that
  never cease would starve the accounts after it.  `FeedKeepsFlowing` is about two at most.
- `stop()` gives up joining after five seconds: the supervisor goes on until it looks.
- A session whose server dies silently stays HEALTHY until a call fails.

*Service health.*
- `agents/common/bootstrap.py:79` says that a failing tick must not kill the service.  The
  heartbeat of the `except` branch (line 81) raises when Redis is the reason, and the process
  ends; Docker restarts it.  The watchdog, which observes Redis, dies in the same way, so
  an outage of Redis is not recorded while it lasts.
- `agents/common/bootstrap.py:19-23` says "À l'arrêt propre (SIGTERM), un dernier heartbeat
  `STOPPED` est publié avant de sortir de la boucle — sans ça, un `docker compose
  down`/redéploiement volontaire serait indiscernable d'une vraie panne aux yeux du watchdog"
  (likewise `shared/shared/eventbus.py:180-182` and `backend/app/main.py:84-85`).  That heartbeat
  has the TTL of any other (`bootstrap.py:174`): it expires, the watchdog deduces DISCONNECTED
  (`workers/watchdog/main.py:91-94`), as of a failure, and publishes it as an incident.
  `ReportsConverge` says of a stopped service only that it is not reported alive.  And DEGRADED, STOPPED, HEALTHY gives no recovery.
- A transition is committed and then published: if Redis fails in between, nobody is
  alerted (`EventsAreSettled` is about published events).

*AI governance.*
- `backend/app/routers/ai_settings.py:84-87` ("a rejected payload cannot change the toggle"):
  a key that cannot be encrypted is answered with 503 after the switch was written.
- The switch is read once for a piece of work: calls of that piece go on.
- Concurrent requests overwrite each other's settings, and an edit of settings drops the
  stored key.

*Contexts and replay.*
- An activation that overlaps a switch keeps its strategy ACTIVE in the context left
  (`OnlyRacesKeepRunning` excludes nothing else).
- `context.switched` is published before the COMMIT (`backend/app/context.py:137-154`): the
  event of a switch that was rolled back announces what never was.
- Two switches that cross both write an audit row, although
  `backend/app/models/execution.py:37-43` counts "une ligne par changement effectif"; and
  lines 38-39 call the table "historique append-only des changements de contexte (audit +
  support de la « confirmation avant changement »)".  Its only order is `switched_at`, the start of
  the transaction (line 58), while switches take effect in the order of their COMMITs: if one
  from PAPER to REPLAY waits while another login selects REPLAY and then PAPER again, its row
  is dated before theirs, and the last row names PAPER while REPLAY is active.
  `AuditTellsTheContext` leaves the order of overlapping switches open.
- `advance` reads and writes Redis separately (`backend/app/routers/replay.py:128-151`): one
  of two steps is lost, and a step may overwrite a reset.
- The position is stored before the COMMIT and the answer (line 150): a request that fails in
  between has passed over a candle it did not send; a retry goes on with the next one, and only
  a GET before it would show the candle.
- `shared/shared/replay_market_data.py:282-286` says "un index provenant d'un dataset différent,
  ex. régénéré entre-temps, doit être rejeté par l'appelant AVANT d'appeler `seek`".  The
  caller compares the `dataset_id` (`backend/app/routers/replay.py:142`), which a second fetch of
  the same day keeps (`scripts/fetch_replay_dataset.py:159`): the old index is resumed in the
  new file, whose first candles are never sent, or `seek` raises until a reset when the
  file is shorter.  `NoCandleIsSkipped` counts those candles as missed.
- `save_dataset` rewrites the file in place (`shared/shared/replay_market_data.py:199-201`):
  meanwhile, and for good if the script dies, readers are told that there is no dataset.

*Onboarding.*
- No constraint makes the account of a user and provider unique: two first connections at
  once create two, and every later request fails with `MultipleResultsFound`
  (`backend/app/onboarding.py:73`).
- A restart that overlaps a connection or a retry leaves keys or COMPLETED steps behind it,
  since an UPDATE carries only the columns that changed in its own session; the docstring
  (lines 6-9) speaks of dependencies that are respected.  `CompletedIsPrefix` and `ConnectedIsCurrent`
  are therefore about requests that do not overlap.
- New keys given after the first step is COMPLETED are ignored without an error.

## 6. Not modelled

- *Order worker*: bracket legs, sizing and rounding, the symbol of an option; the listeners of
  several accounts, their replacement when credentials change (`stop()`/`start()`), the health
  record and the backoff.  The thread that outlives `stop()` is modelled for the MCP sessions
  (`MarketFeed`), which are built in the same way.
- *Strategy lifecycle*: update, clone, the limit of cumulative symbols (it is counted and
  checked like the other two), validation of parameters.
- *Market agent*: the MCP calls and their answers beyond age, order and missing fields; the
  limiter of calls per minute; the persistence of bars and quotes; the comment of the AI.
- *Strategy agent, critic, explanation*: several strategies in one envelope (they do not
  interact but for the cooldown above), texts, the fields of an order command.
- *Risk engine*: the queries that gather the facts; they are inputs.
- *Execution contexts*: creation of missing contexts, the DRY_RUN context, which no request
  selects.
- *Replay*: `GET /api/replay/session`, which repeats the candle of the position.
- *Onboarding*: what the synchronisation steps write, three steps that only report success.
- *Portfolio worker*: it copies numbers read from Alpaca into snapshots when the last one is
  old enough; only the buying power is read back, as an input of `RiskControls`.
- *Sessions, login, hashing, rate limit*: only the lock of the session's row is used.
- *Read-only API, models, seed, startup, frontend, infrastructure, migrations,
  translations*: queries, formatting and declarations without control of their own.  Of the
  two routes that write, the acknowledgement of an alert is one UPDATE; the
  synchronisation of assets deactivates everything outside the filter it was called with,
  so that a narrow filter deactivates assets another one had loaded.
- *Floats, wording, logs, layout* everywhere.
