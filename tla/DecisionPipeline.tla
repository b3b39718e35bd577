-------------------------- MODULE DecisionPipeline --------------------------
(***************************************************************************)
(* From the analysis of a candle to an order command: strategy agent, risk *)
(* critic agent, risk engine and execution explanation agent, each one     *)
(* process that reads its stream through a consumer group.  Every stage    *)
(* looks whether its row exists, commits the row, then publishes; a crash  *)
(* or an exception leaves the message in the PEL and it is delivered       *)
(* again.  The group is used as ReliableQueue promises (EventBus is what   *)
(* it does); failures stay below the number of deliveries after which a    *)
(* message is dead-lettered.                                               *)
(*                                                                         *)
(* One strategy, several symbols.  The signal of an engine and the verdict *)
(* of the controls are left open here, but for the facts the other stages  *)
(* change; TradingRules says what they compute.                            *)
(***************************************************************************)
EXTENDS Naturals, FiniteSets

CONSTANTS
  Signals,            \* the signals the engine of the strategy gives
  Symbols,            \* symbols of the strategy
  Times,              \* timestamps of the candles
  MaxAnalyses,        \* bound on the analyses waiting in the stream
  MaxFailures         \* bound on crashes and exceptions

ASSUME PipelineAssumption == MaxFailures \in Nat /\ "HOLD" \in Signals /\ Signals \subseteq {"BUY", "SELL", "HOLD"}

Services == {"strategy", "critic", "engine", "explainer"}

(***************************************************************************)
(* A proposal is one row of strategy_runs.  "pending" says that its        *)
(* directional signal was held for want of option data; its window key is  *)
(* then another one than the candle's.                                     *)
(***************************************************************************)
Proposals ==
  {p \in [symbol : Symbols, time : Times, pending : BOOLEAN, signal : Signals] :
     p.pending => p.signal = "HOLD"}

Outcomes == {"APPROVED", "REQUIRES_APPROVAL", "REJECTED"}
Decisions == [proposal : Proposals, outcome : Outcomes]
Analyses == [time : Times, options : BOOLEAN]     \* evidence with or without option data

SameCandle(p, q) == p.symbol = q.symbol /\ p.time = q.time
SameWindow(p, q) == SameCandle(p, q) /\ p.pending = q.pending

VARIABLES
  analyses,           \* market.analysis.completed, not acknowledged yet
  proposed,           \* strategy.proposal.created, likewise
  critiqued,          \* risk.critique.completed
  validated,          \* risk.validation.completed: decisions
  commands,           \* how often the command of a proposal was published on order.commands
  runs,               \* rows: strategy_runs and PROPOSAL, one transaction
  critiques,          \* rows CRITIQUE: the proposals they are about
  decisions,          \* rows of risk_decisions
  explanations,       \* rows EXPLANATION: the decisions they are about
  open,               \* the strategy is ACTIVE and the kill switch is not engaged
  due,                \* next_evaluation_at has come
  at,                 \* where each service is in its handler
  message,            \* the message each service handles
  todo,               \* symbols the strategy agent has not looked at yet
  draft,              \* the proposal, or the decision, about to be committed or published
  failures,           \* crashes and exceptions so far
  lost                \* proposals whose row was committed and whose publication failed

inputs == <<analyses, proposed, critiqued, validated>>
rows == <<runs, critiques, decisions, explanations>>
world == <<open, due>>
local == <<at, message, todo, draft>>
history == <<commands, failures, lost>>
vars == <<inputs, rows, world, local, history>>

None == [none |-> TRUE]

TypeOK ==
  /\ analyses \subseteq Analyses
  /\ proposed \subseteq Proposals /\ critiqued \subseteq Proposals
  /\ runs \subseteq Proposals /\ critiques \subseteq Proposals /\ lost \subseteq Proposals
  /\ validated \subseteq Decisions /\ decisions \subseteq Decisions /\ explanations \subseteq Decisions
  /\ commands \in [Proposals -> Nat]
  /\ open \in BOOLEAN /\ due \in BOOLEAN
  /\ at \in [Services -> {"idle", "work", "commit", "publish", "command", "mark", "ack"}]
  /\ message \in [Services -> {None} \cup Analyses \cup Proposals \cup Decisions]
  /\ draft \in [Services -> {None} \cup Proposals \cup Decisions]
  /\ todo \subseteq Symbols
  /\ failures \in 0 .. MaxFailures

Init ==
  /\ analyses = {} /\ proposed = {} /\ critiqued = {} /\ validated = {}
  /\ runs = {} /\ critiques = {} /\ decisions = {} /\ explanations = {}
  /\ commands = [p \in Proposals |-> 0]
  /\ open = TRUE /\ due = TRUE
  /\ at = [s \in Services |-> "idle"]
  /\ message = [s \in Services |-> None]
  /\ draft = [s \in Services |-> None]
  /\ todo = {} /\ failures = 0 /\ lost = {}

Goto(s, label) == at' = [at EXCEPT ![s] = label]
Receive(s, m) == message' = [message EXCEPT ![s] = m]
Prepare(s, d) == draft' = [draft EXCEPT ![s] = d]

Handled(s, inbox) == inbox \ {message[s]}

(* The handler returned: XACK. *)
Ack(s) ==
  /\ at[s] = "ack"
  /\ Goto(s, "idle") /\ Receive(s, None) /\ Prepare(s, None)
  /\ analyses' = IF s = "strategy" THEN Handled(s, analyses) ELSE analyses
  /\ proposed' = IF s = "critic" THEN Handled(s, proposed) ELSE proposed
  /\ critiqued' = IF s = "engine" THEN Handled(s, critiqued) ELSE critiqued
  /\ validated' = IF s = "explainer" THEN Handled(s, validated) ELSE validated
  /\ UNCHANGED <<rows, world, todo, history>>

Directional(p) == p.signal # "HOLD"

(* What a failure between COMMIT and publication takes away for good. *)
Unpublished(s) ==
  CASE at[s] = "publish" /\ s \in {"strategy", "critic"} -> {draft[s]}
    [] at[s] = "publish" /\ s = "engine" -> {draft[s].proposal}
    [] at[s] \in {"publish", "command"} /\ s = "explainer" -> {draft[s].proposal}
    [] OTHER -> {}

(* A crash, or an exception that tick() answers with fail(): redelivered. *)
Fail(s) ==
  /\ at[s] # "idle" /\ failures < MaxFailures
  /\ failures' = failures + 1
  /\ lost' = lost \cup Unpublished(s)
  /\ Goto(s, "idle") /\ Receive(s, None) /\ Prepare(s, None)
  /\ UNCHANGED <<inputs, rows, world, todo, commands>>
-----------------------------------------------------------------------------
(* Around the pipeline: the market agent, the user, the clock. *)

Analyse(e) ==
  /\ Cardinality(analyses) < MaxAnalyses
  /\ analyses' = analyses \cup {e}
  /\ UNCHANGED <<proposed, critiqued, validated, rows, world, local, history>>

\* engage pauses the strategy with the switch; a user may pause or stop it alone.
OpenOrClose == open' = ~open /\ UNCHANGED <<inputs, rows, due, local, history>>
ComesDue == due' = TRUE /\ UNCHANGED <<inputs, rows, open, local, history>>
-----------------------------------------------------------------------------
(* Strategy agent. *)

\* An engaged switch, no active strategy, a cadence not due: the event is dropped.
StartAnalysis(e) ==
  /\ at["strategy"] = "idle" /\ e \in analyses
  /\ Receive("strategy", e)
  /\ IF ~open \/ ~due
     THEN Goto("strategy", "ack") /\ todo' = {}
     ELSE Goto("strategy", "work") /\ todo' = Symbols
  /\ UNCHANGED <<inputs, rows, world, draft, history>>

\* Too few bars, no usable timestamp, an engine that raises: the next symbol.
SkipSymbol(symbol) ==
  /\ at["strategy"] = "work" /\ symbol \in todo
  /\ todo' = todo \ {symbol}
  /\ UNCHANGED <<inputs, rows, world, at, message, draft, history>>

\* Without option data a directional signal is held, under a window key of its own.
ProposalFrom(symbol, time, signal, options) ==
  LET held == signal # "HOLD" /\ ~options
  IN  [symbol |-> symbol, time |-> time, pending |-> held, signal |-> IF held THEN "HOLD" ELSE signal]

Evaluate(symbol, signal) ==
  /\ at["strategy"] = "work" /\ symbol \in todo
  /\ todo' = todo \ {symbol}
  /\ LET e == message["strategy"]
     IN  Prepare("strategy", ProposalFrom(symbol, e.time, signal, e.options))
  /\ Goto("strategy", "commit")
  /\ UNCHANGED <<inputs, rows, world, message, history>>

\* INSERT ... ON CONFLICT (strategy_id, window_key) DO NOTHING, with the PROPOSAL row.
CommitProposal ==
  /\ at["strategy"] = "commit"
  /\ IF \E r \in runs : SameWindow(r, draft["strategy"])
     THEN Goto("strategy", "work") /\ UNCHANGED runs
     ELSE Goto("strategy", "publish") /\ runs' = runs \cup {draft["strategy"]}
  /\ UNCHANGED <<inputs, critiques, decisions, explanations, world, message, todo, draft, history>>

PublishProposal ==
  /\ at["strategy"] = "publish"
  /\ proposed' = proposed \cup {draft["strategy"]}
  /\ Goto("strategy", "work")
  /\ UNCHANGED <<analyses, critiqued, validated, rows, world, message, todo, draft, history>>

\* The next evaluation is scheduled if one took place and the strategy is still ACTIVE
\* (it may be, with the switch engaged).
MarkEvaluated ==
  /\ at["strategy"] = "work" /\ todo = {}
  /\ due' \in IF draft["strategy"] = None THEN {due} ELSE IF open THEN {FALSE} ELSE {due, FALSE}
  /\ Goto("strategy", "ack")
  /\ UNCHANGED <<inputs, rows, open, message, todo, draft, history>>
-----------------------------------------------------------------------------
(* Risk critic agent. *)

\* _already_critiqued: any proposal of the candle counts.
AlreadyCritiqued(p) == \E q \in critiques : SameCandle(p, q)

StartCritique(p) ==
  /\ at["critic"] = "idle" /\ p \in proposed
  /\ Receive("critic", p) /\ Prepare("critic", p)
  /\ Goto("critic", IF AlreadyCritiqued(p) THEN "ack" ELSE "commit")
  /\ UNCHANGED <<inputs, rows, world, todo, history>>

\* Whatever the provider answers, or does not, one CRITIQUE row is committed.
CommitCritique ==
  /\ at["critic"] = "commit"
  /\ critiques' = critiques \cup {draft["critic"]}
  /\ Goto("critic", "publish")
  /\ UNCHANGED <<inputs, runs, decisions, explanations, world, message, todo, draft, history>>

PublishCritique ==
  /\ at["critic"] = "publish"
  /\ critiqued' = critiqued \cup {draft["critic"]}
  /\ Goto("critic", "ack")
  /\ UNCHANGED <<analyses, proposed, validated, rows, world, message, todo, draft, history>>
-----------------------------------------------------------------------------
(* Risk engine. *)

Linked(p) == {c \in critiques : SameCandle(p, c)}

AlreadyDecided(c) == \E d \in decisions : d.proposal = c

\* A message without its CRITIQUE row is abandoned, a critique decided before ignored.
StartDecision(p) ==
  /\ at["engine"] = "idle" /\ p \in critiqued
  /\ Receive("engine", p)
  /\ \/ /\ Linked(p) = {} \/ \E c \in Linked(p) : AlreadyDecided(c)
        /\ Goto("engine", "ack") /\ UNCHANGED draft
     \/ \E c \in Linked(p) :
          /\ ~AlreadyDecided(c)
          /\ Prepare("engine", c) /\ Goto("engine", "work")
  /\ UNCHANGED <<inputs, rows, world, todo, history>>

\* The verdicts the controls leave open, given the facts other processes change
\* (the other facts may ask for a rejection or an approval at any time).
Verdicts(p) ==
  {"REJECTED"}
    \cup (IF ~open THEN {}
          ELSE {"REQUIRES_APPROVAL"} \cup (IF Directional(p) THEN {"APPROVED"} ELSE {}))

Decide ==
  /\ at["engine"] = "work"
  /\ \E outcome \in Verdicts(draft["engine"]) :
       Prepare("engine", [proposal |-> draft["engine"], outcome |-> outcome])
  /\ Goto("engine", "commit")
  /\ UNCHANGED <<inputs, rows, world, message, todo, history>>

\* Mistake: the decision is recorded and the message acknowledged, nothing published.
CommitDecisionSilently ==
  /\ at["engine"] = "commit"
  /\ decisions' = decisions \cup {draft["engine"]}
  /\ Goto("engine", "ack")
  /\ UNCHANGED <<inputs, runs, critiques, explanations, world, message, todo, draft, history>>

CommitDecision ==
  /\ at["engine"] = "commit"
  /\ decisions' = decisions \cup {draft["engine"]}
  /\ Goto("engine", "publish")
  /\ UNCHANGED <<inputs, runs, critiques, explanations, world, message, todo, draft, history>>

PublishDecision ==
  /\ at["engine"] = "publish"
  /\ validated' = validated \cup {draft["engine"]}
  /\ Goto("engine", "ack")
  /\ UNCHANGED <<analyses, proposed, critiqued, rows, world, message, todo, draft, history>>
-----------------------------------------------------------------------------
(* Execution explanation agent. *)

\* Mistake: a redelivered decision is explained again.
NeverExplained(d) == FALSE

AlreadyExplained(d) == d \in explanations

StartExplanation(d) ==
  /\ at["explainer"] = "idle" /\ d \in validated
  /\ Receive("explainer", d) /\ Prepare("explainer", d)
  /\ Goto("explainer", IF AlreadyExplained(d) \/ d.proposal \notin critiques THEN "ack" ELSE "commit")
  /\ UNCHANGED <<inputs, rows, world, todo, history>>

CommitExplanation ==
  /\ at["explainer"] = "commit"
  /\ explanations' = explanations \cup {draft["explainer"]}
  /\ Goto("explainer", "publish")
  /\ UNCHANGED <<inputs, runs, critiques, decisions, world, message, todo, draft, history>>

\* Mistake: an order that waits for an approval goes out.
OrdersUnlessRejected(d) == d.outcome # "REJECTED" /\ Directional(d.proposal)

\* order_command_published.
Orders(d) == d.outcome = "APPROVED" /\ Directional(d.proposal)

\* The agent message, in a transaction of its own, and agent.explanation.completed.
PublishExplanation ==
  /\ at["explainer"] = "publish"
  /\ Goto("explainer", IF Orders(draft["explainer"]) THEN "command" ELSE "ack")
  /\ UNCHANGED <<inputs, rows, world, message, todo, draft, history>>

PublishCommand ==
  /\ at["explainer"] = "command"
  /\ commands' = [commands EXCEPT ![draft["explainer"].proposal] = @ + 1]
  /\ Goto("explainer", "ack")
  /\ UNCHANGED <<inputs, rows, world, message, todo, draft, failures, lost>>
-----------------------------------------------------------------------------
StrategyStep ==
  \/ \E e \in Analyses : StartAnalysis(e)
  \/ \E symbol \in Symbols : SkipSymbol(symbol)
  \/ \E symbol \in Symbols, signal \in Signals : Evaluate(symbol, signal)
  \/ CommitProposal \/ PublishProposal \/ MarkEvaluated \/ Ack("strategy")

CriticStep ==
  \/ \E p \in Proposals : StartCritique(p)
  \/ CommitCritique \/ PublishCritique \/ Ack("critic")

EngineStep ==
  \/ \E p \in Proposals : StartDecision(p)
  \/ Decide \/ CommitDecision \/ PublishDecision \/ Ack("engine")

ExplainerStep ==
  \/ \E d \in Decisions : StartExplanation(d)
  \/ CommitExplanation \/ PublishExplanation \/ PublishCommand \/ Ack("explainer")

Environment ==
  \/ \E e \in Analyses : Analyse(e)
  \/ OpenOrClose \/ ComesDue
  \/ \E s \in Services : Fail(s)

Next == StrategyStep \/ CriticStep \/ EngineStep \/ ExplainerStep \/ Environment

Spec == Init /\ [][Next]_vars

\* run_service calls tick() in an endless loop, and the container is restarted.
FairSpec ==
  /\ Spec
  /\ WF_vars(StrategyStep) /\ WF_vars(CriticStep) /\ WF_vars(EngineStep) /\ WF_vars(ExplainerStep)
-----------------------------------------------------------------------------
\* Whatever is redelivered after whatever failure, and although the checks of every
\* stage are a SELECT before an INSERT: a candle gives at most one order command.
OneCommandPerCandle ==
  \A p, q \in Proposals : (SameCandle(p, q) /\ commands[p] > 0 /\ commands[q] > 0) => (p = q /\ commands[p] = 1)

\* A command has its whole trail in the database: a directional proposal, its
\* critique, a decision that approved it and the explanation.
CommandsAreBacked ==
  \A p \in Proposals : commands[p] > 0 =>
    /\ Directional(p) /\ p \in runs /\ p \in critiques
    /\ [proposal |-> p, outcome |-> "APPROVED"] \in decisions \cap explanations

Answered(p) ==
  \/ p \in lost
  \/ \E q \in critiques : q # p /\ SameCandle(p, q)
  \/ \E d \in explanations : d.proposal = p /\ (Orders(d) => commands[p] > 0)

\* A recorded proposal is explained, and ordered when it was approved, unless another
\* proposal of its candle was examined or a failure fell between a COMMIT and the
\* publication that follows it: nothing else loses it.
EveryProposalIsAnswered == \A p \in Proposals : (p \in runs) ~> Answered(p)

=============================================================================
