----------------------- MODULE DecisionPipelineProofs -----------------------
(***************************************************************************)
(* For any symbols, candles and number of failures: a candle gives at most *)
(* one order command, and a command has its whole trail in the database.   *)
(*                                                                         *)
(* OneCommandPerCandle is not inductive.  It rests on a chain: the rows of *)
(* each stage are unique (one critique per candle, one decision per        *)
(* critique, one explanation per decision) because the one process of the  *)
(* stage has looked before it commits and nobody else writes that row; a   *)
(* message is in a stream only if its row is in the database; and the      *)
(* explainer publishes a command only between its own commit and its       *)
(* acknowledgement, so a redelivery finds the row and stops.               *)
(*                                                                         *)
(* At the end: no recorded proposal is forgotten on its way, whatever is   *)
(* redelivered and whatever fails.                                         *)
(***************************************************************************)
EXTENDS DecisionPipeline, TLAPS

\* Every message and row refers to rows that exist.
Trail ==
  /\ proposed \subseteq runs
  /\ critiques \subseteq runs /\ critiqued \subseteq critiques
  /\ \A d \in decisions : d.proposal \in critiques
  /\ validated \subseteq decisions /\ explanations \subseteq decisions

\* A decision that was approved is about a directional proposal.
Directed == \A d \in decisions : d.outcome = "APPROVED" => Directional(d.proposal)

\* The rows of each stage are unique.
Unique ==
  /\ \A p, q \in critiques : SameCandle(p, q) => p = q
  /\ \A d, e \in decisions : d.proposal = e.proposal => d = e

\* What a service has in hand between its look and its commit, or its publication.
StrategyHand ==
  /\ at["strategy"] \in {"work", "commit", "publish"} => message["strategy"] \in Analyses
  /\ at["strategy"] = "commit" => draft["strategy"] \in Proposals
  /\ at["strategy"] = "publish" => draft["strategy"] \in runs

CriticHand ==
  /\ at["critic"] = "commit" => draft["critic"] \in runs /\ ~AlreadyCritiqued(draft["critic"])
  /\ at["critic"] = "publish" => draft["critic"] \in critiques

EngineHand ==
  LET d == draft["engine"]
  IN  /\ at["engine"] = "work" => d \in critiques /\ ~AlreadyDecided(d)
      /\ at["engine"] = "commit" =>
           /\ d \in Decisions /\ d.proposal \in critiques /\ ~AlreadyDecided(d.proposal)
           /\ d.outcome = "APPROVED" => Directional(d.proposal)
      /\ at["engine"] = "publish" => d \in decisions

ExplainerHand ==
  LET d == draft["explainer"]
  IN  /\ at["explainer"] = "commit" => d \in decisions /\ d \notin explanations
      /\ at["explainer"] \in {"publish", "command"} => d \in explanations /\
           commands[d.proposal] = 0
      /\ at["explainer"] = "command" => Orders(d)

\* A command was published once, for an explained approval.
Commands ==
  \A p \in Proposals :
    /\ commands[p] \in {0, 1}
    /\ commands[p] = 1 => \E d \in explanations : d.proposal = p /\ Orders(d)

IInv ==
  /\ TypeOK
  /\ Trail /\ Directed /\ Unique
  /\ StrategyHand /\ CriticHand /\ EngineHand /\ ExplainerHand
  /\ Commands
-----------------------------------------------------------------------------
USE DEF Services, Goto, Receive, Prepare, inputs, rows, world, local, history

\* A failure takes away proposals only.
LEMMA UnpublishedAreProposals ==
  ASSUME IInv, NEW s \in Services PROVE Unpublished(s) \subseteq Proposals
<1>1. CASE s = "strategy"
  BY <1>1 DEF IInv, TypeOK, Unpublished, StrategyHand
<1>2. CASE s = "critic"
  BY <1>2 DEF IInv, TypeOK, Unpublished, CriticHand
<1>3. CASE s = "engine"
  BY <1>3 DEF IInv, TypeOK, Unpublished, EngineHand, Trail
<1>4. CASE s = "explainer"
  BY <1>4 DEF IInv, TypeOK, Unpublished, ExplainerHand, Trail
<1> QED
  BY <1>1, <1>2, <1>3, <1>4

\* A step of StrategyStep keeps the invariant.
LEMMA StrategyStepKeeps == ASSUME IInv, StrategyStep PROVE IInv'
<1>1. ASSUME NEW e \in Analyses, StartAnalysis(e) PROVE IInv'
  <2>1. TypeOK'
    BY <1>1 DEF IInv, StartAnalysis, TypeOK
  <2>2. StrategyHand'
    BY <1>1 DEF IInv, StartAnalysis, TypeOK, StrategyHand
  <2>3. Trail' /\ Directed' /\ Unique' /\ CriticHand' /\ EngineHand' /\ ExplainerHand' /\
       Commands'
    BY <1>1 DEF IInv, StartAnalysis, TypeOK, Trail, Directed, Unique, CriticHand, EngineHand,
         ExplainerHand, Commands, AlreadyCritiqued, AlreadyDecided
  <2> QED
    BY <2>1, <2>2, <2>3 DEF IInv
<1>2. ASSUME NEW x \in Symbols, SkipSymbol(x) PROVE IInv'
  <2>1. TypeOK'
    BY <1>2 DEF IInv, SkipSymbol, TypeOK
  <2>2. StrategyHand'
    BY <1>2 DEF IInv, SkipSymbol, TypeOK, StrategyHand
  <2>3. Trail' /\ Directed' /\ Unique' /\ CriticHand' /\ EngineHand' /\ ExplainerHand' /\
       Commands'
    BY <1>2 DEF IInv, SkipSymbol, TypeOK, Trail, Directed, Unique, CriticHand, EngineHand,
         ExplainerHand, Commands, AlreadyCritiqued, AlreadyDecided
  <2> QED
    BY <2>1, <2>2, <2>3 DEF IInv
<1>3. ASSUME NEW x \in Symbols, NEW signal \in Signals, Evaluate(x, signal) PROVE IInv'
  <2>1. TypeOK'
    BY <1>3, PipelineAssumption DEF IInv, Evaluate, TypeOK, StrategyHand, ProposalFrom,
         Proposals, Analyses
  <2>2. StrategyHand'
    BY <1>3, PipelineAssumption DEF IInv, Evaluate, TypeOK, StrategyHand, ProposalFrom,
         Proposals, Analyses
  <2>3. Trail' /\ Directed' /\ Unique' /\ CriticHand' /\ EngineHand' /\ ExplainerHand' /\
       Commands'
    BY <1>3 DEF IInv, Evaluate, TypeOK, Trail, Directed, Unique, CriticHand, EngineHand,
         ExplainerHand, Commands, AlreadyCritiqued, AlreadyDecided
  <2> QED
    BY <2>1, <2>2, <2>3 DEF IInv
<1>4. ASSUME CommitProposal PROVE IInv'
  <2>1. TypeOK'
    BY <1>4 DEF IInv, CommitProposal, TypeOK, StrategyHand, Trail
  <2>2. Trail'
    BY <1>4 DEF IInv, CommitProposal, TypeOK, Trail, StrategyHand
  <2>3. StrategyHand'
    BY <1>4 DEF IInv, CommitProposal, TypeOK, StrategyHand
  <2>4. CriticHand'
    BY <1>4 DEF IInv, CommitProposal, TypeOK, CriticHand, AlreadyCritiqued, StrategyHand, Trail
  <2>5. Directed' /\ Unique' /\ EngineHand' /\ ExplainerHand' /\ Commands'
    BY <1>4 DEF IInv, CommitProposal, TypeOK, Directed, Unique, EngineHand, ExplainerHand,
         Commands, AlreadyDecided
  <2> QED
    BY <2>1, <2>2, <2>3, <2>4, <2>5 DEF IInv
<1>5. ASSUME PublishProposal PROVE IInv'
  <2>1. TypeOK'
    BY <1>5 DEF IInv, PublishProposal, TypeOK, StrategyHand, Trail
  <2>2. Trail'
    BY <1>5 DEF IInv, PublishProposal, TypeOK, Trail, StrategyHand
  <2>3. StrategyHand'
    BY <1>5 DEF IInv, PublishProposal, TypeOK, StrategyHand
  <2>4. Directed' /\ Unique' /\ CriticHand' /\ EngineHand' /\ ExplainerHand' /\ Commands'
    BY <1>5 DEF IInv, PublishProposal, TypeOK, Directed, Unique, CriticHand, EngineHand,
         ExplainerHand, Commands, AlreadyCritiqued, AlreadyDecided
  <2> QED
    BY <2>1, <2>2, <2>3, <2>4 DEF IInv
<1>6. ASSUME MarkEvaluated PROVE IInv'
  <2>1. TypeOK'
    BY <1>6 DEF IInv, MarkEvaluated, TypeOK
  <2>2. StrategyHand'
    BY <1>6 DEF IInv, MarkEvaluated, TypeOK, StrategyHand
  <2>3. Trail' /\ Directed' /\ Unique' /\ CriticHand' /\ EngineHand' /\ ExplainerHand' /\
       Commands'
    BY <1>6 DEF IInv, MarkEvaluated, TypeOK, Trail, Directed, Unique, CriticHand, EngineHand,
         ExplainerHand, Commands, AlreadyCritiqued, AlreadyDecided
  <2> QED
    BY <2>1, <2>2, <2>3 DEF IInv
<1>7. ASSUME Ack("strategy") PROVE IInv'
  <2>1. TypeOK'
    BY <1>7 DEF IInv, Ack, TypeOK, Handled
  <2>2. Trail'
    BY <1>7 DEF IInv, Ack, TypeOK, Trail, Handled
  <2>3. StrategyHand'
    BY <1>7 DEF IInv, Ack, TypeOK, StrategyHand
  <2>4. Directed' /\ Unique' /\ CriticHand' /\ EngineHand' /\ ExplainerHand' /\ Commands'
    BY <1>7 DEF IInv, Ack, TypeOK, Directed, Unique, CriticHand, EngineHand, ExplainerHand,
         Commands, AlreadyCritiqued, AlreadyDecided
  <2> QED
    BY <2>1, <2>2, <2>3, <2>4 DEF IInv
<1> QED
  BY <1>1, <1>2, <1>3, <1>4, <1>5, <1>6, <1>7 DEF StrategyStep

\* A step of CriticStep keeps the invariant.
LEMMA CriticStepKeeps == ASSUME IInv, CriticStep PROVE IInv'
<1>1. ASSUME NEW p \in Proposals, StartCritique(p) PROVE IInv'
  <2>1. TypeOK'
    BY <1>1 DEF IInv, StartCritique, TypeOK
  <2>2. CriticHand'
    BY <1>1 DEF IInv, StartCritique, TypeOK, CriticHand, AlreadyCritiqued, Trail
  <2>3. Trail' /\ Directed' /\ Unique' /\ StrategyHand' /\ EngineHand' /\ ExplainerHand' /\
       Commands'
    BY <1>1 DEF IInv, StartCritique, TypeOK, Trail, Directed, Unique, StrategyHand,
         EngineHand, ExplainerHand, Commands, AlreadyDecided
  <2> QED
    BY <2>1, <2>2, <2>3 DEF IInv
<1>2. ASSUME CommitCritique PROVE IInv'
  <2>1. TypeOK'
    BY <1>2 DEF IInv, CommitCritique, TypeOK, CriticHand, Trail, AlreadyCritiqued, SameCandle
  <2>2. Trail'
    BY <1>2 DEF IInv, CommitCritique, TypeOK, Trail, CriticHand, AlreadyCritiqued, SameCandle
  <2>3. Unique'
    BY <1>2 DEF IInv, CommitCritique, TypeOK, Unique, CriticHand, Trail, AlreadyCritiqued,
         SameCandle
  <2>4. CriticHand'
    BY <1>2 DEF IInv, CommitCritique, TypeOK, CriticHand, AlreadyCritiqued, Trail, SameCandle
  <2>5. EngineHand'
    BY <1>2 DEF IInv, CommitCritique, TypeOK, EngineHand, AlreadyDecided, CriticHand, Trail,
         AlreadyCritiqued, SameCandle
  <2>6. Directed' /\ StrategyHand' /\ ExplainerHand' /\ Commands'
    BY <1>2 DEF IInv, CommitCritique, TypeOK, Directed, StrategyHand, ExplainerHand, Commands
  <2> QED
    BY <2>1, <2>2, <2>3, <2>4, <2>5, <2>6 DEF IInv
<1>3. ASSUME PublishCritique PROVE IInv'
  <2>1. TypeOK'
    BY <1>3 DEF IInv, PublishCritique, TypeOK, CriticHand, Trail
  <2>2. Trail'
    BY <1>3 DEF IInv, PublishCritique, TypeOK, Trail, CriticHand
  <2>3. CriticHand'
    BY <1>3 DEF IInv, PublishCritique, TypeOK, CriticHand, AlreadyCritiqued
  <2>4. Directed' /\ Unique' /\ StrategyHand' /\ EngineHand' /\ ExplainerHand' /\ Commands'
    BY <1>3 DEF IInv, PublishCritique, TypeOK, Directed, Unique, StrategyHand, EngineHand,
         ExplainerHand, Commands, AlreadyDecided
  <2> QED
    BY <2>1, <2>2, <2>3, <2>4 DEF IInv
<1>4. ASSUME Ack("critic") PROVE IInv'
  <2>1. TypeOK'
    BY <1>4 DEF IInv, Ack, TypeOK, Handled
  <2>2. Trail'
    BY <1>4 DEF IInv, Ack, TypeOK, Trail, Handled
  <2>3. CriticHand'
    BY <1>4 DEF IInv, Ack, TypeOK, CriticHand, AlreadyCritiqued
  <2>4. Directed' /\ Unique' /\ StrategyHand' /\ EngineHand' /\ ExplainerHand' /\ Commands'
    BY <1>4 DEF IInv, Ack, TypeOK, Directed, Unique, StrategyHand, EngineHand, ExplainerHand,
         Commands, AlreadyDecided
  <2> QED
    BY <2>1, <2>2, <2>3, <2>4 DEF IInv
<1> QED
  BY <1>1, <1>2, <1>3, <1>4 DEF CriticStep

\* A step of EngineStep keeps the invariant.
LEMMA EngineStepKeeps == ASSUME IInv, EngineStep PROVE IInv'
<1>1. ASSUME NEW p \in Proposals, StartDecision(p) PROVE IInv'
  <2>1. TypeOK'
    BY <1>1 DEF IInv, StartDecision, TypeOK, Trail, Linked, AlreadyDecided
  <2>2. EngineHand'
    BY <1>1 DEF IInv, StartDecision, TypeOK, EngineHand, AlreadyDecided, Trail, Linked
  <2>3. Trail' /\ Directed' /\ Unique' /\ StrategyHand' /\ CriticHand' /\ ExplainerHand' /\
       Commands'
    BY <1>1 DEF IInv, StartDecision, TypeOK, Trail, Directed, Unique, StrategyHand,
         CriticHand, ExplainerHand, Commands, AlreadyCritiqued
  <2> QED
    BY <2>1, <2>2, <2>3 DEF IInv
<1>2. ASSUME Decide PROVE IInv'
  <2>1. TypeOK'
    BY <1>2 DEF IInv, Decide, TypeOK, EngineHand, Verdicts, Decisions, Outcomes, Trail
  <2>2. EngineHand'
    BY <1>2 DEF IInv, Decide, TypeOK, EngineHand, AlreadyDecided, Verdicts, Decisions,
         Outcomes, Trail
  <2>3. Trail' /\ Directed' /\ Unique' /\ StrategyHand' /\ CriticHand' /\ ExplainerHand' /\
       Commands'
    BY <1>2 DEF IInv, Decide, TypeOK, Trail, Directed, Unique, StrategyHand, CriticHand,
         ExplainerHand, Commands, AlreadyCritiqued
  <2> QED
    BY <2>1, <2>2, <2>3 DEF IInv
<1>3. ASSUME CommitDecision PROVE IInv'
  <2>1. TypeOK'
    BY <1>3 DEF IInv, CommitDecision, TypeOK, EngineHand, AlreadyDecided, Trail
  <2>2. Trail'
    BY <1>3 DEF IInv, CommitDecision, TypeOK, Trail, EngineHand, AlreadyDecided
  <2>3. Directed'
    BY <1>3 DEF IInv, CommitDecision, TypeOK, Directed, EngineHand, AlreadyDecided, Trail
  <2>4. Unique'
    BY <1>3 DEF IInv, CommitDecision, TypeOK, Unique, EngineHand, AlreadyDecided, Trail
  <2>5. EngineHand'
    BY <1>3 DEF IInv, CommitDecision, TypeOK, EngineHand, AlreadyDecided, Trail
  <2>6. ExplainerHand'
    BY <1>3 DEF IInv, CommitDecision, TypeOK, ExplainerHand, EngineHand, AlreadyDecided, Trail
  <2>7. StrategyHand' /\ CriticHand' /\ Commands'
    BY <1>3 DEF IInv, CommitDecision, TypeOK, StrategyHand, CriticHand, Commands, AlreadyCritiqued
  <2> QED
    BY <2>1, <2>2, <2>3, <2>4, <2>5, <2>6, <2>7 DEF IInv
<1>4. ASSUME PublishDecision PROVE IInv'
  <2>1. TypeOK'
    BY <1>4 DEF IInv, PublishDecision, TypeOK, EngineHand
  <2>2. Trail'
    BY <1>4 DEF IInv, PublishDecision, TypeOK, Trail, EngineHand
  <2>3. EngineHand'
    BY <1>4 DEF IInv, PublishDecision, TypeOK, EngineHand, AlreadyDecided
  <2>4. Directed' /\ Unique' /\ StrategyHand' /\ CriticHand' /\ ExplainerHand' /\ Commands'
    BY <1>4 DEF IInv, PublishDecision, TypeOK, Directed, Unique, StrategyHand, CriticHand,
         ExplainerHand, Commands, AlreadyCritiqued
  <2> QED
    BY <2>1, <2>2, <2>3, <2>4 DEF IInv
<1>5. ASSUME Ack("engine") PROVE IInv'
  <2>1. TypeOK'
    BY <1>5 DEF IInv, Ack, TypeOK, Handled
  <2>2. Trail'
    BY <1>5 DEF IInv, Ack, TypeOK, Trail, Handled
  <2>3. EngineHand'
    BY <1>5 DEF IInv, Ack, TypeOK, EngineHand, AlreadyDecided
  <2>4. Directed' /\ Unique' /\ StrategyHand' /\ CriticHand' /\ ExplainerHand' /\ Commands'
    BY <1>5 DEF IInv, Ack, TypeOK, Directed, Unique, StrategyHand, CriticHand, ExplainerHand,
         Commands, AlreadyCritiqued
  <2> QED
    BY <2>1, <2>2, <2>3, <2>4 DEF IInv
<1> QED
  BY <1>1, <1>2, <1>3, <1>4, <1>5 DEF EngineStep

\* A step of ExplainerStep keeps the invariant.
LEMMA ExplainerStepKeeps == ASSUME IInv, ExplainerStep PROVE IInv'
<1>1. ASSUME NEW d \in Decisions, StartExplanation(d) PROVE IInv'
  <2>1. TypeOK'
    BY <1>1 DEF IInv, StartExplanation, TypeOK
  <2>2. ExplainerHand'
    BY <1>1 DEF IInv, StartExplanation, TypeOK, ExplainerHand, AlreadyExplained, Trail
  <2>3. Trail' /\ Directed' /\ Unique' /\ StrategyHand' /\ CriticHand' /\ EngineHand' /\ Commands'
    BY <1>1 DEF IInv, StartExplanation, TypeOK, Trail, Directed, Unique, StrategyHand,
         CriticHand, EngineHand, Commands, AlreadyCritiqued, AlreadyDecided
  <2> QED
    BY <2>1, <2>2, <2>3 DEF IInv
<1>2. ASSUME CommitExplanation PROVE IInv'
  <2>1. TypeOK'
    BY <1>2 DEF IInv, CommitExplanation, TypeOK, ExplainerHand, Trail, Unique, Commands, Decisions
  <2>2. Trail'
    BY <1>2 DEF IInv, CommitExplanation, TypeOK, Trail, ExplainerHand, Unique, Commands, Decisions
  <2>3. ExplainerHand'
    BY <1>2 DEF IInv, CommitExplanation, TypeOK, ExplainerHand, Trail, Unique, Commands, Decisions
  <2>4. Commands'
    BY <1>2 DEF IInv, CommitExplanation, TypeOK, Commands, ExplainerHand, Trail, Unique, Decisions
  <2>5. Directed' /\ Unique' /\ StrategyHand' /\ CriticHand' /\ EngineHand'
    BY <1>2 DEF IInv, CommitExplanation, TypeOK, Directed, Unique, StrategyHand, CriticHand,
         EngineHand, AlreadyCritiqued, AlreadyDecided
  <2> QED
    BY <2>1, <2>2, <2>3, <2>4, <2>5 DEF IInv
<1>3. ASSUME PublishExplanation PROVE IInv'
  <2>1. TypeOK'
    BY <1>3 DEF IInv, PublishExplanation, TypeOK
  <2>2. ExplainerHand'
    BY <1>3 DEF IInv, PublishExplanation, TypeOK, ExplainerHand
  <2>3. Trail' /\ Directed' /\ Unique' /\ StrategyHand' /\ CriticHand' /\ EngineHand' /\ Commands'
    BY <1>3 DEF IInv, PublishExplanation, TypeOK, Trail, Directed, Unique, StrategyHand,
         CriticHand, EngineHand, Commands, AlreadyCritiqued, AlreadyDecided
  <2> QED
    BY <2>1, <2>2, <2>3 DEF IInv
<1>4. ASSUME PublishCommand PROVE IInv'
  <2>1. TypeOK'
    BY <1>4 DEF IInv, PublishCommand, TypeOK, ExplainerHand, Trail, Decisions, Commands
  <2>2. ExplainerHand'
    BY <1>4 DEF IInv, PublishCommand, TypeOK, ExplainerHand
  <2>3. Commands'
    BY <1>4 DEF IInv, PublishCommand, TypeOK, Commands, ExplainerHand, Trail, Decisions
  <2>4. Trail' /\ Directed' /\ Unique' /\ StrategyHand' /\ CriticHand' /\ EngineHand'
    BY <1>4 DEF IInv, PublishCommand, TypeOK, Trail, Directed, Unique, StrategyHand,
         CriticHand, EngineHand, AlreadyCritiqued, AlreadyDecided
  <2> QED
    BY <2>1, <2>2, <2>3, <2>4 DEF IInv
<1>5. ASSUME Ack("explainer") PROVE IInv'
  <2>1. TypeOK'
    BY <1>5 DEF IInv, Ack, TypeOK, Handled
  <2>2. Trail'
    BY <1>5 DEF IInv, Ack, TypeOK, Trail, Handled
  <2>3. ExplainerHand'
    BY <1>5 DEF IInv, Ack, TypeOK, ExplainerHand
  <2>4. Directed' /\ Unique' /\ StrategyHand' /\ CriticHand' /\ EngineHand' /\ Commands'
    BY <1>5 DEF IInv, Ack, TypeOK, Directed, Unique, StrategyHand, CriticHand, EngineHand,
         Commands, AlreadyCritiqued, AlreadyDecided
  <2> QED
    BY <2>1, <2>2, <2>3, <2>4 DEF IInv
<1> QED
  BY <1>1, <1>2, <1>3, <1>4, <1>5 DEF ExplainerStep

\* A step of Environment keeps the invariant.
LEMMA EnvironmentKeeps == ASSUME IInv, Environment PROVE IInv'
<1>1. ASSUME NEW e \in Analyses, Analyse(e) PROVE IInv'
  <2>1. TypeOK'
    BY <1>1 DEF IInv, Analyse, TypeOK
  <2>2. Trail' /\ Directed' /\ Unique' /\ StrategyHand' /\ CriticHand' /\ EngineHand' /\
       ExplainerHand' /\ Commands'
    BY <1>1 DEF IInv, Analyse, TypeOK, Trail, Directed, Unique, StrategyHand, CriticHand,
         EngineHand, ExplainerHand, Commands, AlreadyCritiqued, AlreadyDecided
  <2> QED
    BY <2>1, <2>2 DEF IInv
<1>2. ASSUME OpenOrClose PROVE IInv'
  <2>1. TypeOK'
    BY <1>2 DEF IInv, OpenOrClose, TypeOK
  <2>2. Trail' /\ Directed' /\ Unique' /\ StrategyHand' /\ CriticHand' /\ EngineHand' /\
       ExplainerHand' /\ Commands'
    BY <1>2 DEF IInv, OpenOrClose, TypeOK, Trail, Directed, Unique, StrategyHand, CriticHand,
         EngineHand, ExplainerHand, Commands, AlreadyCritiqued, AlreadyDecided
  <2> QED
    BY <2>1, <2>2 DEF IInv
<1>3. ASSUME ComesDue PROVE IInv'
  <2>1. TypeOK'
    BY <1>3 DEF IInv, ComesDue, TypeOK
  <2>2. Trail' /\ Directed' /\ Unique' /\ StrategyHand' /\ CriticHand' /\ EngineHand' /\
       ExplainerHand' /\ Commands'
    BY <1>3 DEF IInv, ComesDue, TypeOK, Trail, Directed, Unique, StrategyHand, CriticHand,
         EngineHand, ExplainerHand, Commands, AlreadyCritiqued, AlreadyDecided
  <2> QED
    BY <2>1, <2>2 DEF IInv
<1>4. ASSUME NEW s \in Services, Fail(s) PROVE IInv'
  <2> DEFINE U == Unpublished(s)
  <2>0. lost' = lost \cup U /\ U \subseteq Proposals
    BY <1>4, UnpublishedAreProposals DEF Fail
  <2> HIDE DEF U
  <2>1. TypeOK'
    <3>1. lost' \subseteq Proposals /\ failures' \in 0 .. MaxFailures
      BY <1>4, <2>0, PipelineAssumption DEF IInv, TypeOK, Fail
    <3>2. /\ at' \in [Services -> {"idle", "work", "commit", "publish", "command", "mark", "ack"}]
          /\ message' \in [Services -> {None} \cup Analyses \cup Proposals \cup Decisions]
          /\ draft' \in [Services -> {None} \cup Proposals \cup Decisions]
      BY <1>4 DEF IInv, TypeOK, Fail
    <3> QED
      BY <1>4, <3>1, <3>2 DEF IInv, TypeOK, Fail
  <2>2. Trail' /\ Directed' /\ Unique' /\ StrategyHand' /\ CriticHand' /\ EngineHand' /\
       ExplainerHand' /\ Commands'
    BY <1>4 DEF IInv, Fail, TypeOK, Trail, Directed, Unique, StrategyHand, CriticHand,
         EngineHand, ExplainerHand, Commands, AlreadyCritiqued, AlreadyDecided
  <2> QED
    BY <2>1, <2>2 DEF IInv
<1> QED
  BY <1>1, <1>2, <1>3, <1>4 DEF Environment

\* The inductive invariant.
THEOREM PipelineInvariant == Spec => []IInv
<1>1. Init => IInv
  BY PipelineAssumption DEF Init, IInv, TypeOK, Trail, Directed, Unique, StrategyHand, CriticHand,
       EngineHand, ExplainerHand, Commands, None
<1>2. IInv /\ [Next]_vars => IInv'
  <2> SUFFICES ASSUME IInv, [Next]_vars PROVE IInv'
    OBVIOUS
  <2>1. CASE UNCHANGED vars
    BY <2>1 DEF IInv, vars, TypeOK, Trail, Directed, Unique, StrategyHand, CriticHand, EngineHand,
         ExplainerHand, Commands, AlreadyCritiqued, AlreadyDecided
  <2> QED
    BY <2>1, StrategyStepKeeps, CriticStepKeeps, EngineStepKeeps, ExplainerStepKeeps,
         EnvironmentKeeps
       DEF Next
<1> QED
  BY <1>1, <1>2, PTL DEF Spec

\* Every variable keeps its type, for any symbols, candles and bounds.
THEOREM PipelineTypes == Spec => []TypeOK
<1>1. IInv => TypeOK
  BY DEF IInv
<1> QED
  BY <1>1, PipelineInvariant, PTL

\* Redelivered, crashed or raced, a candle gives at most one order command: the
\* commands are about critiques, and a candle has one.
THEOREM OneCommand == Spec => []OneCommandPerCandle
<1>1. IInv => OneCommandPerCandle
  BY DEF IInv, Trail, Unique, Commands, OneCommandPerCandle
<1> QED
  BY <1>1, PipelineInvariant, PTL

\* No command without its directional proposal, critique, approval and explanation.
THEOREM BackedCommands == Spec => []CommandsAreBacked
<1>1. IInv => CommandsAreBacked
  <2> SUFFICES ASSUME IInv, NEW p \in Proposals, commands[p] > 0
               PROVE /\ Directional(p) /\ p \in runs /\ p \in critiques
                     /\ [proposal |-> p, outcome |-> "APPROVED"] \in decisions \cap explanations
    BY DEF CommandsAreBacked
  <2>1. PICK d \in explanations : d.proposal = p /\ Orders(d)
    BY DEF IInv, Commands
  <2>2. d = [proposal |-> p, outcome |-> "APPROVED"]
    BY <2>1 DEF IInv, TypeOK, Decisions, Orders
  <2> QED
    BY <2>1, <2>2 DEF IInv, Trail, Orders
<1> QED
  BY <1>1, PipelineInvariant, PTL

-----------------------------------------------------------------------------
(* Nothing is forgotten: what fairness drives to an answer is always there. *)

\* A recorded proposal is about to be published by the stage that committed its row, or
\* waits in the stream of a stage that has not recorded anything about it.
OnItsWay(p) ==
  \/ at["strategy"] = "publish" /\ draft["strategy"] = p
  \/ p \in proposed /\ ~AlreadyCritiqued(p)
  \/ at["critic"] = "publish" /\ draft["critic"] = p
  \/ p \in critiqued /\ ~AlreadyDecided(p)
  \/ at["engine"] = "publish" /\ draft["engine"].proposal = p
  \/ \E d \in validated \ explanations : d.proposal = p
  \/ at["explainer"] \in {"publish", "command"} /\ draft["explainer"].proposal = p

Tracked == \A p \in runs : Answered(p) \/ OnItsWay(p)

\* A message is not published before its turn: no later stage has it yet.
CriticFrom ==
  /\ at["strategy"] = "publish" => draft["strategy"] \notin proposed \cup critiques
  /\ at["critic"] = "commit" => draft["critic"] \in proposed
  /\ at["critic"] \in {"commit", "publish"} => message["critic"] = draft["critic"]
  /\ at["critic"] = "ack" => AlreadyCritiqued(message["critic"])

EngineFrom ==
  /\ at["critic"] = "publish" => draft["critic"] \notin critiqued /\ ~AlreadyDecided(draft["critic"])
  /\ at["engine"] = "work" => draft["engine"] \in critiqued /\ message["engine"] = draft["engine"]
  /\ at["engine"] = "commit" => draft["engine"].proposal \in critiqued
  /\ at["engine"] \in {"commit", "publish"} => message["engine"] = draft["engine"].proposal
  /\ at["engine"] = "ack" => AlreadyDecided(message["engine"])

ExplainerFrom ==
  /\ at["engine"] = "publish" => draft["engine"] \notin validated \cup explanations
  /\ at["explainer"] = "commit" => draft["explainer"] \in validated
  /\ at["explainer"] \in {"commit", "publish", "command"} => message["explainer"] = draft["explainer"]
  /\ at["explainer"] = "ack" => message["explainer"] \in explanations

Handover == CriticFrom /\ EngineFrom /\ ExplainerFrom

TrackInv == Tracked /\ Handover

\* The services wait and their streams are empty.
AtRest ==
  /\ \A s \in Services : at[s] = "idle"
  /\ proposed = {} /\ critiqued = {} /\ validated = {}

\* What a service has recorded or published stays, and so do answers.
LEMMA AnswersStay ==
  ASSUME IInv, [Next]_vars, NEW p \in runs, Answered(p)
  PROVE  Answered(p)'
<1>1. lost \subseteq lost' /\ critiques \subseteq critiques' /\ explanations \subseteq explanations'
  BY DEF vars, Next, StrategyStep, CriticStep, EngineStep, ExplainerStep, Environment,
       StartAnalysis, SkipSymbol, Evaluate, CommitProposal, PublishProposal, MarkEvaluated,
       StartCritique, CommitCritique, PublishCritique, StartDecision, Decide,
       CommitDecision, PublishDecision, StartExplanation, CommitExplanation,
       PublishExplanation, PublishCommand, Analyse, OpenOrClose, ComesDue, Fail, Ack
<1>2. commands' = commands \/ PublishCommand
  BY DEF vars, Next, StrategyStep, CriticStep, EngineStep, ExplainerStep, Environment,
       StartAnalysis, SkipSymbol, Evaluate, CommitProposal, PublishProposal, MarkEvaluated,
       StartCritique, CommitCritique, PublishCritique, StartDecision, Decide,
       CommitDecision, PublishDecision, StartExplanation, CommitExplanation,
       PublishExplanation, Analyse, OpenOrClose, ComesDue, Fail, Ack
<1>3. commands[p] > 0 => commands'[p] > 0
  BY <1>2 DEF IInv, TypeOK, PublishCommand
<1> QED BY <1>1, <1>2, <1>3 DEF Answered

\* A proposal is recorded in the step before it is published.
LEMMA RecordedIsOnItsWay ==
  ASSUME IInv, Next, NEW p \in runs' \ runs
  PROVE  OnItsWay(p)'
<1>1. CommitProposal
  BY DEF Next, StrategyStep, CriticStep, EngineStep, ExplainerStep, Environment,
       StartAnalysis, SkipSymbol, Evaluate, PublishProposal, MarkEvaluated, StartCritique,
       CommitCritique, PublishCritique, StartDecision, Decide, CommitDecision,
       PublishDecision, StartExplanation, CommitExplanation, PublishExplanation,
       PublishCommand, Analyse, OpenOrClose, ComesDue, Fail, Ack
<1> QED BY <1>1 DEF IInv, TypeOK, CommitProposal, OnItsWay

\* The strategy agent publishes what no later stage has seen.
LEMMA StrategyHandsToCritic ==
  ASSUME IInv, TrackInv, StrategyStep
  PROVE  CriticFrom'
<1>1. ASSUME NEW e \in Analyses, StartAnalysis(e) PROVE CriticFrom'
  BY <1>1 DEF StartAnalysis, IInv, TypeOK, TrackInv, Handover, CriticFrom, AlreadyCritiqued
<1>2. ASSUME NEW x \in Symbols, SkipSymbol(x) PROVE CriticFrom'
  BY <1>2 DEF SkipSymbol, TrackInv, Handover, CriticFrom, AlreadyCritiqued
<1>3. ASSUME NEW x \in Symbols, NEW signal \in Signals, Evaluate(x, signal) PROVE CriticFrom'
  BY <1>3 DEF Evaluate, TrackInv, Handover, CriticFrom, AlreadyCritiqued
<1>4. ASSUME CommitProposal PROVE CriticFrom'
  <2>1. SameWindow(draft["strategy"], draft["strategy"])
    BY DEF SameWindow, SameCandle
  <2>2. at'["strategy"] = "publish" => draft["strategy"] \notin runs /\ draft' = draft
    BY <1>4, <2>1 DEF CommitProposal, IInv, TypeOK
  <2> QED BY <1>4, <2>2
         DEF CommitProposal, IInv, TypeOK, Trail, TrackInv, Handover, CriticFrom,
         AlreadyCritiqued
<1>5. ASSUME PublishProposal PROVE CriticFrom'
  BY <1>5 DEF PublishProposal, IInv, TypeOK, TrackInv, Handover, CriticFrom, AlreadyCritiqued
<1>6. ASSUME MarkEvaluated PROVE CriticFrom'
  BY <1>6 DEF MarkEvaluated, TrackInv, Handover, CriticFrom, AlreadyCritiqued
<1>7. ASSUME Ack("strategy") PROVE CriticFrom'
  BY <1>7 DEF Ack, TrackInv, Handover, CriticFrom, AlreadyCritiqued
<1> QED BY <1>1, <1>2, <1>3, <1>4, <1>5, <1>6, <1>7 DEF StrategyStep

\* The critic leaves a message only when a proposal of its candle has a critique.
LEMMA CriticTakesFromStrategy ==
  ASSUME IInv, TrackInv, CriticStep
  PROVE  CriticFrom'
<1>1. ASSUME NEW m \in Proposals, StartCritique(m) PROVE CriticFrom'
  BY <1>1 DEF StartCritique, IInv, TypeOK, TrackInv, Handover, CriticFrom, AlreadyCritiqued
<1>2. ASSUME CommitCritique PROVE CriticFrom'
  BY <1>2 DEF CommitCritique, TrackInv, Handover, CriticFrom
<1>3. ASSUME PublishCritique PROVE CriticFrom'
  <2>1. SameCandle(draft["critic"], draft["critic"])
    BY DEF SameCandle
  <2>2. AlreadyCritiqued(message["critic"])
    BY <1>3, <2>1 DEF PublishCritique, IInv, CriticHand, TrackInv, Handover, CriticFrom,
         AlreadyCritiqued
  <2> QED BY <1>3, <2>2 DEF PublishCritique, TrackInv, Handover, CriticFrom, AlreadyCritiqued
<1>4. ASSUME Ack("critic") PROVE CriticFrom'
  BY <1>4 DEF Ack, Handled, IInv, TypeOK, TrackInv, Handover, CriticFrom
<1> QED BY <1>1, <1>2, <1>3, <1>4 DEF CriticStep

\* The other services do not touch what lies between these two.
LEMMA CriticFromKept ==
  ASSUME IInv, TrackInv, Next
  PROVE  CriticFrom'
<1>1. CASE EngineStep
  BY <1>1 DEF EngineStep, StartDecision, Decide, CommitDecision, PublishDecision, Ack, IInv,
       TypeOK, TrackInv, Handover, CriticFrom, AlreadyCritiqued
<1>2. CASE ExplainerStep
  BY <1>2 DEF ExplainerStep, StartExplanation, CommitExplanation, PublishExplanation,
       PublishCommand, Ack, IInv, TypeOK, TrackInv, Handover, CriticFrom, AlreadyCritiqued
<1>3. CASE Environment
  BY <1>3 DEF Environment, Analyse, OpenOrClose, ComesDue, Fail, IInv, TypeOK, TrackInv,
       Handover, CriticFrom, AlreadyCritiqued
<1> QED BY <1>1, <1>2, <1>3, StrategyHandsToCritic, CriticTakesFromStrategy DEF Next

\* The critic publishes what the engine has not seen.
LEMMA CriticHandsToEngine ==
  ASSUME IInv, TrackInv, CriticStep
  PROVE  EngineFrom'
<1>1. ASSUME NEW m \in Proposals, StartCritique(m) PROVE EngineFrom'
  BY <1>1 DEF StartCritique, TrackInv, Handover, EngineFrom, AlreadyDecided
<1>2. ASSUME CommitCritique PROVE EngineFrom'
  <2>1. draft["critic"] \notin critiques
    BY <1>2 DEF CommitCritique, IInv, CriticHand, AlreadyCritiqued, SameCandle
  <2> QED BY <1>2, <2>1
         DEF CommitCritique, IInv, Trail, TrackInv, Handover, EngineFrom, AlreadyDecided
<1>3. ASSUME PublishCritique PROVE EngineFrom'
  BY <1>3 DEF PublishCritique, IInv, TypeOK, TrackInv, Handover, EngineFrom, AlreadyDecided
<1>4. ASSUME Ack("critic") PROVE EngineFrom'
  BY <1>4 DEF Ack, TrackInv, Handover, EngineFrom, AlreadyDecided
<1> QED BY <1>1, <1>2, <1>3, <1>4 DEF CriticStep

\* The engine leaves a message only when its critique is decided.
LEMMA EngineTakesFromCritic ==
  ASSUME IInv, TrackInv, EngineStep
  PROVE  EngineFrom'
<1>1. ASSUME NEW m \in Proposals, StartDecision(m) PROVE EngineFrom'
  <2>1. m \in critiqued /\ Linked(m) = {m}
    BY <1>1 DEF StartDecision, IInv, Trail, Unique, Linked, SameCandle
  <2> QED BY <1>1, <2>1
         DEF StartDecision, IInv, TypeOK, TrackInv, Handover, EngineFrom, AlreadyDecided
<1>2. ASSUME Decide PROVE EngineFrom'
  BY <1>2 DEF Decide, IInv, TypeOK, TrackInv, Handover, EngineFrom, AlreadyDecided
<1>3. ASSUME CommitDecision PROVE EngineFrom'
  BY <1>3 DEF CommitDecision, TrackInv, Handover, EngineFrom, AlreadyDecided
<1>4. ASSUME PublishDecision PROVE EngineFrom'
  BY <1>4 DEF PublishDecision, IInv, EngineHand, TrackInv, Handover, EngineFrom, AlreadyDecided
<1>5. ASSUME Ack("engine") PROVE EngineFrom'
  BY <1>5 DEF Ack, Handled, IInv, TypeOK, TrackInv, Handover, EngineFrom, AlreadyDecided
<1> QED BY <1>1, <1>2, <1>3, <1>4, <1>5 DEF EngineStep

\* The other services do not touch what lies between these two.
LEMMA EngineFromKept ==
  ASSUME IInv, TrackInv, Next
  PROVE  EngineFrom'
<1>1. CASE StrategyStep
  <2>1. /\ UNCHANGED <<critiqued, critiques, decisions>>
        /\ \A s \in {"critic", "engine"} :
             at'[s] = at[s] /\ draft'[s] = draft[s] /\ message'[s] = message[s]
    BY <1>1 DEF StrategyStep, StartAnalysis, SkipSymbol, Evaluate, CommitProposal,
         PublishProposal, MarkEvaluated, Ack, IInv, TypeOK
  <2> QED BY <2>1 DEF TrackInv, Handover, EngineFrom, AlreadyDecided
<1>2. CASE ExplainerStep
  BY <1>2 DEF ExplainerStep, StartExplanation, CommitExplanation, PublishExplanation,
       PublishCommand, Ack, IInv, TypeOK, TrackInv, Handover, EngineFrom, AlreadyDecided
<1>3. CASE Environment
  BY <1>3 DEF Environment, Analyse, OpenOrClose, ComesDue, Fail, IInv, TypeOK, TrackInv,
       Handover, EngineFrom, AlreadyDecided
<1> QED BY <1>1, <1>2, <1>3, CriticHandsToEngine, EngineTakesFromCritic DEF Next

\* The engine publishes what the explainer has not seen.
LEMMA EngineHandsToExplainer ==
  ASSUME IInv, TrackInv, EngineStep
  PROVE  ExplainerFrom'
<1>1. ASSUME NEW m \in Proposals, StartDecision(m) PROVE ExplainerFrom'
  BY <1>1 DEF StartDecision, IInv, TypeOK, TrackInv, Handover, ExplainerFrom
<1>2. ASSUME Decide PROVE ExplainerFrom'
  BY <1>2 DEF Decide, TrackInv, Handover, ExplainerFrom
<1>3. ASSUME CommitDecision PROVE ExplainerFrom'
  BY <1>3 DEF CommitDecision, IInv, Trail, EngineHand, TrackInv, Handover, ExplainerFrom,
       AlreadyDecided
<1>4. ASSUME PublishDecision PROVE ExplainerFrom'
  BY <1>4 DEF PublishDecision, IInv, TypeOK, TrackInv, Handover, ExplainerFrom
<1>5. ASSUME Ack("engine") PROVE ExplainerFrom'
  BY <1>5 DEF Ack, TrackInv, Handover, ExplainerFrom
<1> QED BY <1>1, <1>2, <1>3, <1>4, <1>5 DEF EngineStep

\* The explainer leaves a message only when its decision is explained.
LEMMA ExplainerTakesFromEngine ==
  ASSUME IInv, TrackInv, ExplainerStep
  PROVE  ExplainerFrom'
<1>1. ASSUME NEW d \in Decisions, StartExplanation(d) PROVE ExplainerFrom'
  BY <1>1 DEF StartExplanation, IInv, TypeOK, Trail, TrackInv, Handover, ExplainerFrom,
       AlreadyExplained
<1>2. ASSUME CommitExplanation PROVE ExplainerFrom'
  BY <1>2 DEF CommitExplanation, TrackInv, Handover, ExplainerFrom
<1>3. ASSUME PublishExplanation PROVE ExplainerFrom'
  BY <1>3 DEF PublishExplanation, IInv, ExplainerHand, TrackInv, Handover, ExplainerFrom
<1>4. ASSUME PublishCommand PROVE ExplainerFrom'
  BY <1>4 DEF PublishCommand, IInv, ExplainerHand, TrackInv, Handover, ExplainerFrom
<1>5. ASSUME Ack("explainer") PROVE ExplainerFrom'
  BY <1>5 DEF Ack, Handled, IInv, TypeOK, TrackInv, Handover, ExplainerFrom
<1> QED BY <1>1, <1>2, <1>3, <1>4, <1>5 DEF ExplainerStep

\* The other services do not touch what lies between these two.
LEMMA ExplainerFromKept ==
  ASSUME IInv, TrackInv, Next
  PROVE  ExplainerFrom'
<1>1. CASE StrategyStep
  BY <1>1
       DEF StrategyStep, StartAnalysis, SkipSymbol, Evaluate, CommitProposal,
       PublishProposal, MarkEvaluated, Ack, Handled, IInv, TypeOK, TrackInv, Handover,
       ExplainerFrom
<1>2. CASE CriticStep
  BY <1>2 DEF CriticStep, StartCritique, CommitCritique, PublishCritique, Ack, IInv, TypeOK,
       TrackInv, Handover, ExplainerFrom
<1>3. CASE Environment
  BY <1>3 DEF Environment, Analyse, OpenOrClose, ComesDue, Fail, IInv, TypeOK, TrackInv,
       Handover, ExplainerFrom
<1> QED BY <1>1, <1>2, <1>3, EngineHandsToExplainer, ExplainerTakesFromEngine DEF Next

\* The strategy agent loses no proposal: it acknowledges analyses only.
LEMMA StrategyKeepsTrack ==
  ASSUME IInv, TrackInv, NEW p \in runs, OnItsWay(p), StrategyStep
  PROVE  (Answered(p) \/ OnItsWay(p))'
<1>1. ASSUME NEW e \in Analyses, StartAnalysis(e)
      PROVE  (Answered(p) \/ OnItsWay(p))'
  BY <1>1 DEF StartAnalysis, IInv, TypeOK, OnItsWay, AlreadyCritiqued, AlreadyDecided
<1>2. ASSUME NEW x \in Symbols, SkipSymbol(x)
      PROVE  (Answered(p) \/ OnItsWay(p))'
  BY <1>2 DEF SkipSymbol, OnItsWay, AlreadyCritiqued, AlreadyDecided
<1>3. ASSUME NEW x \in Symbols, NEW signal \in Signals, Evaluate(x, signal)
      PROVE  (Answered(p) \/ OnItsWay(p))'
  BY <1>3 DEF Evaluate, OnItsWay, AlreadyCritiqued, AlreadyDecided
<1>4. ASSUME CommitProposal
      PROVE  (Answered(p) \/ OnItsWay(p))'
  BY <1>4 DEF CommitProposal, IInv, TypeOK, OnItsWay, AlreadyCritiqued, AlreadyDecided
<1>5. ASSUME PublishProposal
      PROVE  (Answered(p) \/ OnItsWay(p))'
  BY <1>5 DEF PublishProposal, TrackInv, Handover, CriticFrom, Answered, OnItsWay,
       AlreadyCritiqued, AlreadyDecided
<1>6. ASSUME MarkEvaluated
      PROVE  (Answered(p) \/ OnItsWay(p))'
  BY <1>6 DEF MarkEvaluated, OnItsWay, AlreadyCritiqued, AlreadyDecided
<1>7. ASSUME Ack("strategy")
      PROVE  (Answered(p) \/ OnItsWay(p))'
  BY <1>7 DEF Ack, OnItsWay, AlreadyCritiqued, AlreadyDecided
<1> QED BY <1>1, <1>2, <1>3, <1>4, <1>5, <1>6, <1>7 DEF StrategyStep

\* The critic loses no proposal, nor does it by dropping one of a candle it has examined.
LEMMA CriticKeepsTrack ==
  ASSUME IInv, TrackInv, NEW p \in runs, OnItsWay(p), CriticStep
  PROVE  (Answered(p) \/ OnItsWay(p))'
<1>1. ASSUME NEW m \in Proposals, StartCritique(m)
      PROVE  (Answered(p) \/ OnItsWay(p))'
  BY <1>1 DEF StartCritique, OnItsWay, AlreadyCritiqued, AlreadyDecided
<1>2. ASSUME CommitCritique
      PROVE  (Answered(p) \/ OnItsWay(p))'
  BY <1>2
       DEF CommitCritique, IInv, TypeOK, Answered, OnItsWay, AlreadyCritiqued,
       AlreadyDecided
<1>3. ASSUME PublishCritique
      PROVE  (Answered(p) \/ OnItsWay(p))'
  BY <1>3 DEF PublishCritique, TrackInv, Handover, EngineFrom, OnItsWay, AlreadyCritiqued,
       AlreadyDecided
<1>4. ASSUME Ack("critic")
      PROVE  (Answered(p) \/ OnItsWay(p))'
  BY <1>4 DEF Ack, Handled, TrackInv, Handover, CriticFrom, OnItsWay, AlreadyCritiqued,
       AlreadyDecided
<1> QED BY <1>1, <1>2, <1>3, <1>4 DEF CriticStep

\* The engine loses no critique: each it drops is decided.
LEMMA EngineKeepsTrack ==
  ASSUME IInv, TrackInv, NEW p \in runs, OnItsWay(p), EngineStep
  PROVE  (Answered(p) \/ OnItsWay(p))'
<1>1. ASSUME NEW m \in Proposals, StartDecision(m)
      PROVE  (Answered(p) \/ OnItsWay(p))'
  BY <1>1 DEF StartDecision, IInv, TypeOK, OnItsWay, AlreadyCritiqued, AlreadyDecided
<1>2. ASSUME Decide
      PROVE  (Answered(p) \/ OnItsWay(p))'
  BY <1>2 DEF Decide, OnItsWay, AlreadyCritiqued, AlreadyDecided
<1>3. ASSUME CommitDecision
      PROVE  (Answered(p) \/ OnItsWay(p))'
  BY <1>3 DEF CommitDecision, IInv, TypeOK, OnItsWay, AlreadyCritiqued, AlreadyDecided
<1>4. ASSUME PublishDecision
      PROVE  (Answered(p) \/ OnItsWay(p))'
  BY <1>4 DEF PublishDecision, TrackInv, Handover, ExplainerFrom, OnItsWay, AlreadyCritiqued,
       AlreadyDecided
<1>5. ASSUME Ack("engine")
      PROVE  (Answered(p) \/ OnItsWay(p))'
  BY <1>5 DEF Ack, Handled, TrackInv, Handover, EngineFrom, OnItsWay, AlreadyCritiqued,
       AlreadyDecided
<1> QED BY <1>1, <1>2, <1>3, <1>4, <1>5 DEF EngineStep

\* The explainer loses no decision: each it drops is explained, and ordered if approved.
LEMMA ExplainerKeepsTrack ==
  ASSUME IInv, TrackInv, NEW p \in runs, OnItsWay(p), ExplainerStep
  PROVE  (Answered(p) \/ OnItsWay(p))'
<1>1. ASSUME NEW d \in Decisions, StartExplanation(d)
      PROVE  (Answered(p) \/ OnItsWay(p))'
  BY <1>1 DEF StartExplanation, OnItsWay, AlreadyCritiqued, AlreadyDecided
<1>2. ASSUME CommitExplanation
      PROVE  (Answered(p) \/ OnItsWay(p))'
  BY <1>2 DEF CommitExplanation, IInv, TypeOK, OnItsWay, AlreadyCritiqued, AlreadyDecided
<1>3. ASSUME PublishExplanation
      PROVE  (Answered(p) \/ OnItsWay(p))'
  BY <1>3 DEF PublishExplanation, IInv, ExplainerHand, Answered, OnItsWay, AlreadyCritiqued,
       AlreadyDecided
<1>4. ASSUME PublishCommand
      PROVE  (Answered(p) \/ OnItsWay(p))'
  BY <1>4
       DEF PublishCommand, IInv, TypeOK, ExplainerHand, Answered, OnItsWay,
       AlreadyCritiqued, AlreadyDecided
<1>5. ASSUME Ack("explainer")
      PROVE  (Answered(p) \/ OnItsWay(p))'
  BY <1>5 DEF Ack, Handled, TrackInv, Handover, ExplainerFrom, OnItsWay, AlreadyCritiqued,
       AlreadyDecided
<1> QED BY <1>1, <1>2, <1>3, <1>4, <1>5 DEF ExplainerStep

\* A failure loses what it interrupts between a COMMIT and its publication, and nothing else.
LEMMA EnvironmentKeepsTrack ==
  ASSUME IInv, TrackInv, NEW p \in runs, OnItsWay(p), Environment
  PROVE  (Answered(p) \/ OnItsWay(p))'
<1>1. ASSUME NEW e \in Analyses, Analyse(e)
      PROVE  (Answered(p) \/ OnItsWay(p))'
  BY <1>1 DEF Analyse, OnItsWay, AlreadyCritiqued, AlreadyDecided
<1>2. ASSUME OpenOrClose
      PROVE  (Answered(p) \/ OnItsWay(p))'
  BY <1>2 DEF OpenOrClose, OnItsWay, AlreadyCritiqued, AlreadyDecided
<1>3. ASSUME ComesDue
      PROVE  (Answered(p) \/ OnItsWay(p))'
  BY <1>3 DEF ComesDue, OnItsWay, AlreadyCritiqued, AlreadyDecided
<1>4. ASSUME NEW s \in Services, Fail(s)
      PROVE  (Answered(p) \/ OnItsWay(p))'
  BY <1>4 DEF Fail, Unpublished, Answered, OnItsWay, AlreadyCritiqued, AlreadyDecided
<1> QED BY <1>1, <1>2, <1>3, <1>4 DEF Environment

\* The stages hand on what they have recorded, and forget nothing of it.
LEMMA TrackKept == IInv /\ TrackInv /\ [Next]_vars => TrackInv'
<1> SUFFICES ASSUME IInv, TrackInv, [Next]_vars PROVE TrackInv'
  OBVIOUS
<1>1. CASE UNCHANGED vars
  BY <1>1
       DEF vars, TrackInv, Tracked, Handover, CriticFrom, EngineFrom, ExplainerFrom,
       Answered,
       OnItsWay, AlreadyCritiqued, AlreadyDecided
<1>2. CASE Next
  <2>1. Handover'
    BY <1>2, CriticFromKept, EngineFromKept, ExplainerFromKept DEF Handover
  <2>2. ASSUME NEW p \in runs'
        PROVE  (Answered(p) \/ OnItsWay(p))'
    <3>1. CASE p \notin runs
      BY <1>2, <2>2, <3>1, RecordedIsOnItsWay
    <3>2. CASE p \in runs /\ Answered(p)
      BY <3>2, AnswersStay
    <3>3. CASE p \in runs /\ OnItsWay(p)
      BY <1>2, <3>3, StrategyKeepsTrack, CriticKeepsTrack, EngineKeepsTrack, ExplainerKeepsTrack,
         EnvironmentKeepsTrack DEF Next
    <3> QED BY <3>1, <3>2, <3>3 DEF TrackInv, Tracked
  <2> QED BY <2>1, <2>2 DEF TrackInv, Tracked
<1> QED BY <1>1, <1>2

\* Whatever is redelivered or fails, and wherever: a recorded proposal has had its answer,
\* or a stage still owes it (the safety half of EveryProposalIsAnswered).
THEOREM ProposalsAreTracked == Spec => []Tracked
<1>1. Init => TrackInv
  BY DEF Init, TrackInv, Tracked, Handover, CriticFrom, EngineFrom, ExplainerFrom
<1>2. TrackInv => Tracked
  BY DEF TrackInv
<1> QED
  BY <1>1, <1>2, TrackKept, PipelineInvariant, PTL DEF Spec

\* With the services idle and their streams empty, no recorded proposal is left without
\* the answer that EveryProposalIsAnswered promises.
THEOREM NoProposalVanishes == Spec => [](AtRest => \A p \in runs : Answered(p))
<1>1. Tracked /\ AtRest => \A p \in runs : Answered(p)
  BY DEF Tracked, AtRest, OnItsWay
<1> QED
  BY <1>1, ProposalsAreTracked, PTL
=============================================================================
