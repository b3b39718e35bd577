---------------------------- MODULE TradingRules ----------------------------
(***************************************************************************)
(* One symbol of one strategy, from its candles to the verdict of the risk *)
(* engine: the engine's signal, the proposal built from it, the option     *)
(* attached by the strategy agent, the controls of the risk engine.  The   *)
(* three steps run in three processes, possibly on different days.  What   *)
(* can go wrong on the way between them is the subject of DecisionPipeline;*)
(* here it is what they compute.                                           *)
(***************************************************************************)
EXTENDS RiskControls, StrategyEngines, FiniteSets

CONSTANTS
  Candles,       \* the candles the server may answer with: dated or not, their close
  MaxBars,       \* how many candles an answer holds
  Answers,       \* the answers of the AI provider
  OfferLists,    \* the lists of contracts and quotes in the evidence
  Prices,        \* the prices of the underlying
  Facts,         \* the facts of the controls that do not come from the proposal
  Days           \* days the verdict may come after the selection

ASSUME TradingAssumption ==
  /\ \A a \in Answers : a.kind \in {"none", "invalid", "valid"}
  /\ \A f \in Facts : FactNames \subseteq DOMAIN f
  /\ \A list \in OfferLists : list \in Seq(Offers)
  /\ Prices \subseteq Int
  /\ Candles \subseteq [dated : BOOLEAN, close : Nat] /\ MaxBars \in Nat

VARIABLES
  stage,         \* "candles", "proposed", "attached", "decided"
  bars,          \* the candles as the server sends them, in any order
  ai,            \* the strategy is the AI one
  humanApproval, \* require_human_approval, as the engine saw it
  typed,         \* history: the flags the engine gave are all strings
  proposal,      \* signal, confidence and flags
  offers,        \* the list the option was chosen from
  price,         \* the price of the underlying it was chosen at
  option,        \* option_instrument of the proposal
  facts          \* what the controls read

vars == <<stage, bars, ai, humanApproval, typed, proposal, offers, price, option, facts>>

Undated == 0
NoClose == 0

NoProposal == [signal |-> "HOLD", confidence |-> 0, flags |-> {}]
NoFacts == [switch |-> FALSE]

Init ==
  /\ stage = "candles" /\ bars = <<>>
  /\ ai = FALSE /\ humanApproval = FALSE /\ typed = TRUE /\ proposal = NoProposal
  /\ offers = <<>> /\ price = 0 /\ option = NoInstrument
  /\ facts = NoFacts

\* One more candle in the answer; no two dated ones are of the same time.
Candle ==
  /\ stage = "candles" /\ Len(bars) < MaxBars
  /\ \E c \in Candles :
       LET bar == [at |-> IF c.dated THEN Len(bars) + 1 ELSE Undated, close |-> c.close]
       IN  bars' \in {Append(bars, bar), <<bar>> \o bars}
  /\ UNCHANGED <<stage, ai, humanApproval, typed, proposal, offers, price, option, facts>>

\* Behind the candles of its time or before.
InsertByTime(sorted, bar) ==
  LET place == CHOOSE k \in 0 .. Len(sorted) :
                 /\ \A i \in 1 .. k : sorted[i].at <= bar.at
                 /\ \A i \in k + 1 .. Len(sorted) : sorted[i].at > bar.at
  IN  SubSeq(sorted, 1, place) \o <<bar>> \o SubSeq(sorted, place + 1, Len(sorted))

\* _normalize_bars of the market agent: candles without a close are dropped, the
\* others sorted by time, those without a time first.
NormalizeBars(raw) ==
  LET sorted[i \in 0 .. Len(raw)] ==
        IF i = 0 THEN <<>>
        ELSE IF raw[i].close = NoClose THEN sorted[i - 1] ELSE InsertByTime(sorted[i - 1], raw[i])
  IN  sorted[Len(raw)]

ClosesOf(series) == [i \in DOMAIN series |-> series[i].close]

\* The strategy agent skips a symbol with fewer candles, or with an undated last one.
Usable(series) == Len(series) >= 2 /\ series[Len(series)].at # Undated

Propose(isAi, asked, output) ==
  /\ stage = "candles" /\ Usable(NormalizeBars(bars))
  /\ stage' = "proposed" /\ bars' = <<>>
  /\ ai' = isAi /\ humanApproval' = asked /\ typed' = output.wellTyped
  /\ proposal' = BuildProposal(output)
  /\ UNCHANGED <<offers, price, option, facts>>

EvaluateCrossover ==
  Propose(FALSE, FALSE, DeterministicOutput(CrossoverSignal(ClosesOf(NormalizeBars(bars)))))

EvaluateRsi ==
  Propose(FALSE, FALSE, DeterministicOutput(RsiSignal(ClosesOf(NormalizeBars(bars)))))

EvaluateAi ==
  \E answer \in Answers, asked \in BOOLEAN : Propose(TRUE, asked, AiOutput(answer, asked))

Held(p, flag) == [signal |-> "HOLD", confidence |-> 0, flags |-> p.flags \cup {flag}]

\* Some contract and some quote were understood, of the same offer or not.
Discovered(list) ==
  /\ \E i \in DOMAIN list : IsContract(list[i])
  /\ \E i \in DOMAIN list : HasQuote(list[i])

\* _attach_option_instrument: without an option a directional signal becomes HOLD.
AttachOption ==
  /\ stage = "proposed" /\ stage' = "attached"
  /\ IF proposal.signal = "HOLD"
     THEN UNCHANGED <<proposal, offers, price, option>>
     ELSE \E list \in OfferLists, p \in Prices :
            LET chosen == SelectOption(proposal.signal, p, list, 0)
            IN  /\ offers' = list /\ price' = p
                /\ option' = chosen
                /\ proposal' = CASE ~Discovered(list) \/ p <= 0 -> Held(proposal, "options_unavailable")
                                 [] chosen = NoInstrument -> Held(proposal, "option_selection_failed")
                                 [] OTHER -> proposal
  /\ UNCHANGED <<bars, ai, humanApproval, typed, facts>>

\* _process_envelope of the risk engine, `day` days after the selection; the user may
\* have edited the parameters since the engine read them.
Decide ==
  /\ stage = "attached" /\ stage' = "decided"
  /\ \E f \in Facts, day \in Days :
       facts' = [f EXCEPT !.ai = ai, !.flagged = "requires_human_approval" \in proposal.flags,
                          !.signal = proposal.signal, !.option = option, !.today = day]
  /\ UNCHANGED <<bars, ai, humanApproval, typed, proposal, offers, price, option>>

Next == Candle \/ EvaluateCrossover \/ EvaluateRsi \/ EvaluateAi \/ AttachOption \/ Decide

Spec == Init /\ [][Next]_vars
-----------------------------------------------------------------------------
WindowSum(values, period, i) ==
  LET f[j \in i - period .. i] == IF j = i - period THEN 0 ELSE f[j - 1] + values[j] IN f[i]

\* The crossing as the strategy's description has it: the short average was not
\* above the long one a candle ago and is now (strategies/moving_average_crossover).
CrossesUp(values) ==
  LET n == Len(values)
      Above(i) == WindowSum(values, ShortPeriod, i) * LongPeriod > WindowSum(values, LongPeriod, i) * ShortPeriod
  IN  n > LongPeriod /\ ~Above(n - 1) /\ Above(n)

\* The share of the gains in the moves of the last RsiPeriod candles, in per cent.
RsiAtMost(values, threshold) ==
  LET n == Len(values)
      gains == WindowSum([i \in 1 .. n |-> Gain(values, i)], RsiPeriod, n)
      losses == WindowSum([i \in 1 .. n |-> Loss(values, i)], RsiPeriod, n)
  IN  /\ n > RsiPeriod
      /\ IF losses = 0 /\ gains = 0 THEN 50 <= threshold ELSE 100 * gains <= threshold * (gains + losses)

Mirror(values) == [i \in DOMAIN values |-> -values[i]]

\* The engines are given the candles oldest first whatever the order of the answer
\* (_normalize_bars), and the sliding sums of the indicators (strategies/_base/indicators.py) are the sums of
\* their windows, however many candles have passed: the signals of the engines are
\* those of the definition, and turning the prices upside down turns the signal round.
IndicatorsMatchTheirWindows ==
  LET series == NormalizeBars(bars)
      closes == ClosesOf(series)
  IN  /\ \A i, j \in DOMAIN series : i < j /\ series[i].at # Undated => series[i].at < series[j].at
      /\ (CrossoverSignal(closes) = "BUY") = CrossesUp(closes)
      /\ (CrossoverSignal(closes) = "SELL") = CrossesUp(Mirror(closes))
      /\ (RsiSignal(closes) = "BUY") = RsiAtMost(closes, Oversold)
      /\ (RsiSignal(closes) = "SELL") = RsiAtMost(Mirror(closes), 100 - Overbought)

\* The selector never passes over a better contract: the chosen option is an offer
\* of the list that satisfies the policy, and none that does has a lower score.
SelectionIsBest ==
  (stage = "attached" /\ option # NoInstrument) =>
    \E i \in DOMAIN offers :
      /\ Eligible(offers[i], proposal.signal, 0) /\ option = InstrumentOf(offers[i])
      /\ \A j \in DOMAIN offers : Eligible(offers[j], proposal.signal, 0) =>
           ~Before(Score(offers[j], price, 0), Score(offers[i], price, 0))

\* The demand for a human survives from the engine to the verdict, whatever option is
\* attached and whatever else the controls find: a proposal of the AI strategy is APPROVED
\* only if its flags were not all strings, so that _build_proposal dropped them, or if
\* require_human_approval was edited after the engine had read it.
AiAsksForAHuman ==
  (stage = "decided" /\ ai /\ Verdict(facts) = "APPROVED") =>
    ~typed \/ facts.humanApproval # humanApproval

=============================================================================
