--------------------------- MODULE StrategyEngines ---------------------------
(***************************************************************************)
(* The three strategy engines (strategies/*/engine.py), the indicators     *)
(* they compute and the way the strategy agent turns their output into a   *)
(* proposal.  Closes are integers; an average is kept as the sum of its    *)
(* window, so that comparing two averages is comparing cross products.     *)
(***************************************************************************)
EXTENDS Integers, Sequences

CONSTANTS
  ShortPeriod, LongPeriod,                 \* moving_average_crossover
  RsiPeriod, Oversold, Overbought,         \* rsi_reversal
  MinConfidence                            \* ai_market_agent_strategy

ASSUME EnginesAssumption ==
  /\ {ShortPeriod, LongPeriod, RsiPeriod} \subseteq Nat \ {0}
  /\ ShortPeriod < LongPeriod              \* validate_parameters
  /\ {Oversold, Overbought} \subseteq Nat /\ Oversold < Overbought

Signals == {"BUY", "SELL", "HOLD"}

\* Mistake: the window keeps one close too many.
RunningSumLate(values, period) ==
  LET sum[i \in 0 .. Len(values)] ==
        IF i = 0 THEN 0
        ELSE sum[i - 1] + values[i] - (IF i > period + 1 THEN values[i - period] ELSE 0)
  IN  sum

\* The running sum of simple_moving_average: the window of `period` closes ending at i.
RunningSum(values, period) ==
  LET sum[i \in 0 .. Len(values)] ==
        IF i = 0 THEN 0
        ELSE sum[i - 1] + values[i] - (IF i > period THEN values[i - period] ELSE 0)
  IN  sum

Gain(closes, i) == IF i > 1 /\ closes[i] > closes[i - 1] THEN closes[i] - closes[i - 1] ELSE 0
Loss(closes, i) == IF i > 1 /\ closes[i] < closes[i - 1] THEN closes[i - 1] - closes[i] ELSE 0

\* evaluate of moving_average_crossover: the averages cross on the last candle.
CrossoverSignal(closes) ==
  LET n == Len(closes)
      short == RunningSum(closes, ShortPeriod)
      long == RunningSum(closes, LongPeriod)
      Gap(i) == short[i] * LongPeriod - long[i] * ShortPeriod
  IN  IF n < LongPeriod + 1 THEN "HOLD"
      ELSE CASE Gap(n - 1) <= 0 /\ Gap(n) > 0 -> "BUY"
             [] Gap(n - 1) >= 0 /\ Gap(n) < 0 -> "SELL"
             [] OTHER -> "HOLD"

\* relative_strength_index on the last close, as a fraction: 100 * gains / (gains + losses);
\* fifty on a flat window.  Defined once RsiPeriod variations are known.
LastRsi(closes) ==
  LET n == Len(closes)
      gain == RunningSum([i \in 1 .. n |-> Gain(closes, i)], RsiPeriod)[n]
      loss == RunningSum([i \in 1 .. n |-> Loss(closes, i)], RsiPeriod)[n]
  IN  IF gain + loss = 0 THEN <<50, 1>> ELSE <<100 * gain, gain + loss>>

\* evaluate of rsi_reversal.
RsiSignal(closes) ==
  LET rsi == LastRsi(closes)
  IN  IF Len(closes) < RsiPeriod + 1 THEN "HOLD"
      ELSE CASE rsi[1] <= Oversold * rsi[2] -> "BUY"
             [] rsi[1] >= Overbought * rsi[2] -> "SELL"
             [] OTHER -> "HOLD"

(***************************************************************************)
(* The AI engine.  The kind of the provider's answer is "none" (no        *)
(* provider, or an error), "invalid" (_valid_ai_output refuses it) or      *)
(* "valid"; wellTyped says that its risk flags are all strings.            *)
(***************************************************************************)
FallbackOutput(flag) == [signal |-> "HOLD", confidence |-> 0, flags |-> {flag}, wellTyped |-> TRUE]

\* evaluate of ai_market_agent_strategy: a signal without confidence is held, any
\* other is marked for a human if the parameters ask for it.
AiOutput(answer, humanApproval) ==
  LET demoted == answer.signal # "HOLD" /\ answer.confidence < MinConfidence
      signal == IF demoted THEN "HOLD" ELSE answer.signal
      added == (IF demoted THEN {"below_min_confidence"} ELSE {})
                 \cup (IF signal # "HOLD" /\ humanApproval THEN {"requires_human_approval"} ELSE {})
  IN  CASE answer.kind = "none" -> FallbackOutput("ai_unavailable")
        [] answer.kind = "invalid" -> FallbackOutput("invalid_ai_output")
        [] answer.kind = "valid" ->
             [signal |-> signal, confidence |-> answer.confidence,
              flags |-> answer.flags \cup added, wellTyped |-> answer.wellTyped]

\* A deterministic engine gives no flags, and no confidence of its own.
ConfidenceForSignal(signal) == IF signal \in {"BUY", "SELL"} THEN 10000 ELSE 0

DeterministicOutput(signal) ==
  [signal |-> signal, confidence |-> ConfidenceForSignal(signal), flags |-> {}, wellTyped |-> TRUE]

\* Mistake: the flags of the engine are ignored, as they once were.
BuildProposalUnflagged(output) ==
  [signal |-> output.signal, confidence |-> output.confidence, flags |-> {}]

\* _build_proposal: flags that are not all strings are dropped altogether.
BuildProposal(output) ==
  [signal |-> output.signal, confidence |-> output.confidence,
   flags |-> IF output.wellTyped THEN output.flags ELSE {}]
=============================================================================
