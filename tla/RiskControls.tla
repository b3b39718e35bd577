---------------------------- MODULE RiskControls ----------------------------
(***************************************************************************)
(* The deterministic verdict of the risk engine (workers/risk_engine):     *)
(* every control is evaluated, each finding carries a tier, the worst tier *)
(* decides.  A finding is <<tier, control>>.  The facts a verdict reads    *)
(* are a record:                                                           *)
(*   switch      the kill switch, as Redis answers                         *)
(*   context     kind of the execution context, "absent" if not found      *)
(*   account     status of the default trading account                     *)
(*   status      of the strategy; ai, humanApproval, stopLoss its protection*)
(*   age         of the market data: "fresh", "stale" or "unknown"         *)
(*   actives, symbols   of the context's ACTIVE strategies                 *)
(*   cooling     the strategy's last decision is younger than the cooldown *)
(*   flagged     the proposal asks for a human approval                    *)
(*   signal, underlying, today                                             *)
(*   option      the instrument, NoInstrument, or Malformed                *)
(*   cash        the latest buying power, NoSnapshot if there is none      *)
(***************************************************************************)
EXTENDS OptionSelection

CONSTANTS
  Limits,                   \* the option limits the engine reads from its environment
  MaxActiveStrategies,
  MaxCumulativeSymbols

ASSUME LimitsAssumption == Limits \in Bounds /\ MaxActiveStrategies \in Nat /\ MaxCumulativeSymbols \in Nat

\* What the queries and the proposal give.
FactNames ==
  {"switch", "context", "account", "status", "ai", "humanApproval", "stopLoss", "age", "actives",
   "symbols", "cooling", "flagged", "signal", "underlying", "today", "option", "cash"}

Tiers == {"REJECTED", "REQUIRES_APPROVAL"}
Outcomes == Tiers \cup {"APPROVED"}
Precedence == [REJECTED |-> 2, REQUIRES_APPROVAL |-> 1]

Malformed == [symbol |-> "malformed"]
NoSnapshot == -1

When(condition, finding) == IF condition THEN {finding} ELSE {}
Reject(control) == <<"REJECTED", control>>
Ask(control) == <<"REQUIRES_APPROVAL", control>>

ProtectionMissing(f) == IF f.ai THEN ~f.humanApproval ELSE ~f.stopLoss

StateFindings(f) ==
  UNION {
    When(f.switch, Reject("kill switch")),
    When(f.context \notin {"PAPER", "REPLAY"}, Reject("context")),
    When(f.context = "PAPER" /\ f.account # "connected", Reject("account")),
    When(f.status # "ACTIVE", Reject("status"))}

ExposureFindings(f) ==
  UNION {
    When(f.age # "fresh", Reject("freshness")),
    When(f.actives > MaxActiveStrategies, Reject("active strategies")),
    When(f.symbols > MaxCumulativeSymbols, Reject("symbols"))}

ProtectionFindings(f) ==
  UNION {
    When(ProtectionMissing(f), Reject("protection")),
    When(f.cooling, Reject("cooldown")),
    When(f.flagged, Ask("approval policy"))}

CommonFindings(f) == StateFindings(f) \cup ExposureFindings(f) \cup ProtectionFindings(f)

ExpectedType(signal) ==
  CASE signal = "BUY" -> "call" [] signal = "SELL" -> "put" [] OTHER -> "none"

\* The amounts tolerate a rounding of five cents.
Consistent(i) ==
  /\ Distance(i.premium, i.ask * i.size * i.quantity) <= 5
  /\ Distance(i.maxLoss, i.premium) <= 5

CashFindings(f) ==
  IF f.context # "PAPER" THEN {}
  ELSE IF f.cash = NoSnapshot THEN {Ask("buying power")}
  ELSE When(f.cash < f.option.premium, Reject("buying power"))

ContractFindings(f) ==
  LET i == f.option
  IN  UNION {
        When(i.underlying # f.underlying, Reject("underlying")),
        When(i.type # ExpectedType(f.signal), Reject("type")),
        When(i.expiry - f.today \notin Limits.minDte .. Limits.maxDte, Reject("expiry")),
        When(i.quantity > Limits.maxContracts, Reject("quantity"))}

PriceFindings(f) ==
  LET i == f.option
  IN  UNION {
        When(i.bid > i.ask, Reject("crossed quote")),
        When(Exceeds(i.spread, Limits.maxSpreadPct), Reject("spread")),
        When(i.premium > Limits.maxPremium \/ i.maxLoss > Limits.maxPremium, Reject("premium")),
        When(~Consistent(i), Reject("amounts"))}

OptionFindings(f) ==
  IF f.option = NoInstrument THEN {}
  ELSE IF f.option = Malformed THEN {Reject("instrument")}
  ELSE ContractFindings(f) \cup PriceFindings(f) \cup CashFindings(f)

\* The five limits the system does not have: a share order is never approved.
UnverifiableFindings ==
  {Ask(limit) : limit \in {"buying power", "daily loss", "total exposure", "symbol exposure", "notional"}}

Findings(f) ==
  CommonFindings(f) \cup OptionFindings(f)
    \cup (IF f.option = NoInstrument THEN UnverifiableFindings ELSE {})

CombineOutcome(findings) ==
  IF findings = {} THEN "APPROVED"
  ELSE CHOOSE tier \in {x[1] : x \in findings} :
         \A x \in findings : Precedence[x[1]] <= Precedence[tier]

Verdict(f) == CombineOutcome(Findings(f))
=============================================================================
