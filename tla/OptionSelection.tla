--------------------------- MODULE OptionSelection ---------------------------
(***************************************************************************)
(* The choice of one long call or put for a directional signal             *)
(* (shared/shared/options.py).  Money is counted in cents and a delta in    *)
(* hundredths; an offer is a contract together with its quote.             *)
(***************************************************************************)
EXTENDS Integers, Sequences

CONSTANTS
  Policy,        \* OptionSelectionPolicy: the bounds the selector applies
  TargetDelta    \* target_delta, in hundredths

\* The bounds of a policy; the limits of the risk engine have the same shape.
Bounds == [minDte : Nat, maxDte : Nat, maxPremium : Nat, maxSpreadPct : Nat, maxContracts : Nat]

ASSUME PolicyAssumption == Policy \in Bounds /\ TargetDelta \in Nat

NoInstrument == [symbol |-> "none"]
NoDelta == -1          \* a quote without greeks; otherwise delta is the absolute value

\* What the adapters of contracts and quotes let through (OptionContractCandidate, OptionQuote).
Offers ==
  [symbol : STRING, underlying : STRING, type : STRING, tradable : BOOLEAN, complete : BOOLEAN,
   expiry : Int, strike : Nat, size : Nat \ {0}, interest : Nat, bid : Nat, ask : Nat,
   delta : Nat \cup {NoDelta}]

\* A contract without its symbol, type, expiration or strike is dropped.
IsContract(o) == o.complete

\* A quote of which one side is missing or zero is dropped by the normalisation.
HasQuote(o) == o.bid > 0 /\ o.ask > 0

DesiredType(signal) == IF signal = "BUY" THEN "call" ELSE "put"

Distance(a, b) == IF a < b THEN b - a ELSE a - b

\* spread_pct, the spread over the mid price, as a fraction <<num, den>>.
SpreadPct(o) == <<2 * (o.ask - o.bid), o.ask + o.bid>>

Exceeds(fraction, pct) == 100 * fraction[1] > pct * fraction[2]

Affordable(o) == Policy.maxPremium \div (o.ask * o.size)

\* Whole contracts only: as many as the premium pays for, up to the policy's limit.
Quantity(o) == IF Affordable(o) < Policy.maxContracts THEN Affordable(o) ELSE Policy.maxContracts

Eligible(o, signal, today) ==
  /\ IsContract(o)
  /\ o.type = DesiredType(signal) /\ o.tradable
  /\ o.expiry - today \in Policy.minDte .. Policy.maxDte
  /\ HasQuote(o) /\ o.ask >= o.bid
  /\ ~Exceeds(SpreadPct(o), Policy.maxSpreadPct)
  /\ Quantity(o) >= 1

\* The score of an offer, smaller is better: distances of the strike, the delta
\* (a quarter when the quote has none) and the expiration, spread, then liquidity.
Score(o, price, today) ==
  <<<<Distance(o.strike, price), price>>,
    <<IF o.delta = NoDelta THEN 25 ELSE Distance(o.delta, TargetDelta), 100>>,
    <<Distance(2 * (o.expiry - today), Policy.minDte + Policy.maxDte), 2>>,
    SpreadPct(o),
    <<-o.interest, 1>>>>

Less(x, y) == x[1] * y[2] < y[1] * x[2]
Same(x, y) == x[1] * y[2] = y[1] * x[2]

\* The order of Python's tuples.
Before(s, t) == \E i \in 1 .. 5 : Less(s[i], t[i]) /\ \A j \in 1 .. i - 1 : Same(s[j], t[j])

\* Mistake: the first eligible offer is taken.
BestOfFirst(offers, signal, price, today) ==
  LET best[i \in 0 .. Len(offers)] ==
        IF i = 0 THEN 0
        ELSE IF best[i - 1] = 0 /\ Eligible(offers[i], signal, today) THEN i ELSE best[i - 1]
  IN  best[Len(offers)]

\* min(eligible, key=score): the place of the first of the best offers that are
\* eligible, 0 if none is.
BestOf(offers, signal, price, today) ==
  LET Beats(i, j) == j = 0 \/ Before(Score(offers[i], price, today), Score(offers[j], price, today))
      best[i \in 0 .. Len(offers)] ==
        IF i = 0 THEN 0
        ELSE IF Eligible(offers[i], signal, today) /\ Beats(i, best[i - 1]) THEN i ELSE best[i - 1]
  IN  best[Len(offers)]

InstrumentOf(o) ==
  LET premium == o.ask * o.size * Quantity(o)
  IN  [symbol |-> o.symbol, underlying |-> o.underlying, type |-> o.type, expiry |-> o.expiry,
       strike |-> o.strike, bid |-> o.bid, ask |-> o.ask, limit |-> o.ask, size |-> o.size,
       quantity |-> Quantity(o), premium |-> premium, maxLoss |-> premium, spread |-> SpreadPct(o)]

\* select_option_contract; NoInstrument stands for OptionSelectionError.
SelectOption(signal, price, offers, today) ==
  LET best == BestOf(offers, signal, price, today)
  IN  IF price <= 0 \/ best = 0 THEN NoInstrument ELSE InstrumentOf(offers[best])
=============================================================================
