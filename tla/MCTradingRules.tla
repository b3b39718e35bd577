--------------------------- MODULE MCTradingRules ---------------------------
(* Small menus of prices, offers, answers and facts for the run of TradingRules. *)
EXTENDS TradingRules

SomeCandles == [dated : {TRUE}, close : {NoClose, 1, 2, 4}] \cup {[dated |-> FALSE, close |-> 2]}

SmallPolicy == [minDte |-> 7, maxDte |-> 30, maxPremium |-> 500, maxSpreadPct |-> 20, maxContracts |-> 2]

\* An offer like the others, better or worse in one respect.
Call == [symbol |-> "C1", underlying |-> "AAPL", type |-> "call", tradable |-> TRUE, complete |-> TRUE, expiry |-> 18,
         strike |-> 100, size |-> 10, interest |-> 5, bid |-> 19, ask |-> 20, delta |-> 50]

SomeOffers ==
  {Call,
   [Call EXCEPT !.strike = 90],
   [Call EXCEPT !.complete = FALSE],
   [Call EXCEPT !.expiry = 7],
   [Call EXCEPT !.expiry = 31],
   [Call EXCEPT !.bid = 25, !.ask = 26],  \* two contracts exceed the premium
   [Call EXCEPT !.bid = 10],            \* too wide
   [Call EXCEPT !.bid = 0],             \* no bid
   [Call EXCEPT !.delta = NoDelta],
   [Call EXCEPT !.interest = 9],
   [Call EXCEPT !.underlying = "APPL1"],
   [Call EXCEPT !.type = "put"],
   [Call EXCEPT !.type = "put", !.strike = 90]}

Lists == {<<>>} \cup {<<o>> : o \in SomeOffers} \cup {<<o, p>> : o \in SomeOffers, p \in SomeOffers}

UnderlyingPrices == {0, 96, 104}

SomeAnswers ==
  {[kind |-> "none"], [kind |-> "invalid"]}
    \cup [kind : {"valid"}, signal : Signals, confidence : {4000, 9000}, flags : {{}}, wellTyped : BOOLEAN]

Calm == [switch |-> FALSE, context |-> "PAPER", account |-> "connected", status |-> "ACTIVE",
         ai |-> FALSE, humanApproval |-> TRUE, stopLoss |-> TRUE, age |-> "fresh", actives |-> 1,
         symbols |-> 1, cooling |-> FALSE, flagged |-> FALSE, signal |-> "HOLD", underlying |-> "AAPL",
         today |-> 0, option |-> NoInstrument, cash |-> 1000]

\* Calm, but for one fact.
SomeFacts ==
  {Calm,
   [Calm EXCEPT !.switch = TRUE],
   [Calm EXCEPT !.context = "REPLAY"],
   [Calm EXCEPT !.context = "DRY_RUN"],
   [Calm EXCEPT !.account = "error"],
   [Calm EXCEPT !.status = "PAUSED"],
   [Calm EXCEPT !.humanApproval = FALSE, !.stopLoss = FALSE],
   [Calm EXCEPT !.age = "stale"],
   [Calm EXCEPT !.actives = 4],
   [Calm EXCEPT !.symbols = 11],
   [Calm EXCEPT !.cooling = TRUE],
   [Calm EXCEPT !.cash = NoSnapshot],
   [Calm EXCEPT !.cash = 100]}
=============================================================================
