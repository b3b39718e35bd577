---------------------------- MODULE MCMarketFeed ----------------------------
(* The module of the run of MarketFeed. *)
EXTENDS MarketFeed
=============================================================================
