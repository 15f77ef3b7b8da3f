------------------------ MODULE MCPortfolioBacktest ------------------------
(***************************************************************************)
(* Instances of PortfolioBacktest for TLC.  Days are 1..4, with or without *)
(* a weekend session on day 3, and the year ends on day 2.                 *)
(***************************************************************************)
EXTENDS PortfolioBacktest

MCPortfolio == <<
    [strategy |-> "BB Squeeze", symbol |-> "A"],
    [strategy |-> "MA Pullback", symbol |-> "A"],
    [strategy |-> "Black Swan", symbol |-> "A/B"],
    [strategy |-> "Supertrend", symbol |-> "B"]>>
MCMoves == {[price |-> 1, sale |-> 3], [price |-> 3, sale |-> 1]}
MCWeekends == {{}, {3}}
MCRanks == {[s \in Strategies |-> 5 - EngineRank[s]]}
MCSplits == {[from |-> 2, to |-> 4]}
AllExperiments ==
    {"combos", "master", "tenyear", "walkforward", "sensitivity", "traintest",
     "entrycap", "fixed", "vix", "regime", "momentum", "breaker", "timed",
     "rebalance", "gold"}
=============================================================================
