--------------------------- MODULE MCDailyTrader ---------------------------
(***************************************************************************)
(* Small portfolios for model checking DailyTrader.                        *)
(***************************************************************************)
EXTENDS DailyTrader

CONSTANTS
    swanAB, squeezeB, pullbackA, trendA, trendB, trendC,    \* keys
    A, B, C                                                 \* tickers

MCSymbols == {A, B, C}

MCStrategyOf ==
    [k \in Keys |-> CASE k = swanAB -> "Black Swan"
                      [] k = squeezeB -> "BB Squeeze"
                      [] k = pullbackA -> "MA Pullback"
                      [] k \in {trendA, trendB, trendC} -> "Supertrend"]

MCParts ==
    [k \in Keys |-> CASE k = swanAB -> {A, B}
                      [] k \in {pullbackA, trendA} -> {A}
                      [] k \in {squeezeB, trendB} -> {B}
                      [] k = trendC -> {C}]

MCPlace ==
    [k \in Keys |-> CASE k = swanAB -> 0
                      [] k = squeezeB -> 1
                      [] k = pullbackA -> 2
                      [] k = trendA -> 3
                      [] k = trendB -> 4
                      [] k = trendC -> 5]
=============================================================================
