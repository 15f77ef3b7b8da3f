--------------------------- MODULE BacktestReport ---------------------------
(***************************************************************************)
(* What a finished run reports of its fills (backtest/metrics.py) and the  *)
(* gates a report has to pass (validation/validator.py).  A fill is        *)
(* [symbol, side, qty, price, fees].                                       *)
(***************************************************************************)
EXTENDS Integers, Sequences, FiniteSetsExt, Functions

CONSTANTS
    MinTrades,          \* min_trades
    MinProfitFactor     \* min_profit_factor, as <<numerator, denominator>>

ASSUME GateAssumption ==
    MinTrades \in Nat /\ MinProfitFactor \in Nat \X (Nat \ {0})

(* The fills of a symbol on one side, by their places in the run, and what *)
(* they amount to in shares.                                               *)
Places(fills, symbol, side) ==
    {i \in 1..Len(fills) : fills[i].symbol = symbol /\ fills[i].side = side}
Shares(fills, symbol, side) ==
    SumFunctionOnSet([i \in 1..Len(fills) |-> fills[i].qty], Places(fills, symbol, side))

(* The oldest purchases pay for a sale; no sale takes them out of the      *)
(* queue, and shares the queue does not have cost nothing.                 *)
CostBasis(fills, symbol, qty) ==
    LET remaining(i) == qty - Shares(SubSeq(fills, 1, i - 1), symbol, "BUY")
        used(i) == Max({0, Min({fills[i].qty, remaining(i)})})
    IN  SumFunctionOnSet([i \in 1..Len(fills) |-> used(i) * fills[i].price],
                         Places(fills, symbol, "BUY"))

(* Mutant of SalePnL: the fees of the sale are forgotten. *)
GrossSale(fills, i) ==
    fills[i].qty * fills[i].price
        - CostBasis(SubSeq(fills, 1, i - 1), fills[i].symbol, fills[i].qty)

SalePnL(fills, i) ==
    fills[i].qty * fills[i].price - fills[i].fees
        - CostBasis(SubSeq(fills, 1, i - 1), fills[i].symbol, fills[i].qty)

(* trade_pnls: one per sale, whatever it closes or opens. *)
Sales(fills) == {i \in 1..Len(fills) : fills[i].side = "SELL"}
TradePnLs(fills) == [i \in Sales(fills) |-> SalePnL(fills, i)]

Wins(fills) == {i \in Sales(fills) : TradePnLs(fills)[i] > 0}
Losses(fills) == {i \in Sales(fills) : TradePnLs(fills)[i] < 0}
GrossProfit(fills) == SumFunctionOnSet(TradePnLs(fills), Wins(fills))
GrossLoss(fills) == 0 - SumFunctionOnSet(TradePnLs(fills), Losses(fills))

(* realized_pnl of the metrics. *)
ReportedPnL(fills) == SumFunctionOnSet(TradePnLs(fills), Sales(fills))

(* trade_count counts fills, not round trips.  The profit factor is 0 when *)
(* nothing was lost: a run without a losing trade fails its gate.          *)
PassesGates(fills) ==
    /\ Len(fills) >= MinTrades
    /\ LET loss == GrossLoss(fills)
           factor == IF loss > 0 THEN GrossProfit(fills) ELSE 0
           unit == IF loss > 0 THEN loss ELSE 1
       IN  factor * MinProfitFactor[2] >= MinProfitFactor[1] * unit
=============================================================================
