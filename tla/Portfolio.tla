----------------------------- MODULE Portfolio -----------------------------
(***************************************************************************)
(* The simulated portfolio and broker that backtests, paper runs and the   *)
(* live paper runner share (backtest/portfolio.py, simulated_broker.py,    *)
(* paper/broker.py).                                                       *)
(*                                                                         *)
(* A position keeps cost, the quantity times the average price, in place   *)
(* of the average.  known says that the portfolio has an entry for the     *)
(* symbol; last is the price of its last mark, 0 before the first.  paid   *)
(* is a history variable: the fees of fills that booked no realized P&L.   *)
(***************************************************************************)
EXTENDS Integers, Sequences

CONSTANTS
    Brokerage,  \* flat part of the fees of a fill
    BuyRate,    \* stamp duty and the other charges on a purchase
    SellRate,   \* STT and the other charges on a sale
    SlipRate,   \* slippage
    RateUnit    \* the rates are fractions of this

ASSUME CostAssumption ==
    /\ {Brokerage, BuyRate, SellRate, SlipRate} \subseteq Nat
    /\ RateUnit \in Nat \ {0}
    /\ SlipRate < RateUnit

NoPosition ==
    [known |-> FALSE, qty |-> 0, cost |-> 0, realized |-> 0,
     unrealized |-> 0, last |-> 0, paid |-> 0]

Least(m, n) == IF m < n THEN m ELSE n
Abs(n) == IF n < 0 THEN 0 - n ELSE n
Average(p) == IF p.qty = 0 THEN 0 ELSE p.cost \div Abs(p.qty)

(* The cost of n of the shares, at their average price.  The code divides  *)
(* decimals; here what the division leaves over goes with the last share.  *)
CostOf(p, n) == IF n = Abs(p.qty) THEN p.cost ELSE n * Average(p)

(* Slippage raises what a buyer pays and lowers what a seller receives.    *)
SlippedPrice(side, price) ==
    LET slip == (price * SlipRate) \div RateUnit
    IN  IF side = "BUY" THEN price + slip ELSE price - slip
Fees(side, qty, price) ==
    Brokerage
        + (qty * price * (IF side = "BUY" THEN BuyRate ELSE SellRate)) \div RateUnit

(* Selling more than is held long raises: there is no fill.                *)
Refuses(p, side, qty) == side = "SELL" /\ p.qty > 0 /\ p.qty < qty

Bought(p, qty, price) ==
    IF p.qty >= 0
    THEN [p EXCEPT !.qty = p.qty + qty, !.cost = p.cost + qty * price,
                   !.paid = p.paid + Fees("BUY", qty, price)]
    ELSE LET cover == Least(qty, 0 - p.qty)
             left == p.qty + qty
         IN  [p EXCEPT !.qty = left,
                       !.cost = IF left < 0 THEN p.cost - CostOf(p, cover)
                                            ELSE left * price,
                       !.realized = p.realized + CostOf(p, cover) - cover * price
                                               - Fees("BUY", qty, price)]

Sold(p, qty, price) ==
    IF p.qty > 0
    THEN [p EXCEPT !.qty = p.qty - qty, !.cost = p.cost - CostOf(p, qty),
                   !.realized = p.realized + qty * price - CostOf(p, qty)
                                           - Fees("SELL", qty, price)]
    ELSE [p EXCEPT !.qty = p.qty - qty, !.cost = p.cost + qty * price,
                   !.paid = p.paid + Fees("SELL", qty, price)]

(* Mutant of AfterFill: buying against a short opens a long beside it. *)
NoCover(p, side, qty, price) ==
    IF side = "BUY"
    THEN [p EXCEPT !.known = TRUE, !.qty = p.qty + qty, !.cost = p.cost + qty * price]
    ELSE [Sold(p, qty, price) EXCEPT !.known = TRUE]

(* apply_fill, for the position of the symbol. *)
AfterFill(p, side, qty, price) ==
    [IF side = "BUY" THEN Bought(p, qty, price) ELSE Sold(p, qty, price)
        EXCEPT !.known = TRUE]

CashFlow(side, qty, price) ==
    (IF side = "BUY" THEN 0 - qty * price ELSE qty * price) - Fees(side, qty, price)

(* Unrealized P&L is set only while something is held: a position that was *)
(* closed keeps the value of its last mark.                                *)
Marked(p, price) ==
    IF p.qty = 0 \/ price = 0 THEN p
    ELSE [p EXCEPT !.last = price,
                   !.unrealized = IF p.qty > 0 THEN p.qty * price - p.cost
                                               ELSE p.cost - Abs(p.qty) * price]

-----------------------------------------------------------------------------
(* Orders against the bar being processed, whatever symbol the bar is of.  *)
(* A limit order that the bar does not reach is dropped; a stop order has  *)
(* no implementation and raises.  0 stands for no fill.                    *)

FillPrice(intent, b) ==
    CASE intent.type = "MARKET" -> SlippedPrice(intent.side, b.close)
      [] intent.type = "LIMIT" /\ b.touch -> SlippedPrice(intent.side, intent.price)
      [] OTHER -> 0

Fills(p, intent, b) ==
    /\ FillPrice(intent, b) # 0
    /\ ~ Refuses(p, intent.side, intent.qty)
=============================================================================
