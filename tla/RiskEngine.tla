----------------------------- MODULE RiskEngine -----------------------------
(***************************************************************************)
(* The pre-trade checks of risk/engine.py, in their order: the name of the *)
(* first one an intent fails, "" when it is approved.  The engine sees the *)
(* portfolio through a snapshot: the positions and the P&L of the last     *)
(* mark, never the bar being processed.  It counts what it approved in     *)
(* all and at the current timestamp; bars are at least a second apart.     *)
(***************************************************************************)
EXTENDS Integers, FiniteSets, Portfolio

CONSTANTS
    MaxDailyLoss,       \* max_daily_loss
    MaxOrderValue,      \* max_order_value
    MaxOpenPositions,   \* max_open_positions
    MaxTradesPerDay,    \* max_trades_per_day
    MaxOrdersPerSecond, \* max_orders_per_second
    AllowedSymbols,     \* allowed_symbols
    AllowedTypes        \* allowed_order_types

LimitsAssumed ==
    /\ {MaxDailyLoss, MaxOrderValue, MaxOpenPositions, MaxTradesPerDay,
        MaxOrdersPerSecond} \subseteq Nat \ {0}

ASSUME LimitsAssumption == LimitsAssumed

NewRisk == [kill |-> FALSE, approved |-> 0, at |-> <<0, 0>>, stamps |-> 0]

Activate(r) == [r EXCEPT !.kill = TRUE]

(* Mutant of EstimatePrice: the price of the bar serves a first order. *)
BarPrice(intent, p, b) == IF intent.price # 0 THEN intent.price ELSE b.close

(* The order's own price, the last mark or the average price of its        *)
(* symbol's entry in the portfolio; 0 when there is none of them.          *)
EstimatePrice(intent, p, b) ==
    CASE intent.price # 0 -> intent.price
      [] intent.price = 0 /\ p.known /\ p.last # 0 -> p.last
      [] intent.price = 0 /\ p.known /\ p.last = 0 -> Average(p)
      [] OTHER -> 0

LongHeld(pos) == {s \in DOMAIN pos : pos[s].qty > 0}

(* Mutant of TooManyPositions: one position too many. *)
OneTooMany(intent, pos) ==
    /\ intent.side = "BUY"
    /\ intent.symbol \notin LongHeld(pos)
    /\ Cardinality(LongHeld(pos)) > MaxOpenPositions

(* Only a buy in a symbol not held long is counted; shorts never are. *)
TooManyPositions(intent, pos) ==
    /\ intent.side = "BUY"
    /\ intent.symbol \notin LongHeld(pos)
    /\ Cardinality(LongHeld(pos)) >= MaxOpenPositions

(* pnl is realized and unrealized P&L of the snapshot. *)
LossLimit(pnl) == pnl < 0 /\ Abs(pnl) > MaxDailyLoss
TradeLimit(r) == r.approved >= MaxTradesPerDay
Recent(r, at) == IF r.at = at THEN r.stamps ELSE 0
RateLimit(r, at) == Recent(r, at) >= MaxOrdersPerSecond

KillSwitched(r) == r.kill
SymbolBarred(intent) == intent.symbol \notin AllowedSymbols
TypeBarred(intent) == intent.type \notin AllowedTypes
Unpriced(intent, pos, b) == EstimatePrice(intent, pos[intent.symbol], b) = 0
TooLarge(intent, pos, b) ==
    intent.qty * EstimatePrice(intent, pos[intent.symbol], b) > MaxOrderValue

Objection(r, intent, pos, pnl, b) ==
    CASE KillSwitched(r) -> "KILL_SWITCH_ACTIVE"
      [] ~ KillSwitched(r) /\ SymbolBarred(intent) -> "SYMBOL_NOT_ALLOWED"
      [] ~ KillSwitched(r) /\ ~ SymbolBarred(intent) /\ TypeBarred(intent) ->
            "ORDER_TYPE_NOT_ALLOWED"
      [] OTHER ->
            IF Unpriced(intent, pos, b) THEN "INVALID_ORDER"
            ELSE IF TooLarge(intent, pos, b) THEN "ORDER_VALUE_LIMIT_BREACHED"
            ELSE IF TooManyPositions(intent, pos) THEN "POSITION_LIMIT_BREACHED"
            ELSE IF LossLimit(pnl) THEN "DAILY_LOSS_LIMIT_BREACHED"
            ELSE IF TradeLimit(r) \/ RateLimit(r, <<b.day, b.time>>)
            THEN "RATE_LIMIT_BREACHED" ELSE ""

(* What the engine records of an order it approves.  Nothing ever starts   *)
(* the count of a new day: reset_daily_state has no caller.                *)
Recorded(r, b) ==
    LET at == <<b.day, b.time>>
    IN  [r EXCEPT !.approved = r.approved + 1, !.at = at, !.stamps = Recent(r, at) + 1]
=============================================================================
