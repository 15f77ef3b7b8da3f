----------------------------- MODULE MCTrading -----------------------------
(* Small instances of TradingEngine. *)
EXTENDS TradingEngine, TLC

CONSTANTS INFY, TCS

MCSymbols == {INFY, TCS}
MCUniverse == [k \in Kinds |-> IF k \in Ratio \cup {"ANY"} THEN <<INFY, TCS>> ELSE <<INFY>>]

(* Two days of five bar times for the intraday strategies (before the      *)
(* session, opening, two more for entries, square-off), three and one for  *)
(* the pairs, daily bars for the other shipped strategies, and one bar     *)
(* time on each of two days for any strategy.                              *)
MCCalendar ==
    [k \in Kinds |->
        CASE k \in Intraday -> {1, 2} \X (0..4)
          [] k = "PAIRS" -> ({1} \X (1..3)) \cup {<<2, 1>>}
          [] k = "ANY" -> {<<1, 1>>, <<2, 1>>}
          [] k \in Swing -> (1..5) \X {3}
          [] OTHER -> (1..4) \X {3}]

Fact == [gap |-> "NONE", signal |-> FALSE, hit |-> {}, trend |-> "INSIDE",
         z |-> 0, flat |-> FALSE, touch |-> FALSE]
Signals(hits) == {[Fact EXCEPT !.signal = s, !.hit = h] : s \in BOOLEAN, h \in hits}
Gaps(hits) == {[f EXCEPT !.gap = g] : f \in Signals(hits), g \in {"UP", "DOWN", "NONE"}}
Bands(zs) == {[Fact EXCEPT !.z = z] : z \in zs} \cup {[Fact EXCEPT !.flat = TRUE]}

MCFacts ==
    [k \in Kinds |->
        CASE k \in {"ORB", "VWAP"} -> Signals({{}, {"stop"}, {"target"}})
          [] k \in {"GAP_FADE", "GAP_CONTINUATION"} -> Gaps({{}, {"stop"}, {"target"}})
          [] k = "FIRST_HOUR" -> Gaps({{}, {"stop"}, {"target"}, {"trail"}})
          [] k = "SUPERTREND" ->
               {[Fact EXCEPT !.trend = t, !.hit = h] :
                    t \in {"ABOVE", "BELOW", "INSIDE"}, h \in {{}, {"stop"}}}
          [] k = "RSI2" -> Signals({{}, {"stop"}, {"exit"}})
          [] k = "MA_PULLBACK" -> Signals({{}, {"stop"}, {"target"}})
          [] k = "ANY" -> {[Fact EXCEPT !.touch = t] : t \in BOOLEAN}
          [] OTHER -> Bands({-3, -2, 0, 2, 3})]

(* Market orders of both sides and sizes, a limit and a stop order. *)
MCOrders ==
    {[side |-> side, qty |-> q, type |-> "MARKET", price |-> 0] :
        side \in {"BUY", "SELL"}, q \in {1, 2}}
    \cup {[side |-> "BUY", qty |-> 1, type |-> "LIMIT", price |-> 1200],
          [side |-> "SELL", qty |-> 1, type |-> "SL-M", price |-> 0]}

ProfitFactor == <<1, 1>>
=============================================================================
