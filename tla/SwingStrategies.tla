-------------------------- MODULE SwingStrategies --------------------------
(***************************************************************************)
(* The strategies on daily bars: three that trade one symbol (Supertrend,  *)
(* RSI(2) mean reversion, moving-average pullback) and three that trade    *)
(* the ratio of two symbols (pairs, black swan pairs, long-only swan).     *)
(* None of the first three and of the last two is reset on a new day.      *)
(*                                                                         *)
(* Facts of a bar: trend, where the close lies with respect to the bands   *)
(* of Supertrend; signal, the price conditions of an entry; hit, the exits *)
(* reached; z, the band of the z-score of the ratio, from -3 (beyond the   *)
(* stop) over 0 (back inside the exit) to 3; flat, its deviation is 0.     *)
(***************************************************************************)
EXTENDS Integers, Sequences

CONSTANTS
    Warmup,         \* atr_period, trend_ma_period, window_size: bars needed
    MaxHoldDays,    \* max_hold_days
    Capital,        \* capital_per_trade, capital_per_leg
    LegQuantity,    \* quantity_a, quantity_b
    CloseOut        \* square_off_time of the pairs

SwingConfig == Warmup \in Nat \ {0} /\ MaxHoldDays \in Nat /\ Capital \in Nat \ {0}
PairConfig == Warmup > 1 /\ LegQuantity \in Nat \ {0} /\ CloseOut \in Nat

ASSUME SwingAssumption == SwingConfig /\ PairConfig

(* max(1, int(capital / price)): one share even when it costs too much. *)
Lot(price) == IF Capital \div price > 1 THEN Capital \div price ELSE 1

Order(symbol, side, qty, reason) ==
    [symbol |-> symbol, side |-> side, qty |-> qty,
     type |-> "MARKET", price |-> 0, reason |-> reason]

Answer(s, intents) == [state |-> s, intents |-> intents]
Seen(n) == IF n < Warmup THEN n + 1 ELSE n

(* State of a symbol: bars seen; shares of the position (0: none) and the  *)
(* day it was opened; orders left for the next bar; trend of Supertrend.   *)
SwingState ==
    [bars : 0..Warmup, qty : Nat, since : Nat, buy : BOOLEAN,
     sell : {"", "stop", "exit", "time"}, trend : -1..1]
NewSwing ==
    [bars |-> 0, qty |-> 0, since |-> 0, buy |-> FALSE, sell |-> "", trend |-> 0]

HeldLong(s, b) == s.qty > 0 /\ b.day - s.since >= MaxHoldDays
ClearSwing(s) == [s EXCEPT !.qty = 0, !.since = 0]
OpenSwing(s, b) == [s EXCEPT !.qty = Lot(b.close), !.since = b.day]

-----------------------------------------------------------------------------
(* Supertrend (supertrend.py): enters when the trend turns up, exits when  *)
(* it turns down, at the stop or after the longest hold.                   *)

NewTrend(s, b) == CASE b.trend = "ABOVE" -> 1 [] b.trend = "BELOW" -> -1 [] OTHER -> s.trend

SupertrendExit(s, b) ==
    CASE NewTrend(s, b) = -1 /\ s.trend = 1 -> "flip"
      [] "stop" \in b.hit -> "stop"
      [] HeldLong(s, b) -> "time"
      [] OTHER -> ""

SupertrendBar(old, b) ==
    LET s == [old EXCEPT !.bars = Seen(old.bars)]
        t == [s EXCEPT !.trend = NewTrend(s, b)]
    IN  CASE s.bars < Warmup -> Answer(s, <<>>)
          [] s.bars = Warmup /\ s.qty > 0 /\ SupertrendExit(s, b) # "" ->
               Answer(ClearSwing(t),
                      <<Order(b.symbol, "SELL", s.qty, SupertrendExit(s, b))>>)
          [] s.bars = Warmup /\ s.qty = 0 /\ t.trend = 1 /\ s.trend # 1 ->
               Answer(OpenSwing(t, b), <<Order(b.symbol, "BUY", Lot(b.close), "flip")>>)
          [] OTHER -> Answer(t, <<>>)

-----------------------------------------------------------------------------
(* RSI(2) (rsi2_mean_reversion.py): a signal is acted on when the next bar *)
(* arrives, whenever that is, and before that bar's own signal.            *)

RsiExit(s, b) ==
    CASE "stop" \in b.hit -> "stop"
      [] "exit" \in b.hit -> "exit"
      [] HeldLong(s, b) -> "time"
      [] OTHER -> ""

RsiBar(old, b) ==
    LET fill == CASE old.sell # "" ->
                       Answer([ClearSwing(old) EXCEPT !.sell = ""],
                              <<Order(b.symbol, "SELL", old.qty, old.sell)>>)
                  [] old.sell = "" /\ old.buy ->
                       Answer([OpenSwing(old, b) EXCEPT !.buy = FALSE],
                              <<Order(b.symbol, "BUY", Lot(b.close), "entry")>>)
                  [] OTHER -> Answer(old, <<>>)
        s == [fill.state EXCEPT !.bars = Seen(old.bars)]
    IN  CASE s.bars < Warmup -> Answer(s, fill.intents)
          [] s.bars = Warmup /\ s.qty > 0 ->
               Answer([s EXCEPT !.sell = RsiExit(s, b)], fill.intents)
          [] OTHER -> Answer([s EXCEPT !.buy = b.signal], fill.intents)

-----------------------------------------------------------------------------
(* Moving-average pullback (ma_pullback.py): stop, target, longest hold.   *)

PullbackExit(s, b) ==
    CASE "stop" \in b.hit -> "stop"
      [] "target" \in b.hit -> "target"
      [] HeldLong(s, b) -> "time"
      [] OTHER -> ""

PullbackBar(old, b) ==
    LET s == [old EXCEPT !.bars = Seen(old.bars)]
    IN  CASE s.bars = Warmup /\ s.qty > 0 /\ PullbackExit(s, b) # "" ->
               Answer(ClearSwing(s), <<Order(b.symbol, "SELL", s.qty, PullbackExit(s, b))>>)
          [] s.bars = Warmup /\ s.qty = 0 /\ b.signal ->
               Answer(OpenSwing(s, b), <<Order(b.symbol, "BUY", Lot(b.close), "entry")>>)
          [] OTHER -> Answer(s, <<>>)

-----------------------------------------------------------------------------
(* The strategies on the ratio of a and b: nothing is decided on a bar of  *)
(* one leg until the bar of the other leg with the same timestamp is in.   *)
(* State: day, the timestamps of the legs' last bars, the ratios collected *)
(* and the spread position: its side, its quantity and its day.            *)

Spreads == {"LONG", "SHORT", "NONE"}
PairState ==
    [day : Nat, at : [1..2 -> Nat \X Nat], bars : 0..Warmup, spread : Spreads,
     qty : Nat, since : Nat, exited : BOOLEAN]
NewPair ==
    [day |-> 0, at |-> [l \in 1..2 |-> <<0, 0>>], bars |-> 0, spread |-> "NONE",
     qty |-> 0, since |-> 0, exited |-> FALSE]

PairReset(day) == [NewPair EXCEPT !.day = day]

Aligned(s) == s.at[1] # <<0, 0>> /\ s.at[1] = s.at[2]
Arrived(s, leg, b) == [s EXCEPT !.at[leg] = <<b.day, b.time>>]
Scored(s, b) == s.bars = Warmup /\ ~ b.flat

(* Both legs of a spread, the leg of a first; closing reverses the sides.  *)
Legs(pair, sideA, sideB, reason) ==
    <<Order(pair[1], sideA, LegQuantity, reason), Order(pair[2], sideB, LegQuantity, reason)>>
OpenLegs(pair, spread, reason) ==
    IF spread = "LONG" THEN Legs(pair, "BUY", "SELL", reason) ELSE Legs(pair, "SELL", "BUY", reason)
CloseLegs(pair, spread, reason) ==
    IF spread = "LONG" THEN Legs(pair, "SELL", "BUY", reason) ELSE Legs(pair, "BUY", "SELL", reason)
SwanOpenLegs(pair, spread) == OpenLegs(pair, spread, "entry")
SwanCloseLegs(pair, spread, reason) == CloseLegs(pair, spread, reason)

SpreadExit(s, b) ==
    CASE s.spread = "LONG" /\ b.z <= -3 -> "stop"
      [] s.spread = "SHORT" /\ b.z >= 3 -> "stop"
      [] s.spread = "LONG" /\ b.z >= 0 -> "exit"
      [] s.spread = "SHORT" /\ b.z <= 0 -> "exit"
      [] OTHER -> ""
SpreadEntry(b) == CASE b.z <= -2 -> "LONG" [] b.z >= 2 -> "SHORT" [] OTHER -> "NONE"

(* Pairs (pairs_trading.py), within the day: an open spread is closed at   *)
(* the close-out time even without a full window; a stop or the close-out  *)
(* ends the day's trading, an ordinary exit does not.                      *)
PairsBar(pair, leg, old, b) ==
    LET day == IF old.day = b.day THEN old ELSE PairReset(b.day)
        in == Arrived(day, leg, b)
        s == IF Aligned(in) THEN [in EXCEPT !.bars = Seen(in.bars)] ELSE in
        due == Aligned(s) /\ s.spread # "NONE" /\ b.time >= CloseOut
        free == Aligned(s) /\ ~ due /\ Scored(s, b)
    IN  CASE due ->
               Answer([s EXCEPT !.spread = "NONE", !.exited = TRUE],
                      CloseLegs(pair, s.spread, "square_off"))
          [] free /\ s.spread # "NONE" /\ SpreadExit(s, b) # "" ->
               Answer([s EXCEPT !.spread = "NONE",
                                !.exited = s.exited \/ SpreadExit(s, b) = "stop"],
                      CloseLegs(pair, s.spread, SpreadExit(s, b)))
          [] free /\ s.spread = "NONE" /\ ~ s.exited /\ SpreadEntry(b) # "NONE" ->
               Answer([s EXCEPT !.spread = SpreadEntry(b)],
                      OpenLegs(pair, SpreadEntry(b), "entry"))
          [] OTHER -> Answer(s, <<>>)

(* Black swan pairs (black_swan_pairs.py): the same on days, no reset.     *)
BlackSwanBar(pair, leg, old, b) ==
    LET in == Arrived(old, leg, b)
        s == IF Aligned(in) THEN [in EXCEPT !.bars = Seen(in.bars)] ELSE in
        free == Aligned(s) /\ Scored(s, b)
    IN  CASE free /\ s.spread # "NONE" /\ SpreadExit(s, b) # "" ->
               Answer([s EXCEPT !.spread = "NONE"],
                      SwanCloseLegs(pair, s.spread, SpreadExit(s, b)))
          [] free /\ s.spread = "NONE" /\ SpreadEntry(b) # "NONE" ->
               Answer([s EXCEPT !.spread = SpreadEntry(b)],
                      SwanOpenLegs(pair, SpreadEntry(b)))
          [] OTHER -> Answer(s, <<>>)

(* Long-only swan (long_only_swan.py): buys the cheap leg only, a on a low *)
(* ratio and b on a high one, sized by the price of that leg; prices are   *)
(* the last closes of the legs.                                            *)
SwanExit(s, b) ==
    CASE SpreadExit(s, b) # "" -> SpreadExit(s, b)
      [] b.day - s.since >= MaxHoldDays -> "time"
      [] OTHER -> ""
SwanLeg(pair, spread) == IF spread = "LONG" THEN pair[1] ELSE pair[2]
SetSwan(s, spread, b, qty) == [s EXCEPT !.spread = spread, !.since = b.day, !.qty = qty]
ClearSwan(s) == [s EXCEPT !.spread = "NONE", !.since = 0, !.qty = 0]

LongSwanBar(pair, leg, old, b, closes) ==
    LET in == Arrived(old, leg, b)
        s == IF Aligned(in) THEN [in EXCEPT !.bars = Seen(in.bars)] ELSE in
        free == Aligned(s) /\ Scored(s, b)
        cheap == SwanLeg(pair, SpreadEntry(b))
    IN  CASE free /\ s.spread # "NONE" /\ SwanExit(s, b) # "" ->
               Answer(ClearSwan(s),
                      <<Order(SwanLeg(pair, s.spread), "SELL", s.qty, SwanExit(s, b))>>)
          [] free /\ s.spread = "NONE" /\ SpreadEntry(b) # "NONE" ->
               Answer(SetSwan(s, SpreadEntry(b), b, Lot(closes[cheap])),
                      <<Order(cheap, "BUY", Lot(closes[cheap]), "entry")>>)
          [] OTHER -> Answer(s, <<>>)
=============================================================================
