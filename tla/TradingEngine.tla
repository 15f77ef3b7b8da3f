--------------------------- MODULE TradingEngine ---------------------------
(***************************************************************************)
(* One backtest or paper run: the feed's bars in the order of their        *)
(* timestamps, the strategy on each bar, its intents one after the other   *)
(* through the risk engine and the broker, the portfolio marked after the  *)
(* last of them.  The strategy of a run and whether the run has a risk     *)
(* engine are fixed when it starts.                                        *)
(***************************************************************************)
EXTENDS IntradayStrategies, SwingStrategies, RiskEngine, BacktestReport

CONSTANTS
    Universe,       \* Universe[k]: the symbols of a run of kind k, in order
    Calendar,       \* Calendar[k]: the <<day, time>> pairs of its bars
    Facts,          \* Facts[k]: what its bars can say, but for the close
    Prices,         \* closes, and limit prices
    Kinds,          \* the strategies of the runs
    Orders,         \* the orders a strategy of kind ANY sends
    RiskModes,      \* with ("on") and without ("off") a risk engine
    InitialCash,    \* initial_cash
    MaxFills,       \* bound: fills of a run
    NoBar           \* no bar is being processed

Intraday == {"ORB", "GAP_FADE", "GAP_CONTINUATION", "VWAP", "FIRST_HOUR"}
Swing == {"SUPERTREND", "RSI2", "MA_PULLBACK"}
Ratio == {"PAIRS", "BLACK_SWAN", "LONG_SWAN"}
Shipped == Intraday \cup Swing \cup Ratio

(* ANY stands for a strategy of a user or a test: any order on any bar.    *)
ASSUME KindAssumption == Kinds \subseteq Shipped \cup {"ANY"}
ASSUME OrderAssumption ==
    \A o \in Orders : o.side \in {"BUY", "SELL"} /\ o.qty \in Nat \ {0} /\ o.price \in Nat
ASSUME CashAssumption == InitialCash \in Nat \ {0}

(* Bars have a time and a positive close; an entry signal is there or not. *)
ASSUME FeedAssumption ==
    /\ \A k \in Kinds : /\ Calendar[k] \subseteq Nat \X Nat
                        /\ \A f \in Facts[k] : f.signal \in BOOLEAN
    /\ Prices \subseteq Nat \ {0}
    /\ MaxFills \in Nat

Symbols == UNION {{Universe[k][i] : i \in 1..Len(Universe[k])} : k \in Kinds}

VARIABLES
    kind,       \* the strategy of this run
    risked,     \* the run has a risk engine
    clock,      \* <<day, time, place of the symbol>> of the last bar
    latest,     \* latest_prices, 0 before the first bar of a symbol
    bar,        \* the bar being processed, or NoBar
    pending,    \* intents of the bar not yet handled
    mind,       \* state of the strategy, per symbol or for the pair
    pos,        \* positions of the portfolio
    cash,
    risk,       \* state of the risk engine
    fills,      \* the fills of the run
    diverged    \* history: symbols the strategy is wrong about, see below

vars == <<kind, risked, clock, latest, bar, pending, mind, pos, cash, risk, fills, diverged>>

Syms == {Universe[kind][i] : i \in 1..Len(Universe[kind])}

FirstMind(k) ==
    CASE k \in Intraday -> [s \in Symbols |-> NewState]
      [] k \in Swing -> [s \in Symbols |-> NewSwing]
      [] OTHER -> NewPair

(* What the strategy takes for its position, in shares of s. *)
Believed(s) ==
    CASE kind \in Intraday ->
           (CASE mind[s].side = "LONG" -> Quantity
              [] mind[s].side = "SHORT" -> 0 - Quantity
              [] OTHER -> 0)
      [] kind \in Swing -> mind[s].qty
      [] kind = "LONG_SWAN" ->
           IF mind.spread # "NONE" /\ SwanLeg(Universe[kind], mind.spread) = s
           THEN mind.qty ELSE 0
      [] OTHER ->
           IF mind.spread = "NONE" THEN 0
           ELSE IF (mind.spread = "LONG") = (s = Universe[kind][1])
           THEN LegQuantity ELSE 0 - LegQuantity

Init ==
    /\ kind \in Kinds
    /\ risked \in {m = "on" : m \in RiskModes}
    /\ clock = <<0, 0, 0>>
    /\ latest = [s \in Symbols |-> 0]
    /\ bar = NoBar /\ pending = <<>>
    /\ mind = FirstMind(kind)
    /\ pos = [s \in Symbols |-> NoPosition]
    /\ cash = InitialCash
    /\ risk \in {NewRisk, Activate(NewRisk)}
    /\ fills = <<>>
    /\ diverged = {}

-----------------------------------------------------------------------------
(* A bar of the strategy. *)

IntradayTurn(s, b) ==
    CASE kind = "ORB" -> OrbBar(s, b)
      [] kind = "GAP_FADE" -> FadeBar(s, b)
      [] kind = "GAP_CONTINUATION" -> ContinuationBar(s, b)
      [] kind = "VWAP" -> VwapBar(s, b)
      [] OTHER -> MomentumBar(s, b)
SwingTurn(s, b) ==
    CASE kind = "SUPERTREND" -> SupertrendBar(s, b)
      [] kind = "RSI2" -> RsiBar(s, b)
      [] OTHER -> PullbackBar(s, b)
RatioTurn(i, b, closes) ==
    CASE kind = "PAIRS" -> PairsBar(Universe[kind], i, mind, b)
      [] kind = "BLACK_SWAN" -> BlackSwanBar(Universe[kind], i, mind, b)
      [] OTHER -> LongSwanBar(Universe[kind], i, mind, b, closes)

AnyIntents ==
    {[symbol |-> s, side |-> o.side, qty |-> o.qty, type |-> o.type, price |-> o.price,
      reason |-> "any"] : s \in Syms, o \in Orders}

(* iter_bars: by timestamp, then by symbol. *)
Follows(slot, i) ==
    \/ slot[1] > clock[1]
    \/ slot[1] = clock[1] /\ slot[2] > clock[2]
    \/ slot[1] = clock[1] /\ slot[2] = clock[2] /\ i > clock[3]

(* On the first bar of a day the intraday strategies and the pairs forget  *)
(* a position they still believed in.                                      *)
Forgotten(i, b) ==
    IF kind \in Intraday /\ mind[b.symbol].day # b.day /\ Believed(b.symbol) # 0
    THEN {b.symbol}
    ELSE IF kind = "PAIRS" /\ mind.day # b.day /\ mind.spread # "NONE" THEN Syms ELSE {}

NextBar(slot, i, close, fact) ==
    LET s == Universe[kind][i]
        b == [symbol |-> s, day |-> slot[1], time |-> slot[2], close |-> close,
              gap |-> fact.gap, signal |-> fact.signal, hit |-> fact.hit,
              trend |-> fact.trend, z |-> fact.z, flat |-> fact.flat,
              touch |-> fact.touch]
        closes == [latest EXCEPT ![s] = close]
    IN  /\ bar = NoBar /\ pending = <<>>
        /\ Len(fills) < MaxFills
        /\ Follows(slot, i)
        /\ clock' = <<slot[1], slot[2], i>>
        /\ latest' = closes
        /\ bar' = [symbol |-> s, day |-> slot[1], time |-> slot[2], close |-> close,
                   touch |-> fact.touch]
        /\ diverged' = diverged \cup Forgotten(i, b)
        /\ CASE kind \in Intraday ->
                  LET turn == IntradayTurn(mind[s], b)
                  IN  mind' = [mind EXCEPT ![s] = turn.state] /\ pending' = turn.intents
             [] kind \in Swing ->
                  LET turn == SwingTurn(mind[s], b)
                  IN  mind' = [mind EXCEPT ![s] = turn.state] /\ pending' = turn.intents
             [] kind \in Ratio ->
                  LET turn == RatioTurn(i, b, closes)
                  IN  mind' = turn.state /\ pending' = turn.intents
             [] OTHER ->
                  mind' = mind /\ pending' \in {<<>>} \cup {<<n>> : n \in AnyIntents}
        /\ UNCHANGED <<kind, risked, pos, cash, risk, fills>>

-----------------------------------------------------------------------------
(* The intents of the bar. *)

(* realized_pnl, and with unrealized_pnl, of get_snapshot. *)
SumOver(value) == FoldFunction(+, 0, value)
RealizedPnL == SumOver([s \in Symbols |-> pos[s].realized])
SnapshotPnL == RealizedPnL + SumOver([s \in Symbols |-> pos[s].unrealized])

(* None when the run has no risk engine: every intent is approved. *)
RiskCheck(intent) ==
    IF risked THEN Objection(risk, intent, pos, SnapshotPnL, bar) ELSE ""

Reject ==
    /\ pending # <<>> /\ RiskCheck(Head(pending)) # ""
    /\ pending' = Tail(pending)
    /\ diverged' = diverged \cup {Head(pending).symbol}
    /\ UNCHANGED <<kind, risked, clock, latest, bar, mind, pos, cash, risk, fills>>

Execute ==
    LET intent == Head(pending)
        s == intent.symbol
        price == FillPrice(intent, bar)
    IN  /\ pending # <<>> /\ RiskCheck(intent) = ""
        /\ pending' = Tail(pending)
        /\ risk' = IF risked THEN Recorded(risk, bar) ELSE risk
        /\ IF Fills(pos[s], intent, bar)
           THEN /\ pos' = [pos EXCEPT ![s] = AfterFill(@, intent.side, intent.qty, price)]
                /\ cash' = cash + CashFlow(intent.side, intent.qty, price)
                /\ fills' = Append(fills,
                        [symbol |-> s, side |-> intent.side, qty |-> intent.qty,
                         price |-> price,
                         fees |-> Fees(intent.side, intent.qty, price)])
                /\ UNCHANGED diverged
           ELSE /\ diverged' = diverged \cup {s}
                /\ UNCHANGED <<pos, cash, fills>>
        /\ UNCHANGED <<kind, risked, clock, latest, bar, mind>>

(* mark_to_market ends the bar. *)
Mark ==
    /\ bar # NoBar /\ pending = <<>>
    /\ pos' = [s \in Symbols |-> Marked(pos[s], latest[s])]
    /\ bar' = NoBar
    /\ UNCHANGED <<kind, risked, clock, latest, pending, mind, cash, risk, fills, diverged>>

Next ==
    \/ \E slot \in Calendar[kind], i \in 1..Len(Universe[kind]),
          close \in Prices, fact \in Facts[kind] : NextBar(slot, i, close, fact)
    \/ Reject
    \/ Execute
    \/ Mark

Spec == Init /\ [][Next]_vars
-----------------------------------------------------------------------------
(* Bars, strategy states, positions, risk state and fills keep their types *)
(* whichever strategy the engine runs.                                     *)
TypeOK ==
    /\ kind \in Kinds /\ risked \in BOOLEAN
    /\ clock \in Nat \X Nat \X Nat
    /\ latest \in [Symbols -> Prices \cup {0}]
    /\ bar = NoBar \/ bar.symbol \in Syms
    /\ kind \in Intraday => mind \in [Symbols -> SymbolState]
    /\ kind \in Swing => mind \in [Symbols -> SwingState]
    /\ kind \in Ratio \cup {"ANY"} => mind \in PairState
    /\ \A i \in 1..Len(pending) : pending[i].symbol \in Syms
    /\ DOMAIN pos = Symbols
    /\ \A s \in Symbols : pos[s].qty \in Int /\ pos[s].cost \in Nat
    /\ cash \in Int
    /\ risk.approved \in Nat
    /\ Len(fills) \in 0..(MaxFills + 1)
    /\ diverged \subseteq Symbols

(* The strategy never hears of its orders, yet between bars what it takes  *)
(* for its position is the portfolio's, for every symbol but those with an *)
(* order that was refused or dropped and those whose position it forgot    *)
(* overnight.  Only then can a strategy that never shorts be found short.  *)
InStep ==
    pending = <<>> /\ kind \in Shipped =>
        \A s \in Syms \ diverged : pos[s].qty = Believed(s)

(* The strategies with a latest entry before their square-off are flat at  *)
(* the end of every bar at or after it.  (The opening range breakout and   *)
(* the pairs still enter then.)                                            *)
SquaredOff ==
    kind \in {"GAP_FADE", "GAP_CONTINUATION", "VWAP", "FIRST_HOUR"}
        /\ bar # NoBar /\ pending = <<>> =>
            (bar.time >= SquareOff /\ bar.symbol \notin diverged => pos[bar.symbol].qty = 0)

(* With a risk engine no strategy of the repository ever trades: they send *)
(* market orders, whose value the engine can only estimate from a position *)
(* the portfolio already has (_estimate_price), and it never gets one.     *)
RiskedRunsStayFlat == risked /\ kind \in Shipped => fills = <<>>

(* With a risk engine the symbols held long and the approved orders never  *)
(* exceed their limits, whatever the strategy sends and the broker fills,  *)
(* and a kill switch on from the start lets nothing through.               *)
WithinLimits ==
    risked => /\ Cardinality(LongHeld(pos)) <= MaxOpenPositions
              /\ risk.approved <= MaxTradesPerDay
              /\ risk.kill => fills = <<>>

(* Cash and the cost of what is held make up the initial cash, the booked  *)
(* P&L and the fees of the fills that booked none, whatever was bought,    *)
(* sold short, covered or turned around.                                   *)
BooksBalance ==
    /\ TypeOK
    /\ LET signed(p) == IF p.qty < 0 THEN 0 - p.cost ELSE p.cost
       IN  cash + SumOver([s \in Symbols |-> signed(pos[s])]) =
               InitialCash + RealizedPnL - SumOver([s \in Symbols |-> pos[s].paid])

(* Runs that bought each symbol at one price only, in as many parts as     *)
(* they liked, and never sold shares they had not bought.                  *)
OnePrice ==
    \A i, j \in 1..Len(fills) :
        fills[i].symbol = fills[j].symbol /\ fills[i].side = "BUY" /\ fills[j].side = "BUY"
            => fills[i].price = fills[j].price
OnlyCloses ==
    \A k \in 1..Len(fills) : LET past == SubSeq(fills, 1, k)
                                 s == fills[k].symbol
                             IN  Shares(past, s, "SELL") <= Shares(past, s, "BUY")

(* The realized P&L of the report is the portfolio's on those runs.  (On a *)
(* purchase at another price or a short it is not: the queue of the FIFO   *)
(* cost basis is never consumed and an opening sale counts as all profit.) *)
(* A report that passes a gate on the profit factor of at least 1 is then  *)
(* one of a run whose closed trades did not lose money.                    *)
ReportAgrees ==
    OnePrice /\ OnlyCloses =>
        /\ ReportedPnL(fills) = RealizedPnL
        /\ MinProfitFactor[1] >= MinProfitFactor[2] /\ PassesGates(fills) =>
              RealizedPnL >= 0

(* "MARKET orders always fill at bar close" (simulated_broker.py:50): a    *)
(* market order fills at the last close of its own symbol.                 *)
FillsAtOwnClose ==
    [][fills' # fills /\ kind \in Shipped =>
         LET f == fills'[Len(fills')]
         IN  f.price = SlippedPrice(f.side, latest[f.symbol])]_vars
=============================================================================
