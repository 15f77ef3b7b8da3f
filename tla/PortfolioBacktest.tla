------------------------- MODULE PortfolioBacktest -------------------------
(***************************************************************************)
(* The portfolio backtests: scripts that replay every strategy with        *)
(* unlimited capital, collect the trades it closed, and then walk through  *)
(* the days once more with one account of limited capital.                 *)
(*                                                                         *)
(* collect_all_trades is one action per strategy, which says what trades   *)
(* its replay can close.  Begin picks an experiment; every experiment is   *)
(* one action, a whole turn of its day loop: exits first, then the day's   *)
(* entries, ranked, deduplicated, limited to the slots free cash pays for, *)
(* and sized.  A day is a number, money is counted in small units, and the *)
(* market data an experiment looks up is a free choice of each day.        *)
(*                                                                         *)
(* The trades are a set: they are collected key by key and, for a key, in  *)
(* the order of their entries, so that key and entry say which came first. *)
(***************************************************************************)
EXTENDS Integers, FiniteSets, Sequences, FiniteSetsExt, Functions

CONSTANTS
    Portfolio,      \* the keys that are replayed: a sequence of
                    \* [strategy, symbol]
    LastDay,        \* days are 1..LastDay
    Weekends,       \* possible sets of weekend sessions: days that are
                    \* traded but are no business days
    YearEnd,        \* the last day of the first year
    Moves,          \* the prices [price, sale] a trade is opened and closed at
    MaxTrades,      \* bound: trades that are collected
    Experiments,    \* the scripts that are run
    Capital, Chunk, \* TOTAL_CAPITAL, MIN_CHUNK
    SweptChunks, SweptRanks,    \* MIN_CHUNKs and priorities that the
                    \* sensitivity sweeps try
    FixedChunk, EntryCap, GoldChunk,
    GainGuard, Trigger,     \* percentages: GAIN_GUARD, the drawdown limit
    ResetDays,      \* business days a timed breaker blocks
    FlipDays,       \* bound: the days on which the index crosses its average
    Splits          \* windows [from, to] of the train/test experiments

Strategies == {"MA Pullback", "BB Squeeze", "Black Swan", "Supertrend"}
Symbols == {Portfolio[k].symbol : k \in DOMAIN Portfolio}
Days == 1..LastDay
Years == 1..2
Prices == {m.price : m \in Moves} \cup {m.sale : m \in Moves}

Trade == [key : DOMAIN Portfolio, entry : Days, exit : Days,
          price : Prices, sale : Prices]

None == [nothing |-> TRUE]

ASSUME BacktestAssumption ==
    /\ Portfolio \in Seq([strategy : Strategies, symbol : STRING])
    /\ SweptChunks \subseteq Nat \ {0}
    /\ SweptRanks \subseteq [Strategies -> Nat]
    /\ Moves \subseteq [price : Nat \ {0}, sale : Nat \ {0}]
    /\ {LastDay, Capital, Chunk, FixedChunk, EntryCap, GoldChunk,
        ResetDays, Trigger} \subseteq Nat \ {0}
    /\ Chunk <= FixedChunk
    /\ \A w \in Weekends : w \subseteq Days
    /\ Splits \subseteq [from : Days, to : Days]

VARIABLES
    phase,          \* "collect", "days" or, with a hedge sold last, "report"
    exp,            \* the experiment, chosen when the trades are collected
    trades,         \* the closed trades
    floor, rank,    \* its MIN_CHUNK and strategy priorities
    weekend,        \* the weekend sessions
    dates,          \* the dates its loop has still to visit
    cash, active,   \* free_cash and the open slots [trade, qty]
    pnl, yearly,    \* total_pnl, yearly_pnl
    peak,           \* peak_equity
    taken, skipped, \* trades_taken, trades_skipped
    blocked,        \* days_blocked
    triggered, cooldown,    \* of the timed breaker; cooldown 0 is None
    gold, bear      \* the GOLDBEES slot or None; yesterday's regime

account == <<cash, active, pnl, yearly, peak, taken, skipped>>
setup == <<exp, trades, floor, rank, weekend>>
gates == <<blocked, triggered, cooldown>>
hedge == <<gold, bear>>
vars == <<phase, exp, trades, floor, rank, weekend, dates, cash, active, pnl,
          yearly, peak, taken, skipped, blocked, triggered, cooldown, gold, bear>>

StrategyOf(t) == Portfolio[t.key].strategy
SymbolOf(t) == Portfolio[t.key].symbol
Year(d) == IF d <= YearEnd THEN 1 ELSE 2

-----------------------------------------------------------------------------
(* Collecting: the trades a replay closes, by strategy.                    *)

Init ==
    /\ phase = "collect" /\ exp = "none" /\ trades = {}
    /\ floor = Chunk /\ rank = [s \in Strategies |-> 0]
    /\ weekend = {} /\ dates = {}
    /\ cash = Capital /\ active = {} /\ pnl = 0
    /\ yearly = [y \in Years |-> 0] /\ peak = Capital
    /\ taken = 0 /\ skipped = 0 /\ blocked = 0
    /\ triggered = 0 /\ cooldown = 0
    /\ gold = None /\ bear = FALSE

(* Entry day, exit day and prices of a trade. *)
Stays == Days \X Days \X Moves

(* The replay of key k closed a trade.  Keys are replayed one after the    *)
(* other, and a key that left a position waits gap days before the next.   *)
Close(k, gap, stays) ==
    /\ phase = "collect" /\ Cardinality(trades) < MaxTrades
    /\ \A t \in trades : t.key <= k
    /\ \E stay \in stays :
       LET entry == stay[1] exit == stay[2] m == stay[3]
       IN /\ \A t \in trades : t.key = k => t.exit + gap <= entry
          /\ trades' = trades \cup
                {[key |-> k, entry |-> entry, exit |-> exit,
                  price |-> m.price, sale |-> m.sale]}
    /\ UNCHANGED <<phase, exp, floor, rank, weekend, dates, account, gates, hedge>>

(* Signal and fill are a bar apart, so a trade lasts a day at least; only  *)
(* on the last bar there is no next one to fill at.                        *)
NextOpen == {t \in Stays : t[1] < t[2] \/ (t[1] = t[2] /\ t[2] = LastDay)}

ReplayPullback(k) ==
    /\ Portfolio[k].strategy = "MA Pullback"
    /\ Close(k, 1, NextOpen)

ReplaySupertrend(k) ==
    /\ Portfolio[k].strategy = "Supertrend"
    /\ Close(k, 1, NextOpen)

(* A squeeze is stopped out within the bar, the bar it was entered on      *)
(* included: such a trade is closed, at a loss, on the day it was opened. *)
ReplaySqueeze(k) ==
    /\ Portfolio[k].strategy = "BB Squeeze"
    /\ Close(k, 1, {t \in Stays :
                      t[1] < t[2] \/ (t[1] = t[2] /\ t[3].sale < t[3].price)})

(* A pair fills at the close of the signal bar, and can enter again on it.  *)
ReplaySwan(k) ==
    /\ Portfolio[k].strategy = "Black Swan"
    /\ Close(k, 0, {t \in Stays : t[1] < t[2]})

Collect ==
    \E k \in DOMAIN Portfolio :
        \/ ReplayPullback(k) \/ ReplaySupertrend(k)
        \/ ReplaySqueeze(k) \/ ReplaySwan(k)

-----------------------------------------------------------------------------
(* Setting an experiment up.                                               *)

EngineRank == [s \in Strategies |->
    CASE s = "MA Pullback" -> 4 [] s = "Supertrend" -> 3
      [] s = "BB Squeeze" -> 2 [] s = "Black Swan" -> 1]

(* simulate_combinations puts Supertrend first. *)
CombosRank == [EngineRank EXCEPT !["MA Pullback"] = 3, !["Supertrend"] = 4]

Sweeps == {"sensitivity", "traintest"}
Ranks(e) ==
    CASE e \in {"combos", "walkforward"} -> {CombosRank}
      [] e \in Sweeps -> SweptRanks
      [] OTHER -> {EngineRank}
Floors(e) == IF e \in Sweeps THEN SweptChunks ELSE {Chunk}

BusinessDays(from, to, off) == (from..to) \ off

(* Which experiments walk over the dates of the trades, which end with the *)
(* exit of the trade that was ENTERED last, which never look for doubles.  *)

OnTradeDates == {"combos", "master", "tenyear", "walkforward"}
EndWithLastEntry == {"sensitivity", "fixed", "rebalance", "gold"}
Undeduplicated == {"combos", "master"}

LastEntered(ts) ==
    CHOOSE t \in ts : \A u \in ts :
        u.entry < t.entry \/ (u.entry = t.entry /\ u.key <= t.key)

(* all_dates of experiment e for the trades ts, the window w and the       *)
(* weekend sessions off.                                                   *)
LoopDates(e, ts, w, off) ==
    LET entries == {t.entry : t \in ts}
        exits == {t.exit : t \in ts}
    IN IF ts = {} THEN {} ELSE
       CASE e = "traintest" -> BusinessDays(w.from, w.to, off)
         [] e \in OnTradeDates -> entries \cup exits
         [] e \in EndWithLastEntry ->
                BusinessDays(Min(entries), LastEntered(ts).exit, off)
         [] OTHER -> BusinessDays(Min(entries), Max(exits), off)

(* The trades an experiment looks at.  A train/test split drops those that *)
(* straddle it, the walk-forward only looks at the day a trade was         *)
(* entered, and the first master backtest knows no Supertrend.             *)
InWindow(e, t, w) ==
    CASE e = "master" -> StrategyOf(t) # "Supertrend"
      [] e = "traintest" -> t.entry >= w.from /\ t.exit <= w.to
      [] e = "walkforward" -> t.entry >= w.from /\ t.entry <= w.to
      [] OTHER -> TRUE

Begin ==
    /\ phase = "collect" /\ trades # {}
    /\ phase' = "days"
    /\ \E e \in Experiments :
       \E f \in Floors(e), r \in Ranks(e),
          off \in (IF e \in OnTradeDates THEN {{}} ELSE Weekends),
          w \in (IF e \in {"traintest", "walkforward"} THEN Splits
                 ELSE {[from |-> 1, to |-> LastDay]}) :
          LET ts == {t \in trades : InWindow(e, t, w)} IN
          /\ exp' = e /\ floor' = f /\ rank' = r
          /\ trades' = ts /\ weekend' = off
          /\ dates' = LoopDates(e, ts, w, off)
    /\ UNCHANGED <<account, gates, hedge>>

-----------------------------------------------------------------------------
(* One day: what every loop computes from the account it finds.            *)

today == Min(dates)

(* The order of a day's trades: highest rank first, equal ranks in the     *)
(* order they were collected.                                              *)
Before(t, u) ==
    LET r == rank[StrategyOf(t)]
        q == rank[StrategyOf(u)]
    IN r > q \/ (r = q /\ t.key < u.key)
TodaysTrades == {t \in trades : t.entry = today}

SumOver(value) == FoldFunction(+, 0, value)
Cost(slots) == SumOver([s \in slots |-> s.trade.price * s.qty])
Value(slots) == SumOver([s \in slots |-> s.trade.sale * s.qty])

(* Mutant of Closing: exits are only looked at on a day with signals. *)
ClosingLate == {s \in active : s.trade.exit = today /\ TodaysTrades # {}}

Closing == {s \in active : s.trade.exit = today}
Kept == active \ Closing
Gain == Value(Closing) - Cost(Closing)

(* Mutant of FreeCash: an exit gives back what was paid. *)
FreeCashAtCost == cash + Cost(Closing)

FreeCash == cash + Cost(Closing) + Gain

Equity == Capital + pnl + Gain

Peak == Max({peak, Equity})
DeepDrawdown == (Peak - Equity) * 100 >= Trigger * Peak

(* The first trade in each symbol, and none in a symbol that is held. *)
Fresh(ts) ==
    {t \in ts :
        /\ \A s \in Kept : SymbolOf(s.trade) # SymbolOf(t)
        /\ \A u \in ts : Before(u, t) => SymbolOf(u) # SymbolOf(t)}

(* signals[:n] *)
First(ts, n) == {t \in ts : Cardinality({u \in ts : Before(u, t)}) < n}

(* Mutant of Affordable: a slot that is paid for in part. *)
AffordableRounded(c, chunk, ts) == Max({0, Min({c \div chunk + 1, Cardinality(ts)})})

(* The signals for which there is a slot of one chunk each. *)
Affordable(c, chunk, ts) == Max({0, Min({c \div chunk, Cardinality(ts)})})

(* max(1, int((num / den) / price)): one share is bought at any price. *)
Shares(num, den, price) == Max({1, num \div (den * price)})
Buy(selected, num, den) ==
    {[trade |-> t, qty |-> Shares(num, den, t.price)] : t \in selected}

(* Free cash is divided evenly among the signals that are selected. *)
Dynamic(ts, c) ==
    LET n == Affordable(c, floor, ts) IN Buy(First(ts, n), c, n)

YearsAfter(gain) == [yearly EXCEPT ![Year(today)] = @ + gain]

(* The day is over: the slots kept and bought, the cash left, the gain     *)
(* realized and the signals turned down.                                   *)
Settle(kept, bought, c, gain, turnedDown) ==
    /\ phase = "days"
    /\ active' = kept \cup bought
    /\ cash' = c - Cost(bought)
    /\ pnl' = pnl + gain
    /\ yearly' = YearsAfter(gain)
    /\ peak' = Max({peak, Capital + pnl + gain})
    /\ taken' = taken + Cardinality(bought)
    /\ skipped' = skipped + turnedDown
    /\ dates' = dates \ {today}
    /\ UNCHANGED <<phase, setup>>

(* A day without gates: bought out of the signals ts. *)
PlainDay(ts, bought) ==
    /\ Settle(Kept, bought, FreeCash, Gain, Cardinality(ts) - Cardinality(bought))
    /\ UNCHANGED <<gates, hedge>>

-----------------------------------------------------------------------------
(* The experiments.                                                        *)

Loop(e) == phase = "days" /\ exp = e /\ dates # {}

(* Doubles and held symbols are bought again. *)
CombosDay ==
    /\ Loop("combos")
    /\ PlainDay(TodaysTrades, Dynamic(TodaysTrades, FreeCash))

MasterDay ==
    /\ Loop("master")
    /\ PlainDay(TodaysTrades, Dynamic(TodaysTrades, FreeCash))

TenYearDay ==
    /\ Loop("tenyear")
    /\ LET ts == Fresh(TodaysTrades) IN PlainDay(ts, Dynamic(ts, FreeCash))

WalkForwardDay ==
    /\ Loop("walkforward")
    /\ LET ts == Fresh(TodaysTrades) IN PlainDay(ts, Dynamic(ts, FreeCash))

SensitivityDay ==
    /\ Loop("sensitivity")
    /\ LET ts == Fresh(TodaysTrades) IN PlainDay(ts, Dynamic(ts, FreeCash))

TrainTestDay ==
    /\ Loop("traintest")
    /\ LET ts == Fresh(TodaysTrades) IN PlainDay(ts, Dynamic(ts, FreeCash))

(* A position is capped at EntryCap. *)
EntryCapDay ==
    /\ Loop("entrycap")
    /\ LET ts == Fresh(TodaysTrades)
           n == Affordable(FreeCash, floor, ts)
       IN PlainDay(ts, Buy(First(ts, n), Min({FreeCash, EntryCap * n}), n))

(* Every position is one FixedChunk.  Only a count of 0 skips the day: an  *)
(* overdrawn account has a negative one, and signals[:n] is then all of    *)
(* them but the last -n.                                                   *)
FixedDay ==
    /\ Loop("fixed")
    /\ LET ts == Fresh(TodaysTrades)
           slots == FreeCash \div FixedChunk
           n == IF slots >= 0 THEN slots ELSE Cardinality(ts) + slots
       IN PlainDay(ts, Buy(First(ts, n), FixedChunk, 1))

(* A gate that shuts the day out of entries; exits are done already. *)
GatedDay(shut) ==
    LET ts == IF shut THEN {} ELSE Fresh(TodaysTrades) IN
    /\ Settle(Kept, Dynamic(ts, FreeCash), FreeCash, Gain, 0)
    /\ blocked' = blocked + (IF shut THEN 1 ELSE 0)
    /\ UNCHANGED hedge

VixDay ==
    /\ Loop("vix")
    /\ \E volatile \in BOOLEAN : GatedDay(volatile /\ TodaysTrades # {})
    /\ UNCHANGED <<triggered, cooldown>>

RegimeDay ==
    /\ Loop("regime")
    /\ \E below \in BOOLEAN : GatedDay(below /\ TodaysTrades # {})
    /\ UNCHANGED <<triggered, cooldown>>

(* Symbols below their average are dropped before doubles are looked for.  *)
MomentumDay ==
    /\ Loop("momentum")
    /\ \E weak \in SUBSET TodaysTrades :
          LET ts == Fresh(TodaysTrades \ weak) IN
          Settle(Kept, Dynamic(ts, FreeCash), FreeCash, Gain, 0)
    /\ UNCHANGED <<gates, hedge>>

(* No entries until equity has recovered. *)
BreakerDay ==
    /\ Loop("breaker")
    /\ GatedDay(DeepDrawdown /\ TodaysTrades # {})
    /\ UNCHANGED <<triggered, cooldown>>

(* The n-th business day after day d; weekend sessions end with LastDay.   *)
BusinessDayAfter(d, n) ==
    Min({x \in (d + n)..(d + n + LastDay) :
            Cardinality(BusinessDays(d + 1, x, weekend)) >= n})

(* Mutant of Cooling: a cooldown holds until equity has recovered. *)
CoolingUntilRecovery(until) == until # 0 /\ (today <= until \/ DeepDrawdown)

Cooling(until) == until # 0 /\ today <= until

(* No entries for ResetDays after a deep drawdown.  Only a day with        *)
(* signals looks; the first one after the cooldown trades, deep or not.    *)
TimedDay ==
    /\ Loop("timed")
    /\ LET tripped == TodaysTrades # {} /\ cooldown = 0 /\ DeepDrawdown
           until == IF tripped THEN BusinessDayAfter(today, ResetDays)
                    ELSE cooldown
           shut == TodaysTrades # {} /\ Cooling(until)
       IN /\ GatedDay(shut)
          /\ triggered' = triggered + (IF tripped THEN 1 ELSE 0)
          /\ cooldown' = IF TodaysTrades = {} \/ shut THEN until ELSE 0

-----------------------------------------------------------------------------
(* Rebalancing: without cash for a slot, positions that have not gained    *)
(* GainGuard are sold down to an equal share of the capital.               *)

(* The shares of slot s that are sold when there are n positions; a pair   *)
(* is left alone, it has no price of its own.                              *)
Trim(s, quote, n) ==
    LET cost == s.trade.price * s.qty IN
    IF \/ StrategyOf(s.trade) = "Black Swan"
       \/ (quote - s.trade.price) * 100 >= GainGuard * s.trade.price
       \/ cost * n <= Capital
    THEN 0
    ELSE (cost * n - Capital) \div (n * quote)

(* Each signal is bought if the cash c that those bought before it left    *)
(* still pays for it.                                                      *)
InTurn(bought, slots, c) ==
    \A s \in slots : s \in bought <=>
        Cost({s}) <= c - Cost({r \in bought : Before(r.trade, s.trade)})

Rebalance(ts, quote) ==
    LET held == Cardinality(Kept)
        crowded == Capital < floor * (held + Cardinality(ts))
        new == IF crowded THEN First(ts, Capital \div floor - held) ELSE ts
        n == held + Cardinality(new)
        sold == [s \in Kept |-> Trim(s, quote[SymbolOf(s.trade)], n)]
        freed == SumOver([s \in Kept |-> sold[s] * quote[SymbolOf(s.trade)]])
        gained == freed - SumOver([s \in Kept |-> sold[s] * s.trade.price])
        c == FreeCash + freed
        slots == IF c < floor THEN {} ELSE Buy(new, Capital, n)
    IN IF new = {}
       THEN Settle(Kept, {}, FreeCash, Gain, Cardinality(ts))
       ELSE \E bought \in SUBSET slots :
              /\ InTurn(bought, slots, c)
              /\ Settle({[s EXCEPT !.qty = @ - sold[s]] : s \in Kept}, bought, c,
                        Gain + gained, Cardinality(new) - Cardinality(bought))

RebalanceDay ==
    /\ Loop("rebalance")
    /\ LET ts == Fresh(TodaysTrades) IN
       \/ /\ ts = {} \/ FreeCash >= floor
          /\ LET bought == Dynamic(ts, FreeCash) IN
             Settle(Kept, bought, FreeCash, Gain, Cardinality(ts) - Cardinality(bought))
       \/ /\ ts # {} /\ FreeCash < floor
          /\ \E quote \in [{SymbolOf(s.trade) : s \in Kept} -> Prices] :
                Rebalance(ts, quote)
    /\ UNCHANGED <<gates, hedge>>

-----------------------------------------------------------------------------
(* The gold hedge: one chunk of GOLDBEES while the index is below its      *)
(* average.  It is bought and sold on the day the regime flips, never      *)
(* later; open is 0 where the ETF has no price that day.                   *)

GoldCost == IF gold = None THEN 0 ELSE gold.qty * gold.price

HedgeSold(today_bear, open) == gold # None /\ bear /\ ~today_bear

GoldDay ==
    /\ Loop("gold")
    /\ \E today_bear \in (IF today \in FlipDays THEN BOOLEAN ELSE {bear}) :
       \E open \in (IF today_bear = bear THEN {0} ELSE Prices \cup {0}) :
          LET sold == HedgeSold(today_bear, open)
              price == IF open = 0 THEN gold.price ELSE open
              gained == IF sold THEN gold.qty * (price - gold.price) ELSE 0
              c == FreeCash + (IF sold THEN GoldCost + gained ELSE 0)
              buys == /\ today_bear /\ ~bear /\ gold = None
                      /\ c >= GoldChunk /\ open # 0
              qty == Shares(GoldChunk, 1, open)
              left == c - (IF buys THEN qty * open ELSE 0)
              ts == Fresh(TodaysTrades)
              bought == Dynamic(ts, left)
          IN /\ Settle(Kept, bought, left, Gain + gained,
                       Cardinality(ts) - Cardinality(bought))
             /\ gold' = CASE buys -> [qty |-> qty, price |-> open]
                          [] sold -> None
                          [] OTHER -> gold
             /\ bear' = today_bear
    /\ UNCHANGED gates

(* The loop is over and a hedge is still open: its result at the last      *)
(* close goes into total_pnl, but into no year.                            *)
SellHedge ==
    /\ phase = "days" /\ dates = {} /\ gold # None
    /\ phase' = "report"
    /\ \E close \in Prices : pnl' = pnl + gold.qty * (close - gold.price)
    /\ UNCHANGED <<setup, dates, cash, active, yearly, peak, taken, skipped,
                   gates, hedge>>

Next ==
    \/ Collect \/ Begin \/ SellHedge
    \/ CombosDay \/ MasterDay \/ TenYearDay \/ WalkForwardDay
    \/ SensitivityDay \/ TrainTestDay \/ EntryCapDay \/ FixedDay
    \/ VixDay \/ RegimeDay \/ MomentumDay \/ BreakerDay \/ TimedDay
    \/ RebalanceDay \/ GoldDay

Spec == Init /\ [][Next]_vars

-----------------------------------------------------------------------------
(* Properties.                                                             *)

Slot == [trade : Trade, qty : Int]

(* Every variable has the shape its loop gives it, and a position taken by *)
(* any loop but the rebalancing one is at least a share: max(1, int(...)). *)
TypeOK ==
    /\ phase \in {"collect", "days", "report"}
    /\ exp \in Experiments \cup {"none"}
    /\ trades \subseteq Trade
    /\ weekend \subseteq Days /\ dates \subseteq Days
    /\ {cash, pnl} \subseteq Int
    /\ \A s \in active : s \in Slot /\ (exp # "rebalance" => s.qty >= 1)
    /\ yearly \in [Years -> Int]
    /\ {peak, taken, skipped, blocked, triggered, cooldown} \subseteq Nat
    /\ gold = None \/ gold \in [qty : Nat \ {0}, price : Prices]
    /\ bear \in BOOLEAN

(* Capital is never made or lost on the way: free cash, the cost of the    *)
(* open slots and of the hedge are the capital plus what was realized,     *)
(* through exits, partial sales and hedging; the years add up to the total *)
(* (but for a hedge still open at the end: its result is in the total      *)
(* alone); and where skipped trades are counted and every date is visited, *)
(* each collected trade has been taken or skipped at the end.              *)
CapitalConserved ==
    /\ TypeOK
    /\ phase # "report" =>
          /\ cash + Cost(active) + GoldCost = Capital + pnl
          /\ pnl = SumOver(yearly)
    /\ exp \in Undeduplicated /\ dates = {} => taken + skipped = Cardinality(trades)

(* The loops that deduplicate hold no symbol twice, over all strategies    *)
(* and days.                                                               *)
OneSlotPerSymbol ==
    exp \notin Undeduplicated =>
        \A s, t \in active : SymbolOf(s.trade) = SymbolOf(t.trade) => s = t

(* A slot whose exit day has passed is one the loop can never close again: *)
(* it was opened after that day's exits had been done, or the loop does    *)
(* not visit its exit day because it is a weekend session.                 *)
OnlyStrandedStay ==
    \A s \in active :
        LET d == s.trade.exit
            past == IF dates # {} THEN d < today ELSE exp \notin EndWithLastEntry
        IN past => \/ d = s.trade.entry
                   \/ d \in weekend

(* Cash only turns negative through a share that costs more than a whole   *)
(* chunk, which max(1, ...) buys all the same, or by closing a position    *)
(* that rebalancing, after a steep fall, sold more shares of than it held. *)
OverdrawnByDearShare ==
    [][ cash >= 0 /\ cash' < 0 =>
            \/ \E s \in active' \ active : s.trade.price > floor
            \/ exp = "rebalance" /\ \E s \in active : s.qty < 0
            \/ gold' # gold /\ gold'.price > GoldChunk ]_vars

LockedOut ==
    /\ phase = "days" /\ exp = "breaker" /\ active = {}
    /\ (peak - (Capital + pnl)) * 100 >= Trigger * peak

(* The breaker that waits for a recovery never trades again once it holds  *)
(* no position: realized equity cannot move any more.  The timed one does  *)
(* ("then automatically resume (regardless of whether equity has           *)
(* recovered)", backtest_circuit_breaker_timed.py:4): the first day with   *)
(* signals after a cooldown is open to entries and resets it.              *)
BreakersRelease ==
    [][ /\ LockedOut => active' = {} /\ pnl' = pnl
        /\ exp = "timed" /\ cooldown # 0 /\ dates # {} /\ today > cooldown
           /\ TodaysTrades # {} => blocked' = blocked /\ cooldown' = 0 ]_vars

(* The hedge is held through a bear regime and never into a bull one, with *)
(* or without a price on the day of the flip.                              *)
HedgeFollowsRegime == gold # None => bear

(* What is open has a reason to be: one slot per symbol, an exit day still *)
(* to come or never visited, and a regime to hedge.                        *)
SlotsClose == OneSlotPerSymbol /\ OnlyStrandedStay /\ HedgeFollowsRegime
=============================================================================
