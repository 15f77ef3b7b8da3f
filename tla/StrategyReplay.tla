--------------------------- MODULE StrategyReplay ---------------------------
(***************************************************************************)
(* What the four daily strategies report when their history is replayed.   *)
(*                                                                         *)
(* A key is a strategy together with its symbol or pair, the unit of the   *)
(* master ledger ("MA Pullback/TCS", "Black Swan/A/B").  A replay is a     *)
(* pure function of the bars of its key, so its state changes only when a  *)
(* bar arrives: one action per strategy says how one more bar can move it. *)
(* Prices and indicators are abstracted to the choice between the outcomes *)
(* they decide: enter, exit or hold.                                       *)
(*                                                                         *)
(* Bars of different keys arrive independently: the engine never compares  *)
(* the dates of two keys, each replay has its own today_date.              *)
(***************************************************************************)
EXTENDS Integers

CONSTANTS
    Keys,           \* strategy/symbol keys of the four portfolios
    StrategyOf,     \* StrategyOf[k]: the strategy of key k
    EntryPrices,    \* prices at which an entry can be reported
    ExitPrices,     \* prices at which an exit can be reported
    MaxHold,        \* max_hold_days, in bars
    MaxTrades,      \* bound: trades a key opens in a behaviour
    Legacy,         \* keys in a position opened before PAPER_TRADING_START
    None            \* no position, no closed trade

Strategies == {"Black Swan", "BB Squeeze", "MA Pullback", "Supertrend"}

(* The fill of these strategies' exits is dated on the bar AFTER the       *)
(* signal, so the trade is reported as closed today on both bars.          *)
NextDayExit == {"MA Pullback", "Supertrend"}

ASSUME StrategyAssumption == StrategyOf \in [Keys -> Strategies]
ASSUME PriceAssumption ==
    /\ EntryPrices \subseteq Nat \ {0}
    /\ ExitPrices \subseteq Nat \ {0}
ASSUME BoundAssumption ==
    /\ MaxHold \in Nat \ {0}
    /\ MaxTrades \in Nat
    /\ Legacy \subseteq Keys

(* A position: the number of the trade (0 for a legacy one), the price the *)
(* replay reports for its entry, the bars since the signal.  A closed      *)
(* trade: its number, exit price and the bars since the exit signal.       *)
Position == [trade : 0..MaxTrades, price : EntryPrices, age : 0..MaxHold]
Closed == [trade : 1..MaxTrades, price : ExitPrices, age : 0..1]

ASSUME NoneAssumption == None \notin Position \cup Closed

VARIABLES
    pos,        \* pos[k]: the position the replay of k ends in, or None
    closing,    \* closing[k]: the trade the replay reports as closed today
    trades      \* trades[k]: live trades k has opened so far

replayVars == <<pos, closing, trades>>

ReplayTypeOK ==
    /\ pos \in [Keys -> Position \cup {None}]
    /\ closing \in [Keys -> Closed \cup {None}]
    /\ trades \in [Keys -> 0..MaxTrades]

ReplayInit ==
    /\ pos \in [Keys -> [trade : {0}, price : EntryPrices, age : {1}] \cup {None}]
    /\ \A k \in Keys : pos[k] # None <=> k \in Legacy
    /\ closing = [k \in Keys |-> None]
    /\ trades = [k \in Keys |-> 0]

-----------------------------------------------------------------------------
(* The outcomes of one bar of key k.                                       *)

Aged(p) == [p EXCEPT !.age = @ + 1]

(* An entry signal on the last bar fills at that bar's close. *)
Entry(k, p) == [trade |-> trades[k] + 1, price |-> p, age |-> 0]

(* Only trades entered on or after PAPER_TRADING_START are reported.       *)
Exit(p, price) ==
    IF p.trade = 0 THEN None
    ELSE [trade |-> p.trade, price |-> price, age |-> 0]

CanEnter(k) == trades[k] < MaxTrades

(* Mutants of StillClosing: the exit is never dated today again; it is on   *)
(* every later bar.                                                        *)
ClosesOnce(k, price) == None
ClosesForever(k, price) ==
    IF StrategyOf[k] \in NextDayExit /\ closing[k] # None
    THEN [closing[k] EXCEPT !.price = price]
    ELSE None

(* What is left of an exit reported before this bar.  A next-day exit is   *)
(* dated today once more, now at the open it really filled at.             *)
StillClosing(k, price) ==
    IF /\ StrategyOf[k] \in NextDayExit
       /\ closing[k] # None
       /\ closing[k].age = 0
    THEN [closing[k] EXCEPT !.price = price, !.age = 1]
    ELSE None

(* Mutant of HoldBar: no max_hold_days. *)
HoldBarForever(k, left) ==
    /\ pos' = [pos EXCEPT ![k] = IF @ = None THEN None ELSE Aged(@)]
    /\ closing' = [closing EXCEPT ![k] = left]
    /\ UNCHANGED trades

(* max_hold_days forces the exit of a position that has been held long.    *)
HoldBar(k, left) ==
    /\ pos[k] # None => pos[k].age < MaxHold
    /\ pos' = [pos EXCEPT ![k] = IF @ = None THEN None ELSE Aged(@)]
    /\ closing' = [closing EXCEPT ![k] = left]
    /\ UNCHANGED trades

EnterBar(k, left) ==
    /\ pos[k] = None
    /\ CanEnter(k)
    /\ \E p \in EntryPrices : pos' = [pos EXCEPT ![k] = Entry(k, p)]
    /\ closing' = [closing EXCEPT ![k] = left]
    /\ trades' = [trades EXCEPT ![k] = @ + 1]

ExitBar(k) ==
    /\ pos[k] # None
    /\ \E p \in ExitPrices : closing' = [closing EXCEPT ![k] = Exit(pos[k], p)]
    /\ pos' = [pos EXCEPT ![k] = None]
    /\ UNCHANGED trades

(* Exit and a fresh entry on the same bar. *)
SwitchBar(k) ==
    /\ pos[k] # None
    /\ CanEnter(k)
    /\ \E p \in ExitPrices : closing' = [closing EXCEPT ![k] = Exit(pos[k], p)]
    /\ \E p \in EntryPrices : pos' = [pos EXCEPT ![k] = Entry(k, p)]
    /\ trades' = [trades EXCEPT ![k] = @ + 1]

-----------------------------------------------------------------------------
(* One more bar of each replay.  A bar is handled exit first; only the pair *)
(* replay goes on to look for an entry on the bar of an exit (the others    *)
(* continue with the next bar, or need a trend flip an exit bar excludes).  *)

SwanBar(k) ==
    /\ StrategyOf[k] = "Black Swan"
    /\ \/ HoldBar(k, None)
       \/ EnterBar(k, None)
       \/ ExitBar(k)
       \/ SwitchBar(k)

SqueezeBar(k) ==
    /\ StrategyOf[k] = "BB Squeeze"
    /\ \/ HoldBar(k, None)
       \/ EnterBar(k, None)
       \/ ExitBar(k)

PullbackBar(k) ==
    /\ StrategyOf[k] = "MA Pullback"
    /\ \/ \E p \in ExitPrices : HoldBar(k, StillClosing(k, p))
       \/ \E p \in ExitPrices : EnterBar(k, StillClosing(k, p))
       \/ ExitBar(k)

SupertrendBar(k) ==
    /\ StrategyOf[k] = "Supertrend"
    /\ \/ \E p \in ExitPrices : HoldBar(k, StillClosing(k, p))
       \/ \E p \in ExitPrices : EnterBar(k, StillClosing(k, p))
       \/ ExitBar(k)

NewBar(k) == SwanBar(k) \/ SqueezeBar(k) \/ PullbackBar(k) \/ SupertrendBar(k)

(* The workflow is scheduled for 15:15 IST, when the last bar is still      *)
(* forming: an entry signalled on it may be gone when the bar is complete.  *)
RetractEntry(k) ==
    /\ pos[k] # None
    /\ pos[k].age = 0
    /\ pos' = [pos EXCEPT ![k] = None]
    /\ UNCHANGED <<closing, trades>>
=============================================================================
