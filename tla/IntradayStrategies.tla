------------------------- MODULE IntradayStrategies -------------------------
(***************************************************************************)
(* The five intraday strategies: what one bar makes each of them believe   *)
(* and order.  Every strategy keeps one state per symbol and forgets it on *)
(* the first bar of a day.  It never hears what became of an order: an     *)
(* intent it returns is, for it, filled.                                   *)
(*                                                                         *)
(* A bar carries, besides its symbol, day, time and close, the facts the   *)
(* strategies read off prices and volumes: gap, the qualified move of the  *)
(* opening bar or of the first window; signal, all price conditions of an  *)
(* entry; hit, the exit levels the bar reaches.                            *)
(***************************************************************************)
EXTENDS Integers, Sequences

CONSTANTS
    Times,              \* the times of day a bar can have
    SessionStart,       \* session_start
    RangeEnd,           \* end of the opening range of ORB
    EntryStart,         \* entry_start_time, earliest_entry_time, no_trade_before
    LatestEntry,        \* latest_entry_time, no_new_entries_after
    SquareOff,          \* square_off_time
    WindowBars,         \* momentum_window_minutes, in bars
    SlopeBars,          \* vwap_slope_lookback_bars
    MinBars,            \* min_bars_before_trading, min_bars_before_signal
    DailyEntries,       \* max_trades_per_symbol_per_day
    AllowReentry,       \* allow_reentry
    AllowLong,          \* allow_long_fades, allow_long_continuations
    AllowShort,         \* allow_short_fades, ..., allow_shorts
    Quantity            \* quantity

(* The constructors of the configurations raise unless these hold.  The    *)
(* opening range breakout relates none of its times to each other.         *)
OrbConfig == RangeEnd \in Times /\ SquareOff \in Times /\ Quantity \in Nat \ {0}
FadeConfig == DailyEntries \in Nat \ {0} /\ SquareOff > LatestEntry
ContinuationConfig == FadeConfig
VwapConfig ==
    /\ FadeConfig
    /\ LatestEntry > EntryStart
    /\ SlopeBars \in Nat \ {0}
    /\ MinBars >= SlopeBars
MomentumConfig ==
    /\ FadeConfig
    /\ LatestEntry >= EntryStart
    /\ WindowBars \in Nat \ {0}
    /\ MinBars >= WindowBars

ASSUME ConfigAssumption ==
    /\ Times \subseteq Nat
    /\ {SessionStart, EntryStart, LatestEntry, MinBars} \subseteq Nat
    /\ {AllowReentry, AllowLong, AllowShort} \subseteq BOOLEAN
    /\ OrbConfig /\ ContinuationConfig /\ VwapConfig /\ MomentumConfig

Sides == {"LONG", "SHORT", "FLAT"}

(* One _SymbolState: day it is for (0 before the first bar); bars seen,    *)
(* bars in the window; the range or window is complete; the opening bar    *)
(* was seen; direction of the gap or window; closes of this and of the     *)
(* previous day are known; entered today; entries today; the position the  *)
(* strategy believes it has.                                               *)
SymbolState ==
    [day : Nat, bars : 0..MinBars, window : 0..WindowBars, ready : BOOLEAN,
     opened : BOOLEAN, direction : Sides, closed : BOOLEAN, prior : BOOLEAN,
     entered : BOOLEAN, entries : 0..DailyEntries, side : Sides]

NewState ==
    [day |-> 0, bars |-> 0, window |-> 0, ready |-> FALSE, opened |-> FALSE,
     direction |-> "FLAT", closed |-> FALSE, prior |-> FALSE,
     entered |-> FALSE, entries |-> 0, side |-> "FLAT"]

(* The resets; only the gap strategies carry something, the last close. *)
OrbReset(day, s) == [NewState EXCEPT !.day = day]
VwapReset(day) == [NewState EXCEPT !.day = day]
MomentumReset(day) == [NewState EXCEPT !.day = day]
FadeReset(day, s) == [NewState EXCEPT !.day = day, !.prior = s.closed]
ContinuationReset(day, s) == [NewState EXCEPT !.day = day, !.prior = s.closed]

Intent(symbol, side, qty, reason) ==
    [symbol |-> symbol, side |-> side, qty |-> qty,
     type |-> "MARKET", price |-> 0, reason |-> reason]

Turn(s, intents) == [state |-> s, intents |-> intents]
Counted(n, cap) == IF n < cap THEN n + 1 ELSE n
Direction(gap) == CASE gap = "UP" -> "LONG" [] gap = "DOWN" -> "SHORT" [] OTHER -> "FLAT"
Against(gap) == CASE gap = "UP" -> "SHORT" [] gap = "DOWN" -> "LONG" [] OTHER -> "FLAT"
Allowed(side) == (side = "LONG" => AllowLong) /\ (side = "SHORT" => AllowShort)

EntryIntent(b, side, reason) ==
    Intent(b.symbol, IF side = "LONG" THEN "BUY" ELSE "SELL", Quantity, reason)
(* Mutant of ExitIntent: a short is closed like a long. *)
ExitSells(b, side, reason) == Intent(b.symbol, "SELL", Quantity, reason)

ExitIntent(b, side, reason) ==
    Intent(b.symbol, IF side = "LONG" THEN "SELL" ELSE "BUY", Quantity, reason)

(* Exit levels in the order the code tries them; "" when none is reached.  *)
FirstHit(levels, b) ==
    LET hits == SelectSeq(levels, LAMBDA l : l \in b.hit)
    IN  IF hits = <<>> THEN "" ELSE Head(hits)
SquareOffFirst(b) ==
    IF b.time >= SquareOff THEN "square_off" ELSE FirstHit(<<"stop", "target">>, b)
SquareOffLast(levels, b) ==
    IF FirstHit(levels, b) # "" THEN FirstHit(levels, b)
    ELSE IF b.time >= SquareOff THEN "square_off" ELSE ""

-----------------------------------------------------------------------------
(* Opening range breakout (orb.py).  The signal is the breakout of the     *)
(* range with the stop below the close.  An entry has no latest time.      *)

OrbExit(b) == SquareOffFirst(b)

OrbOpen(s, b) == ~ s.entered /\ s.window > 0 /\ b.signal

OrbBar(old, b) ==
    LET s == IF old.day = b.day THEN old ELSE OrbReset(b.day, old)
        r == [s EXCEPT !.ready = TRUE]
    IN  CASE ~ s.ready /\ b.time < RangeEnd ->
               Turn([s EXCEPT !.window = 1], <<>>)
          [] (s.ready \/ b.time >= RangeEnd) /\ s.side # "FLAT" /\ OrbExit(b) # "" ->
               Turn([r EXCEPT !.side = "FLAT", !.entered = s.entered /\ ~ AllowReentry],
                    <<ExitIntent(b, s.side, OrbExit(b))>>)
          [] (s.ready \/ b.time >= RangeEnd) /\ s.side = "FLAT" /\ OrbOpen(s, b) ->
               Turn([r EXCEPT !.side = "LONG", !.entered = TRUE],
                    <<EntryIntent(b, "LONG", "breakout")>>)
          [] OTHER -> Turn(r, <<>>)

-----------------------------------------------------------------------------
(* Gap fade (gap_fade.py) and gap continuation (gap_continuation.py).  The *)
(* opening bar is the first one at or after the session start; its gap is  *)
(* known only when the day before had bars.                                *)

FadeOpening(s, b) ==
    IF s.opened \/ b.time < SessionStart THEN s
    ELSE LET side == Against(b.gap)
             fades == s.prior /\ Allowed(side)
         IN  [s EXCEPT !.opened = TRUE, !.direction = IF fades THEN side ELSE "FLAT"]

ContinuationOpening(s, b) ==
    IF s.opened \/ b.time < SessionStart THEN s
    ELSE LET side == Direction(b.gap)
             follows == s.prior /\ Allowed(side)
         IN  [s EXCEPT !.opened = TRUE, !.direction = IF follows THEN side ELSE "FLAT"]

(* Mutant of FadeCanEnter: entries are taken until the day ends. *)
FadeAnytime(s, b) ==
    /\ s.direction # "FLAT" /\ s.side = "FLAT"
    /\ s.entries < DailyEntries
    /\ b.time >= EntryStart

FadeCanEnter(s, b) ==
    /\ s.direction # "FLAT" /\ s.side = "FLAT"
    /\ s.entries < DailyEntries
    /\ b.time >= EntryStart /\ b.time <= LatestEntry
ContinuationCanEnter(s, b) ==
    /\ s.direction # "FLAT" /\ s.side = "FLAT"
    /\ s.entries < DailyEntries
    /\ b.time >= EntryStart /\ b.time <= LatestEntry

(* Target of a fade: VWAP, prior close or half the gap; stop tried first. *)
FadeExit(b) == SquareOffLast(<<"stop", "target">>, b)
ContinuationExit(b) == SquareOffLast(<<"stop", "target">>, b)

(* _set_position_state of the strategies that count their entries. *)
FadeEntered(s) == [s EXCEPT !.side = s.direction, !.entries = s.entries + 1]
ContinuationEntered(s) == [s EXCEPT !.side = s.direction, !.entries = s.entries + 1]

FadeBar(old, b) ==
    LET day == IF old.day = b.day THEN old ELSE FadeReset(b.day, old)
        s == FadeOpening([day EXCEPT !.closed = TRUE], b)
    IN  CASE s.side # "FLAT" /\ FadeExit(b) # "" ->
               Turn([s EXCEPT !.side = "FLAT"], <<ExitIntent(b, s.side, FadeExit(b))>>)
          [] FadeCanEnter(s, b) /\ b.signal ->
               Turn(FadeEntered(s), <<EntryIntent(b, s.direction, "fade")>>)
          [] OTHER -> Turn(s, <<>>)

ContinuationBar(old, b) ==
    LET day == IF old.day = b.day THEN old ELSE ContinuationReset(b.day, old)
        s == ContinuationOpening([day EXCEPT !.closed = TRUE], b)
    IN  CASE s.side # "FLAT" /\ ContinuationExit(b) # "" ->
               Turn([s EXCEPT !.side = "FLAT"],
                    <<ExitIntent(b, s.side, ContinuationExit(b))>>)
          [] ContinuationCanEnter(s, b) /\ b.signal ->
               Turn(ContinuationEntered(s), <<EntryIntent(b, s.direction, "continuation")>>)
          [] OTHER -> Turn(s, <<>>)

-----------------------------------------------------------------------------
(* VWAP trend pullback (vwap_pullback.py).  The slope compares the VWAP    *)
(* with its value SlopeBars - 1 bars ago: with a lookback of one bar it is *)
(* never positive.  The confirmation needs a previous bar.                 *)

VwapRising(s) == s.bars >= SlopeBars /\ SlopeBars > 1

VwapCanEnter(s, b) ==
    /\ s.side = "FLAT" /\ ~ s.entered
    /\ s.entries < DailyEntries
    /\ b.time >= EntryStart /\ b.time <= LatestEntry
    /\ s.bars >= MinBars

VwapEntry(s, b) == b.signal /\ VwapRising(s)

VwapExit(b) == SquareOffFirst(b)

VwapBar(old, b) ==
    LET day == IF old.day = b.day THEN old ELSE VwapReset(b.day)
        s == [day EXCEPT !.bars = Counted(day.bars, MinBars)]
    IN  CASE s.side # "FLAT" /\ VwapExit(b) # "" ->
               Turn([s EXCEPT !.side = "FLAT", !.entered = s.entered /\ ~ AllowReentry],
                    <<ExitIntent(b, s.side, VwapExit(b))>>)
          [] VwapCanEnter(s, b) /\ VwapEntry(s, b) ->
               Turn([s EXCEPT !.side = "LONG", !.entered = TRUE, !.entries = s.entries + 1],
                    <<EntryIntent(b, "LONG", "pullback")>>)
          [] OTHER -> Turn(s, <<>>)

-----------------------------------------------------------------------------
(* First-hour momentum (first_hour_momentum.py).  The bar that completes   *)
(* the window fixes its direction.  A long needs no permission.            *)

MomentumWindow(s, b) ==
    IF s.ready \/ b.time < SessionStart THEN s
    ELSE LET n == s.window + 1
         IN  [s EXCEPT !.window = n, !.ready = n >= WindowBars,
                       !.direction = IF n >= WindowBars THEN Direction(b.gap) ELSE "FLAT"]

MomentumCanEnter(s, b) ==
    /\ s.ready /\ s.side = "FLAT"
    /\ s.entries < DailyEntries
    /\ b.time >= EntryStart /\ b.time <= LatestEntry
    /\ s.bars >= MinBars

MomentumEntry(s, b) ==
    b.signal /\ (s.direction = "LONG" \/ (s.direction = "SHORT" /\ AllowShort))

MomentumEntered(s) ==
    [s EXCEPT !.side = s.direction, !.entered = TRUE, !.entries = s.entries + 1]

(* The trailing stop is moved by the high of a bar before its low is tried. *)
MomentumExit(b) == SquareOffLast(<<"stop", "target", "trail">>, b)

MomentumBar(old, b) ==
    LET day == IF old.day = b.day THEN old ELSE MomentumReset(b.day)
        s == [MomentumWindow(day, b) EXCEPT !.bars = Counted(day.bars, MinBars)]
    IN  CASE s.side # "FLAT" /\ MomentumExit(b) # "" ->
               Turn([s EXCEPT !.side = "FLAT"], <<ExitIntent(b, s.side, MomentumExit(b))>>)
          [] MomentumCanEnter(s, b) /\ MomentumEntry(s, b) ->
               Turn(MomentumEntered(s), <<EntryIntent(b, s.direction, "momentum")>>)
          [] OTHER -> Turn(s, <<>>)
=============================================================================
