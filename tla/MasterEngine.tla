---------------------------- MODULE MasterEngine ----------------------------
(***************************************************************************)
(* The decisions of one run of the master engine, as a function of the     *)
(* ledger it loads, of the replays and of the fetches that failed.         *)
(*                                                                         *)
(* The ledger maps every key to its entry; a key that is not in the dict   *)
(* of the code has NoEntry, whose quantity is 0 (an approved quantity is   *)
(* at least 1).  The field trade is a history variable: the number of the  *)
(* strategy's trade the entry was approved for, which the code forgets.    *)
(***************************************************************************)
EXTENDS StrategyReplay, FiniteSets, Functions

CONSTANTS
    TotalCapital,   \* TOTAL_ACCOUNT_CAPITAL
    MinChunk,       \* MIN_CHUNK_SIZE
    OwnCapital,     \* CAPITAL_PER_TRADE, CAPITAL_PER_LEG of the strategies
    Symbols,        \* ticker symbols
    Parts,          \* Parts[k]: the tickers in the symbol or pair of k
    Place           \* Place[k]: position of k in the list of raw entries

ASSUME CapitalAssumption ==
    /\ TotalCapital \in Nat
    /\ MinChunk \in Nat \ {0}
    /\ OwnCapital \in Nat
ASSUME KeyAssumption ==
    /\ IsFiniteSet(Keys)
    /\ Parts \in [Keys -> SUBSET Symbols]
    /\ Place \in [Keys -> Nat]
    /\ \A j, k \in Keys : Place[j] = Place[k] => j = k

(* No share costs more than the least chunk an entry is given.  It is true *)
(* of today's portfolios and nothing in the code enforces it: the engine   *)
(* buys one share even when the chunk does not pay for it.                 *)
PricesFit == \A p \in EntryPrices : p <= MinChunk

Entries == [qty : Nat, entry_price : Nat, trade : 0..MaxTrades]
NoEntry == [qty |-> 0, entry_price |-> 0, trade |-> 0]

Priority == [s \in Strategies |-> CASE s = "MA Pullback" -> 4
                                    [] s = "Supertrend"  -> 3
                                    [] s = "BB Squeeze"  -> 2
                                    [] s = "Black Swan"  -> 1
                                    [] OTHER -> 0]

Held(book, k) == book[k].qty > 0
HeldKeys(book) == {k \in Keys : Held(book, k)}
Cost(e) == e.qty * e.entry_price
BookValue(book) == SumFunctionOnSet([k \in Keys |-> Cost(book[k])], Keys)

Conflict(j, k) == Parts[j] \cap Parts[k] # {}

-----------------------------------------------------------------------------
(* What the replays report, but for the keys in errs whose fetch failed.   *)

RawEntries(errs) == {k \in Keys \ errs : pos[k] # None /\ pos[k].age = 0}
ClosedToday(errs) == {k \in Keys \ errs : closing[k] # None}

(* Mutant of OpenPositions: what the ledger holds is not looked up. *)
LegacyPositions(book, errs) ==
    {k \in Keys \ errs : pos[k] # None /\ pos[k].age > 0 /\ pos[k].trade = 0}

(* Positions of the master engine: in its ledger, or opened before         *)
(* PAPER_TRADING_START.  The others were never approved and are dropped.   *)
OpenPositions(book, errs) ==
    {k \in Keys \ errs : /\ pos[k] # None
                         /\ pos[k].age > 0
                         /\ Held(book, k) \/ pos[k].trade = 0}

(* Mutant of BookedExits: only an exit with its next-day fill is booked. *)
FilledExits(book, errs) ==
    {k \in ClosedToday(errs) \cap HeldKeys(book) : closing[k].age = 1}

(* Exits of keys in the ledger are booked and leave it; others are skipped. *)
BookedExits(book, errs) == ClosedToday(errs) \cap HeldKeys(book)

AfterExits(book, errs) ==
    [k \in Keys |-> IF k \in BookedExits(book, errs) THEN NoEntry ELSE book[k]]

ExitPnL(book, errs) ==
    SumFunctionOnSet(
        [k \in Keys |-> IF k \in BookedExits(book, errs)
                        THEN (closing[k].price - book[k].entry_price) * book[k].qty
                        ELSE 0], Keys)

-----------------------------------------------------------------------------
(* Capital locked after the exits: open positions at their ledger cost, or *)
(* at the strategy's own sizing when the ledger does not hold them, and    *)
(* ledger entries no strategy reports today.                               *)

OwnCost(price) ==
    price * (IF price <= OwnCapital THEN OwnCapital \div price ELSE 1)

Orphans(book, errs) ==
    HeldKeys(AfterExits(book, errs))
        \ (OpenPositions(book, errs) \cup BookedExits(book, errs))

LockedCost(book, errs) ==
    [k \in Keys |->
        IF k \in OpenPositions(book, errs)
        THEN IF Held(AfterExits(book, errs), k) THEN Cost(book[k])
                                                ELSE OwnCost(pos[k].price)
        ELSE IF k \in Orphans(book, errs) THEN Cost(book[k]) ELSE 0]

TotalLocked(book, errs) == SumFunctionOnSet(LockedCost(book, errs), Keys)

FreeCash(book, errs) ==
    LET free == TotalCapital - TotalLocked(book, errs)
    IN  IF free < 0 THEN 0 ELSE free

-----------------------------------------------------------------------------
(* Allocation of the free cash to today's entry signals.                   *)

(* Mutant of CapitalSafe: entries are taken in spite of fetch errors. *)
TrustedAnyway(errs) == TRUE

CapitalSafe(errs) == errs = {}

Outranks(j, k) ==
    LET pj == Priority[StrategyOf[j]]
        pk == Priority[StrategyOf[k]]
    IN  pj > pk \/ (pj = pk /\ Place[j] < Place[k])

(* Mutant of Deduped: the rule is not applied. *)
Undeduped(raw) == raw

(* Rule 1: in rank order, keep an entry that shares no ticker with an      *)
(* entry kept before it.  Exactly one set of entries satisfies this.       *)
Deduped(raw) ==
    CHOOSE kept \in SUBSET raw :
        \A k \in raw :
            k \in kept <=> ~ \E j \in kept : Outranks(j, k) /\ Conflict(j, k)

(* Rule 2: drop an entry in a ticker of an open position. *)
NotHeld(entries, open) ==
    {k \in entries : ~ \E o \in open : Conflict(o, k)}

Candidates(book, errs) ==
    NotHeld(Deduped(RawEntries(errs)), OpenPositions(book, errs))

MaxSlots(free) == free \div MinChunk

(* The best ranked candidates, as many as there are slots. *)
Selected(cands, slots) ==
    {k \in cands : Cardinality({j \in cands : Outranks(j, k)}) < slots}

(* Mutant of Qty: the share is rounded up to whole shares. *)
QtyRoundedUp(free, n, price) == (free + n * price - 1) \div (n * price)

(* An equal share of the free cash for each, in whole shares, at least one. *)
Qty(free, n, price) ==
    IF n * price <= free THEN free \div (n * price) ELSE 1

Approved(book, errs) ==
    IF CapitalSafe(errs) /\ FreeCash(book, errs) >= MinChunk
    THEN Selected(Candidates(book, errs), MaxSlots(FreeCash(book, errs)))
    ELSE {}

(* Mutant of AfterRun: the approved entries are not written. *)
Unrecorded(book, errs) == AfterExits(book, errs)

AfterRun(book, errs) ==
    LET approved == Approved(book, errs)
    IN  [k \in Keys |->
            IF k \in approved
            THEN [qty |-> Qty(FreeCash(book, errs), Cardinality(approved),
                              pos[k].price),
                  entry_price |-> pos[k].price,
                  trade |-> pos[k].trade]
            ELSE AfterExits(book, errs)[k]]
=============================================================================
