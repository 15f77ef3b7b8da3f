--------------------------- MODULE CapitalAccount ---------------------------
(***************************************************************************)
(* What the master engine promises its reader, whatever the strategies     *)
(* signal: an account of fixed capital whose holdings are opened and       *)
(* closed whole, never resized, never more than the capital together, and  *)
(* at most one in any ticker.                                              *)
(***************************************************************************)
EXTENDS Integers, Functions

CONSTANTS
    Keys,               \* what can be held
    Entries,            \* a holding: quantity, price, trade
    NoEntry,            \* not held
    Cost(_),            \* capital an entry takes
    Conflict(_, _),     \* two keys that share a ticker
    Capital

VARIABLE holdings

HeldNow == {k \in Keys : holdings[k] # NoEntry}

Affordable(book) == SumFunctionOnSet([k \in Keys |-> Cost(book[k])], Keys) <= Capital

Exclusive(book) ==
    \A j, k \in Keys :
        book[j] # NoEntry /\ book[k] # NoEntry /\ Conflict(j, k) => j = k

Init == holdings = [k \in Keys |-> NoEntry]

(* One trading day: close some holdings, then open others with what is     *)
(* free.  A key may be closed and opened again, for another trade.         *)
TradingDay(closed, opened) ==
    /\ closed \subseteq HeldNow
    /\ opened \cap (HeldNow \ closed) = {}
    /\ \E new \in [opened -> Entries] :
        /\ \A k \in opened \cap closed : new[k].trade # holdings[k].trade
        /\ holdings' = [k \in Keys |-> IF k \in opened THEN new[k]
                                       ELSE IF k \in closed THEN NoEntry
                                       ELSE holdings[k]]
    /\ Affordable(holdings')
    /\ Exclusive(holdings')

Next == \E closed, opened \in SUBSET Keys : TradingDay(closed, opened)

Spec == Init /\ [][Next]_holdings
=============================================================================
