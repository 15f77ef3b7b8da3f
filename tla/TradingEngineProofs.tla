-------------------------- MODULE TradingEngineProofs --------------------------
(***************************************************************************)
(* What holds of a run for any configuration, bars and prices.             *)
(*                                                                         *)
(* First the risk engine: its limits are kept whatever a strategy sends,   *)
(* and with it no strategy of the repository ever trades.  Then the        *)
(* strategies without it: each keeps its state, its belief about its       *)
(* position moves with the orders it leaves pending (Sound), and so it is  *)
(* in step with the portfolio and flat from its square-off on.  Then the   *)
(* books: cash, cost, booked P&L and fees add up over all fills.  Last     *)
(* what a report makes of the fills, and at what price they are.           *)
(***************************************************************************)
EXTENDS TradingEngine, SumTheorems, FiniteSetTheorems, SequenceTheorems, TLAPS

(* The ratio strategies have two legs. *)
TwoLegs == \A k \in Kinds \cap Ratio : Len(Universe[k]) = 2

(* At most two intents, market orders in some of the symbols. *)
Marketed(n, S) == n.type = "MARKET" /\ n.price = 0 /\ n.symbol \in S
Market(intents, S) ==
    \/ intents = <<>>
    \/ \E m : intents = <<m>> /\ Marketed(m, S)
    \/ \E m, n : intents = <<m, n>> /\ Marketed(m, S) /\ Marketed(n, S)

Untouched ==
    /\ fills = <<>> /\ pos = [s \in Symbols |-> NoPosition]
    /\ Market(pending, Symbols)

IInv == kind \in Kinds /\ (risked /\ kind \in Shipped => Untouched)
-----------------------------------------------------------------------------
(* Intents of the intraday strategies. *)

LEMMA OneIntent ==
    ASSUME NEW S, NEW b, b.symbol \in S, NEW side, NEW reason, NEW st
    PROVE  /\ Market(Turn(st, <<ExitIntent(b, side, reason)>>).intents, S)
           /\ Market(Turn(st, <<EntryIntent(b, side, reason)>>).intents, S)
           /\ Market(Turn(st, <<>>).intents, S)
BY DEF Market, Marketed, Turn, ExitIntent, EntryIntent, Intent

LEMMA OrbMarket ==
    ASSUME NEW S, NEW old, NEW b, b.symbol \in S PROVE Market(OrbBar(old, b).intents, S)
BY OneIntent, Zenon DEF OrbBar

LEMMA FadeMarket ==
    ASSUME NEW S, NEW old, NEW b, b.symbol \in S PROVE Market(FadeBar(old, b).intents, S)
BY OneIntent DEF FadeBar

LEMMA ContinuationMarket ==
    ASSUME NEW S, NEW old, NEW b, b.symbol \in S PROVE Market(ContinuationBar(old, b).intents, S)
BY OneIntent DEF ContinuationBar

LEMMA VwapMarket ==
    ASSUME NEW S, NEW old, NEW b, b.symbol \in S PROVE Market(VwapBar(old, b).intents, S)
BY OneIntent DEF VwapBar

LEMMA MomentumMarket ==
    ASSUME NEW S, NEW old, NEW b, b.symbol \in S PROVE Market(MomentumBar(old, b).intents, S)
BY OneIntent DEF MomentumBar
-----------------------------------------------------------------------------
(* Intents of the strategies on daily bars and of those on two legs. *)

LEMMA OneOrder ==
    ASSUME NEW S, NEW symbol \in S, NEW side, NEW qty, NEW reason, NEW st
    PROVE  /\ Market(Answer(st, <<Order(symbol, side, qty, reason)>>).intents, S)
           /\ Market(Answer(st, <<>>).intents, S)
BY DEF Market, Marketed, Answer, Order

LEMMA SupertrendMarket ==
    ASSUME NEW S, NEW old, NEW b, b.symbol \in S PROVE Market(SupertrendBar(old, b).intents, S)
BY OneOrder DEF SupertrendBar

LEMMA RsiMarket ==
    ASSUME NEW S, NEW old, NEW b, b.symbol \in S PROVE Market(RsiBar(old, b).intents, S)
<1> DEFINE fill == CASE old.sell # "" ->
                          Answer([ClearSwing(old) EXCEPT !.sell = ""],
                                 <<Order(b.symbol, "SELL", old.qty, old.sell)>>)
                     [] old.sell = "" /\ old.buy ->
                          Answer([OpenSwing(old, b) EXCEPT !.buy = FALSE],
                                 <<Order(b.symbol, "BUY", Lot(b.close), "entry")>>)
                     [] OTHER -> Answer(old, <<>>)
<1>1. Market(fill.intents, S)  BY OneOrder
<1>2. \A st, q : Answer(st, q).intents = q  BY DEF Answer
<1> DEFINE s == [fill.state EXCEPT !.bars = Seen(old.bars)]
<1>3. RsiBar(old, b) = CASE s.bars < Warmup -> Answer(s, fill.intents)
                         [] s.bars = Warmup /\ s.qty > 0 ->
                              Answer([s EXCEPT !.sell = RsiExit(s, b)], fill.intents)
                         [] OTHER -> Answer([s EXCEPT !.buy = b.signal], fill.intents)
  BY Zenon DEF RsiBar
<1> HIDE DEF fill, s
<1> QED  BY <1>1, <1>2, <1>3

LEMMA PullbackMarket ==
    ASSUME NEW S, NEW old, NEW b, b.symbol \in S PROVE Market(PullbackBar(old, b).intents, S)
BY OneOrder DEF PullbackBar

LEMMA BothLegs ==
    ASSUME NEW S, NEW pair, pair[1] \in S, pair[2] \in S, NEW spread, NEW reason, NEW st
    PROVE  /\ Market(Answer(st, OpenLegs(pair, spread, reason)).intents, S)
           /\ Market(Answer(st, CloseLegs(pair, spread, reason)).intents, S)
           /\ Market(Answer(st, <<>>).intents, S)
BY DEF Market, Marketed, Answer, Order, OpenLegs, CloseLegs, Legs

LEMMA PairsMarket ==
    ASSUME NEW S, NEW pair, pair[1] \in S, pair[2] \in S, NEW leg, NEW old, NEW b
    PROVE  Market(PairsBar(pair, leg, old, b).intents, S)
BY BothLegs DEF PairsBar

LEMMA BlackSwanMarket ==
    ASSUME NEW S, NEW pair, pair[1] \in S, pair[2] \in S, NEW leg, NEW old, NEW b
    PROVE  Market(BlackSwanBar(pair, leg, old, b).intents, S)
BY BothLegs DEF BlackSwanBar, SwanOpenLegs, SwanCloseLegs

LEMMA LongSwanMarket ==
    ASSUME NEW S, NEW pair, pair[1] \in S, pair[2] \in S, NEW leg, NEW old, NEW b,
           NEW closes
    PROVE  Market(LongSwanBar(pair, leg, old, b, closes).intents, S)
<1>1. \A spread : SwanLeg(pair, spread) \in S  BY DEF SwanLeg
<1> QED  BY <1>1, OneOrder DEF LongSwanBar
-----------------------------------------------------------------------------
(* The turn of whichever strategy the run has: those on one symbol only    *)
(* order in the symbol of the bar.                                         *)
LEMMA Widely ==
    ASSUME NEW S, NEW T, S \subseteq T, NEW q, Market(q, S) PROVE Market(q, T)
BY DEF Market, Marketed

LEMMA NextBarMarket ==
    ASSUME TwoLegs, kind \in Kinds, kind \in Shipped,
           NEW slot, NEW i \in 1..Len(Universe[kind]), NEW close, NEW fact,
           NextBar(slot, i, close, fact)
    PROVE  /\ Market(pending', Symbols)
           /\ kind \notin Ratio => Market(pending', {Universe[kind][i]})
<1> DEFINE s == Universe[kind][i]
           b == [symbol |-> s, day |-> slot[1], time |-> slot[2], close |-> close,
                 gap |-> fact.gap, signal |-> fact.signal, hit |-> fact.hit,
                 trend |-> fact.trend, z |-> fact.z, flat |-> fact.flat,
                 touch |-> fact.touch]
           closes == [latest EXCEPT ![s] = close]
<1>1. s \in Symbols /\ s = Universe[kind][i] /\ b.symbol = s  BY DEF Symbols
<1>2. /\ kind \in Intraday => pending' = IntradayTurn(mind[s], b).intents
      /\ kind \in Swing => pending' = SwingTurn(mind[s], b).intents
      /\ kind \in Ratio => pending' = RatioTurn(i, b, closes).intents
  BY DEF NextBar, Intraday, Swing, Ratio
<1> HIDE DEF s, b, closes
<1> DEFINE S == {s}
<1>3. b.symbol \in S  BY <1>1
<1> HIDE DEF S
<1>4. CASE kind \in Intraday
  <2>1. Market(pending', S)
    BY <1>2, <1>3, <1>4, OrbMarket, FadeMarket, ContinuationMarket, VwapMarket, MomentumMarket
    DEF IntradayTurn
  <2> QED  BY <1>1, <2>1, Widely DEF S
<1>5. CASE kind \in Swing
  <2>1. Market(pending', S)
    BY <1>2, <1>3, <1>5, SupertrendMarket, RsiMarket, PullbackMarket DEF SwingTurn
  <2> QED  BY <1>1, <2>1, Widely DEF S
<1>6. CASE kind \in Ratio
  <2>1. Universe[kind][1] \in Symbols /\ Universe[kind][2] \in Symbols
    <3>1. 1 \in 1..Len(Universe[kind]) /\ 2 \in 1..Len(Universe[kind])
      <4>1. kind \in Kinds \cap Ratio  BY <1>6
      <4>2. Len(Universe[kind]) = 2  BY <4>1 DEF TwoLegs
      <4> QED  BY <4>2
    <3> QED  BY <3>1 DEF Symbols
  <2> QED  BY <1>2, <1>6, <2>1, PairsMarket, BlackSwanMarket, LongSwanMarket DEF RatioTurn
<1> QED  BY <1>4, <1>5, <1>6 DEF Shipped

(* Nothing can price a market order in a symbol the portfolio has no entry *)
(* for.                                                                    *)
LEMMA Objects ==
    ASSUME NEW r, NEW n, Marketed(n, Symbols), NEW pnl, NEW b
    PROVE  Objection(r, n, [s \in Symbols |-> NoPosition], pnl, b) # ""
<1> DEFINE none == [s \in Symbols |-> NoPosition]
<1>1. none[n.symbol] = NoPosition /\ ~ NoPosition.known  BY DEF Marketed, NoPosition
<1>2. EstimatePrice(n, NoPosition, b) = 0  BY <1>1 DEF EstimatePrice, Marketed
<1> HIDE DEF none
<1>3. Unpriced(n, none, b)  BY <1>1, <1>2 DEF Unpriced
<1>4. Objection(r, n, none, pnl, b) # ""  BY <1>3 DEF Objection
<1> QED  BY <1>4 DEF none

LEMMA MarketParts ==
    ASSUME NEW S, NEW q, Market(q, S), q # <<>>
    PROVE  Marketed(Head(q), S) /\ Market(Tail(q), S)
<1>1. CASE \E m : q = <<m>> /\ Marketed(m, S)
  <2>1. PICK m : q = <<m>> /\ Marketed(m, S)  BY <1>1
  <2>2. Head(q) = m /\ Tail(q) = <<>>  BY <2>1
  <2> QED  BY <2>1, <2>2 DEF Market
<1>2. CASE \E m, n : q = <<m, n>> /\ Marketed(m, S) /\ Marketed(n, S)
  <2>1. PICK m, n : q = <<m, n>> /\ Marketed(m, S) /\ Marketed(n, S)  BY <1>2
  <2>2. Head(q) = m /\ Tail(q) = <<n>>  BY <2>1
  <2> QED  BY <2>1, <2>2 DEF Market
<1> QED  BY <1>1, <1>2 DEF Market

(* Strategy and risk engine of a run are fixed. *)
LEMMA RiskedStays == ASSUME [Next]_vars PROVE kind' = kind /\ risked' = risked
<1>1. ASSUME NEW slot, NEW i, NEW close, NEW fact, NextBar(slot, i, close, fact)
      PROVE  kind' = kind /\ risked' = risked
  BY <1>1 DEF NextBar
<1>2. Reject => kind' = kind /\ risked' = risked  BY DEF Reject
<1>3. Execute => kind' = kind /\ risked' = risked  BY Zenon DEF Execute
<1>4. Mark => kind' = kind /\ risked' = risked  BY DEF Mark
<1>5. UNCHANGED vars => kind' = kind /\ risked' = risked  BY DEF vars
<1> QED  BY <1>1, <1>2, <1>3, <1>4, <1>5 DEF Next

LEMMA Inductive == ASSUME TwoLegs, IInv, [Next]_vars PROVE IInv'
<1>1. kind' = kind /\ risked' = risked  BY RiskedStays
<1> SUFFICES ASSUME risked, kind \in Shipped PROVE Untouched'
  BY <1>1 DEF IInv
<1>2. Untouched  BY DEF IInv
<1>3. ASSUME NEW slot \in Calendar[kind], NEW i \in 1..Len(Universe[kind]),
             NEW close \in Prices, NEW fact \in Facts[kind], NextBar(slot, i, close, fact)
      PROVE  Untouched'
  BY <1>2, <1>3, NextBarMarket DEF Untouched, NextBar, IInv
<1>4. CASE Reject
  BY <1>2, <1>4, MarketParts DEF Untouched, Reject
<1>5. CASE Execute
  <2>1. pending # <<>> /\ RiskCheck(Head(pending)) = ""  BY <1>5 DEF Execute
  <2>2. Marketed(Head(pending), Symbols)  BY <1>2, <2>1, MarketParts DEF Untouched
  <2>3. RiskCheck(Head(pending)) # ""
    BY <1>2, <2>2, Objects DEF RiskCheck, Untouched
  <2> QED  BY <2>1, <2>3
<1>6. CASE Mark
  <2>1. \A price : Marked(NoPosition, price) = NoPosition  BY DEF Marked, NoPosition
  <2>2. pos' = [s \in Symbols |-> NoPosition]  BY <1>2, <1>6, <2>1 DEF Mark, Untouched
  <2> QED  BY <1>2, <1>6, <2>2 DEF Mark, Untouched
<1>7. CASE UNCHANGED vars  BY <1>2, <1>7 DEF vars, Untouched
<1> QED  BY <1>3, <1>4, <1>5, <1>6, <1>7 DEF Next

(* With a risk engine no strategy of the package gets an order filled, for *)
(* any configuration, calendar, prices and limits: RiskEngine can price    *)
(* their market orders only from a position, and there never is one.       *)
THEOREM StayFlat == ASSUME TwoLegs PROVE Spec => []RiskedRunsStayFlat
<1>1. Init => IInv  BY DEF Init, IInv, Untouched, Market
<1>2. IInv /\ [Next]_vars => IInv'  BY Inductive
<1>3. IInv => RiskedRunsStayFlat  BY DEF IInv, Untouched, RiskedRunsStayFlat
<1> QED  BY <1>1, <1>2, <1>3, PTL DEF Spec
-----------------------------------------------------------------------------
(* The limits, for every strategy there could be. *)

Quantified(p) == "qty" \in DOMAIN p /\ p.qty \in Int

LimitInv ==
    /\ DOMAIN pos = Symbols /\ \A s \in Symbols : Quantified(pos[s])
    /\ Cardinality(LongHeld(pos)) <= MaxOpenPositions
    /\ {"kill", "approved"} \subseteq DOMAIN risk
    /\ risk.approved \in Nat /\ risk.approved <= MaxTradesPerDay
    /\ risk.kill => fills = <<>>
    /\ kind = "ANY" => pending = <<>> \/ \E n \in AnyIntents : pending = <<n>>

(* A purchase adds to the quantity and a sale takes from it, long or short. *)
LEMMA FilledQuantity ==
    ASSUME NEW p, Quantified(p), NEW side \in {"BUY", "SELL"}, NEW q \in Int, NEW price
    PROVE  /\ Quantified(AfterFill(p, side, q, price))
           /\ AfterFill(p, side, q, price).qty = IF side = "BUY" THEN p.qty + q ELSE p.qty - q
<1>1. Quantified(Bought(p, q, price)) /\ Bought(p, q, price).qty = p.qty + q
  BY DEF Quantified, Bought
<1>2. Quantified(Sold(p, q, price)) /\ Sold(p, q, price).qty = p.qty - q
  BY DEF Quantified, Sold
<1> DEFINE r == IF side = "BUY" THEN Bought(p, q, price) ELSE Sold(p, q, price)
<1>3. Quantified(r) /\ r.qty = IF side = "BUY" THEN p.qty + q ELSE p.qty - q
  BY <1>1, <1>2
<1>4. AfterFill(p, side, q, price) = [r EXCEPT !.known = TRUE]  BY DEF AfterFill
<1> HIDE DEF r
<1>5. Quantified([r EXCEPT !.known = TRUE]) /\ [r EXCEPT !.known = TRUE].qty = r.qty
  BY <1>3 DEF Quantified
<1> QED  BY <1>3, <1>4, <1>5

(* What an approved order passed. *)
LEMMA Passed ==
    ASSUME NEW n, NEW pnl, Objection(risk, n, pos, pnl, bar) = ""
    PROVE  ~ risk.kill /\ ~ TooManyPositions(n, pos) /\ ~ TradeLimit(risk)
BY DEF Objection, KillSwitched

(* A purchase in a new symbol adds one to the symbols held long, any other *)
(* fill none.                                                              *)
LEMMA HeldAfterFill ==
    ASSUME IsFiniteSet(Symbols), LimitInv, NEW n, n.symbol \in Symbols,
           n.side \in {"BUY", "SELL"}, n.qty \in Nat, ~ TooManyPositions(n, pos),
           NEW price,
           pos' = [pos EXCEPT ![n.symbol] = AfterFill(@, n.side, n.qty, price)]
    PROVE  /\ Cardinality(LongHeld(pos')) <= MaxOpenPositions
           /\ DOMAIN pos' = Symbols /\ \A s \in Symbols : Quantified(pos'[s])
<1> DEFINE t == n.symbol
           H == LongHeld(pos)
           K == LongHeld(pos')
<1>1. Quantified(pos[t])  BY DEF LimitInv
<1>2. /\ DOMAIN pos' = Symbols
      /\ pos'[t] = AfterFill(pos[t], n.side, n.qty, price)
      /\ \A s \in Symbols : s # t => pos'[s] = pos[s]
  BY DEF LimitInv
<1>3. Quantified(pos'[t])
      /\ pos'[t].qty = IF n.side = "BUY" THEN pos[t].qty + n.qty ELSE pos[t].qty - n.qty
  BY <1>1, <1>2, FilledQuantity
<1>4. \A s \in Symbols : Quantified(pos'[s])  BY <1>2, <1>3 DEF LimitInv
<1>5. H \subseteq Symbols /\ IsFiniteSet(H) /\ Cardinality(H) \in Nat
      /\ Cardinality(H) <= MaxOpenPositions /\ MaxOpenPositions \in Nat
  BY FS_Subset, FS_CardinalityType, LimitsAssumption DEF LongHeld, LimitInv, LimitsAssumed
<1>6. CASE n.side = "BUY" /\ t \notin H
  <2>1. K \subseteq H \cup {t}  BY <1>2 DEF LongHeld, LimitInv
  <2>2. IsFiniteSet(H \cup {t}) /\ Cardinality(H \cup {t}) = Cardinality(H) + 1
    BY <1>5, <1>6, FS_AddElement
  <2>3. Cardinality(H) < MaxOpenPositions
    <3>1. ~ (Cardinality(H) >= MaxOpenPositions)  BY <1>6 DEF TooManyPositions
    <3> HIDE DEF H
    <3> QED  BY <1>5, <3>1
  <2>4. Cardinality(K) \in Nat /\ Cardinality(K) <= Cardinality(H \cup {t})
    BY <2>1, <2>2, FS_Subset, FS_CardinalityType
  <2> HIDE DEF H, K
  <2>5. Cardinality(K) <= MaxOpenPositions  BY <1>5, <2>2, <2>3, <2>4
  <2> QED  BY <1>2, <1>4, <2>5 DEF K
<1>7. CASE ~ (n.side = "BUY" /\ t \notin H)
  <2>1. K \subseteq H
    <3>1. t \in K => t \in H
      <4>1. CASE n.side = "BUY"  BY <1>7, <4>1
      <4>2. CASE n.side = "SELL"
        <5>1. pos'[t].qty = pos[t].qty - n.qty  BY <1>3, <4>2
        <5>2. pos'[t].qty > 0 => pos[t].qty > 0  BY <1>1, <5>1 DEF Quantified
        <5> QED  BY <5>2 DEF LongHeld, LimitInv
      <4> QED  BY <4>1, <4>2
    <3> QED  BY <1>2, <3>1 DEF LongHeld, LimitInv
  <2>2. Cardinality(K) \in Nat /\ Cardinality(K) <= Cardinality(H)
    BY <1>5, <2>1, FS_Subset, FS_CardinalityType
  <2> HIDE DEF H, K
  <2>3. Cardinality(K) <= MaxOpenPositions  BY <1>5, <2>2
  <2> QED  BY <1>2, <1>4, <2>3 DEF K
<1> QED  BY <1>6, <1>7

LEMMA LimitInit == ASSUME Init PROVE LimitInv
<1>1. DOMAIN pos = Symbols /\ \A s \in Symbols : pos[s].qty = 0 /\ Quantified(pos[s])
  BY DEF Init, NoPosition, Quantified
<1>2. LongHeld(pos) = {}  BY <1>1 DEF LongHeld
<1>3. Cardinality(LongHeld(pos)) <= MaxOpenPositions
  BY <1>2, FS_EmptySet, LimitsAssumption DEF LimitsAssumed
<1>4. {"kill", "approved"} \subseteq DOMAIN risk /\ risk.approved = 0
  BY DEF Init, NewRisk, Activate
<1>5. 0 <= MaxTradesPerDay  BY LimitsAssumption DEF LimitsAssumed
<1> QED  BY <1>1, <1>3, <1>4, <1>5 DEF Init, LimitInv

LEMMA AnyOrder ==
    ASSUME NEW n \in AnyIntents, kind \in Kinds
    PROVE  n.symbol \in Symbols /\ n.side \in {"BUY", "SELL"} /\ n.qty \in Nat
BY OrderAssumption DEF AnyIntents, Syms, Symbols

LEMMA LimitStep ==
    ASSUME TwoLegs, IsFiniteSet(Symbols), IInv, risked, LimitInv, [Next]_vars
    PROVE  LimitInv'
<1>1. ASSUME NEW slot \in Calendar[kind], NEW i \in 1..Len(Universe[kind]),
             NEW close \in Prices, NEW fact \in Facts[kind], NextBar(slot, i, close, fact)
      PROVE  LimitInv'
  <2>1. kind' = kind /\ pos' = pos /\ risk' = risk /\ fills' = fills
    BY <1>1 DEF NextBar
  <2>2. kind = "ANY" => pending' = <<>> \/ \E n \in AnyIntents : pending' = <<n>>
    BY <1>1 DEF NextBar, Intraday, Swing, Ratio
  <2>3. AnyIntents' = AnyIntents  BY <2>1 DEF AnyIntents, Syms
  <2> QED  BY <2>1, <2>2, <2>3 DEF LimitInv
<1>2. CASE Reject
  <2>1. kind' = kind /\ pos' = pos /\ risk' = risk /\ fills' = fills
        /\ pending # <<>> /\ pending' = Tail(pending)
    BY <1>2 DEF Reject
  <2>2. kind = "ANY" => pending' = <<>>  BY <2>1 DEF LimitInv
  <2> QED  BY <2>1, <2>2 DEF LimitInv
<1>3. CASE Execute
  <2> DEFINE n == Head(pending)
             price == FillPrice(n, bar)
  <2>1. /\ pending # <<>> /\ RiskCheck(n) = "" /\ pending' = Tail(pending)
        /\ risk' = Recorded(risk, bar) /\ kind' = kind
    BY <1>3 DEF Execute
  <2>2. \/ pos' = pos /\ fills' = fills
        \/ pos' = [pos EXCEPT ![n.symbol] = AfterFill(@, n.side, n.qty, price)]
    BY <1>3 DEF Execute
  <2>3. kind = "ANY"
    <3>1. ASSUME kind \in Shipped PROVE FALSE
      <4>1. Untouched  BY <3>1 DEF IInv
      <4>2. Marketed(n, Symbols)  BY <2>1, <4>1, MarketParts DEF Untouched
      <4> QED  BY <2>1, <4>1, <4>2, Objects DEF RiskCheck, Untouched
    <3> QED  BY <3>1, KindAssumption DEF IInv
  <2>4. PICK m \in AnyIntents : pending = <<m>>  BY <2>1, <2>3 DEF LimitInv
  <2>5. n = m /\ pending' = <<>>
    <3>1. Head(<<m>>) = m /\ Tail(<<m>>) = <<>>  BY Z3
    <3> QED  BY <2>1, <2>4, <3>1
  <2>6. n.symbol \in Symbols /\ n.side \in {"BUY", "SELL"} /\ n.qty \in Nat
    BY <2>4, <2>5, AnyOrder DEF IInv
  <2>7. ~ risk.kill /\ ~ TooManyPositions(n, pos) /\ ~ TradeLimit(risk)
    BY <2>1, Passed DEF RiskCheck
  <2> HIDE DEF n, price
  <2>8. /\ Cardinality(LongHeld(pos')) <= MaxOpenPositions
        /\ DOMAIN pos' = Symbols /\ \A s \in Symbols : Quantified(pos'[s])
    <3>1. CASE pos' = pos  BY <3>1 DEF LimitInv
    <3>2. CASE pos' = [pos EXCEPT ![n.symbol] = AfterFill(@, n.side, n.qty, price)]
      BY <2>6, <2>7, <3>2, HeldAfterFill
    <3> QED  BY <2>2, <3>1, <3>2
  <2>9. /\ {"kill", "approved"} \subseteq DOMAIN risk' /\ ~ risk'.kill
        /\ risk'.approved = risk.approved + 1
    BY <2>1, <2>7 DEF LimitInv, Recorded
  <2>10. risk'.approved \in Nat /\ risk'.approved <= MaxTradesPerDay
    <3>1. ~ (risk.approved >= MaxTradesPerDay)  BY <2>7 DEF TradeLimit
    <3>2. risk.approved \in Nat /\ MaxTradesPerDay \in Nat
      BY LimitsAssumption DEF LimitInv, LimitsAssumed
    <3> QED  BY <2>9, <3>1, <3>2
  <2> QED  BY <2>5, <2>8, <2>9, <2>10 DEF LimitInv
<1>4. CASE Mark
  <2>1. kind' = kind /\ risk' = risk /\ fills' = fills /\ pending' = pending
        /\ pos' = [s \in Symbols |-> Marked(pos[s], latest[s])]
    BY <1>4 DEF Mark
  <2>2. ASSUME NEW s \in Symbols
        PROVE  Quantified(pos'[s]) /\ pos'[s].qty = pos[s].qty
    <3>1. Quantified(pos[s])  BY DEF LimitInv
    <3>2. pos'[s] = Marked(pos[s], latest[s])  BY <2>1
    <3> QED  BY <3>1, <3>2 DEF Marked, Quantified
  <2>3. LongHeld(pos') = LongHeld(pos)  BY <2>1, <2>2 DEF LongHeld, LimitInv
  <2>4. AnyIntents' = AnyIntents  BY <2>1 DEF AnyIntents, Syms
  <2>5. Cardinality(LongHeld(pos')) <= MaxOpenPositions  BY <2>3 DEF LimitInv
  <2> QED  BY <2>1, <2>2, <2>4, <2>5 DEF LimitInv
<1>5. CASE UNCHANGED vars
  <2>1. AnyIntents' = AnyIntents  BY <1>5 DEF vars, AnyIntents, Syms
  <2> QED  BY <1>5, <2>1 DEF vars, LimitInv
<1> QED  BY <1>1, <1>2, <1>3, <1>4, <1>5 DEF Next

(* Whatever a strategy sends, the symbols held long and the approved       *)
(* orders never exceed the engine's limits, and a kill switch that is on   *)
(* lets nothing through.                                                   *)
THEOREM Limits ==
    ASSUME TwoLegs, IsFiniteSet(Symbols) PROVE Spec => []WithinLimits
<1> DEFINE I == IInv /\ (risked => LimitInv)
<1>1. Init => I
  BY LimitInit DEF Init, IInv, Untouched, Market
<1>2. I /\ [Next]_vars => I'
  <2> SUFFICES ASSUME I, [Next]_vars PROVE I'  OBVIOUS
  <2>1. IInv'  BY Inductive
  <2>2. ASSUME risked' PROVE LimitInv'
    BY <2>2, LimitStep, RiskedStays
  <2> QED  BY <2>1, <2>2
<1>3. I => WithinLimits  BY DEF LimitInv, WithinLimits
<1> HIDE DEF I
<1> QED  BY <1>1, <1>2, <1>3, PTL DEF Spec
-----------------------------------------------------------------------------
(* Types, and what the state of each strategy keeps to. *)

(* The legs of a spread, which is long the one and short the other, are    *)
(* two symbols; the long-only swan never holds both.                       *)
Spreaders == {"PAIRS", "BLACK_SWAN"}
DistinctLegs == TwoLegs /\ \A k \in Kinds \cap Spreaders : Universe[k][1] # Universe[k][2]

Placed(n) ==
    n.symbol \in Syms /\ n.side \in {"BUY", "SELL"} /\ n.qty \in Nat \ {0} /\ n.price \in Nat
Queue(q) ==
    \/ q = <<>>
    \/ \E m : q = <<m>> /\ Placed(m)
    \/ \E m, n : q = <<m, n>> /\ Placed(m) /\ Placed(n)

(* The momentum strategy counts the bars of its window until it is ready;  *)
(* RSI(2) leaves a purchase for the next bar only when it holds nothing    *)
(* and a sale only when it holds shares, the other two leave neither; the  *)
(* long-only swan sizes its order by a price both legs have.               *)
WindowFits(m) == ~ m.ready => m.window < WindowBars
LeftOver(m) == (m.buy => m.qty = 0) /\ (m.sell # "" => m.qty > 0)
NothingLeft(m) == ~ m.buy /\ m.sell = ""
SwanFits(m) == m.spread # "NONE" => m.qty > 0
LegsSeen(m, pair, prices) == \A l \in 1..2 : m.at[l] # <<0, 0>> => prices[pair[l]] # 0

MindFits ==
    /\ kind \in Intraday =>
         /\ mind \in [Symbols -> SymbolState]
         /\ kind = "FIRST_HOUR" => \A s \in Symbols : WindowFits(mind[s])
    /\ kind \in Swing =>
         /\ mind \in [Symbols -> SwingState]
         /\ \A s \in Symbols :
              IF kind = "RSI2" THEN LeftOver(mind[s]) ELSE NothingLeft(mind[s])
    /\ kind \in Ratio \cup {"ANY"} => mind \in PairState
    /\ kind = "LONG_SWAN" => SwanFits(mind) /\ LegsSeen(mind, Universe[kind], latest)

Position ==
    [known : BOOLEAN, qty : Int, cost : Nat, realized : Int, unrealized : Int,
     last : Nat, paid : Int]
RiskState == [kill : BOOLEAN, approved : Nat, at : Nat \X Nat, stamps : Nat]
Fill ==
    [symbol : Symbols, side : {"BUY", "SELL"}, qty : Nat \ {0}, price : Nat, fees : Nat]

Held(p) == p \in Position /\ (p.qty = 0 => p.cost = 0)
BarFits ==
    bar.symbol \in Syms /\ bar.day \in Nat /\ bar.time \in Nat /\ bar.close \in Nat \ {0}

BooksFit ==
    /\ DOMAIN pos = Symbols /\ \A s \in Symbols : Held(pos[s])
    /\ cash \in Int
    /\ risk \in RiskState
    /\ fills \in Seq(Fill) /\ Len(fills) + Len(pending) <= MaxFills + 1

EngineFits ==
    /\ kind \in Kinds /\ risked \in BOOLEAN
    /\ clock \in Nat \X Nat \X Nat
    /\ latest \in [Symbols -> Prices \cup {0}]
    /\ (bar = NoBar /\ pending = <<>>) \/ BarFits
    /\ Queue(pending)
    /\ diverged \subseteq Symbols

Fits == EngineFits /\ MindFits /\ BooksFit

(* Shares of s the orders still pending buy, less those they sell. *)
Signed(n, s) ==
    IF n.symbol # s THEN 0 ELSE IF n.side = "BUY" THEN n.qty ELSE 0 - n.qty
Due(q, s) ==
    (IF Len(q) > 0 THEN Signed(q[1], s) ELSE 0) + (IF Len(q) > 1 THEN Signed(q[2], s) ELSE 0)

(* What the strategy takes for its position is the portfolio's once the    *)
(* pending orders are filled, and a strategy with a latest entry takes     *)
(* itself for flat from the square-off on.                                 *)
LegsDiffer == kind \in Spreaders => Universe[kind][1] # Universe[kind][2]
Agreed ==
    kind \in Shipped /\ LegsDiffer =>
        \A s \in Syms \ diverged : pos[s].qty + Due(pending, s) = Believed(s)
EarlyOnly == {"GAP_FADE", "GAP_CONTINUATION", "VWAP", "FIRST_HOUR"}
FlatByThen ==
    kind \in EarlyOnly /\ bar # NoBar /\ bar.time >= SquareOff =>
        mind[bar.symbol].side = "FLAT"
-----------------------------------------------------------------------------
(* A turn of an intraday strategy keeps the type of its state, and moves   *)
(* the position the strategy believes in by the order it sends.            *)

Was(old, b) == IF old.day = b.day THEN old.side ELSE "FLAT"
Trades(old, b, turn) ==
    \/ turn.state.side = Was(old, b) /\ turn.intents = <<>>
    \/ /\ Was(old, b) # "FLAT" /\ turn.state.side = "FLAT"
       /\ \E r : turn.intents = <<ExitIntent(b, Was(old, b), r)>>
    \/ /\ Was(old, b) = "FLAT" /\ turn.state.side # "FLAT"
       /\ \E r : turn.intents = <<EntryIntent(b, turn.state.side, r)>>
TurnFits(old, b, turn) == turn.state \in SymbolState /\ Trades(old, b, turn)

(* What the strategies set in a state. *)
LEMMA StateSet ==
    ASSUME NEW s \in SymbolState
    PROVE  /\ [s EXCEPT !.ready = TRUE] \in SymbolState
           /\ [s EXCEPT !.ready = TRUE].side = s.side
           /\ [s EXCEPT !.closed = TRUE] \in SymbolState
           /\ [s EXCEPT !.closed = TRUE].side = s.side
           /\ [s EXCEPT !.window = 1] \in SymbolState
           /\ [s EXCEPT !.window = 1].side = s.side
           /\ [s EXCEPT !.bars = Counted(s.bars, MinBars)] \in SymbolState
           /\ [s EXCEPT !.bars = Counted(s.bars, MinBars)].side = s.side
<1>1. [s EXCEPT !.ready = TRUE] \in SymbolState /\ [s EXCEPT !.ready = TRUE].side = s.side
  BY DEF SymbolState
<1>2. [s EXCEPT !.closed = TRUE] \in SymbolState /\ [s EXCEPT !.closed = TRUE].side = s.side
  BY DEF SymbolState
<1>3. 1 \in 0..WindowBars  BY ConfigAssumption DEF MomentumConfig
<1>4. [s EXCEPT !.window = 1] \in SymbolState /\ [s EXCEPT !.window = 1].side = s.side
  BY <1>3 DEF SymbolState
<1> DEFINE n == Counted(s.bars, MinBars)
<1>5. n \in 0..MinBars
  <2>1. s.bars \in 0..MinBars /\ MinBars \in Nat  BY ConfigAssumption DEF SymbolState
  <2> QED  BY <2>1 DEF Counted
<1> HIDE DEF n
<1>6. [s EXCEPT !.bars = n] \in SymbolState /\ [s EXCEPT !.bars = n].side = s.side
  BY <1>5 DEF SymbolState
<1> QED  BY <1>1, <1>2, <1>4, <1>6 DEF n

LEMMA Sided ==
    ASSUME NEW s \in SymbolState, NEW side \in Sides
    PROVE  /\ [s EXCEPT !.side = side] \in SymbolState /\ [s EXCEPT !.side = side].side = side
           /\ \A e \in BOOLEAN :
                 /\ [s EXCEPT !.side = side, !.entered = e] \in SymbolState
                 /\ [s EXCEPT !.side = side, !.entered = e].side = side
           /\ \A n \in 0..DailyEntries :
                 /\ [s EXCEPT !.side = side, !.entries = n] \in SymbolState
                 /\ [s EXCEPT !.side = side, !.entries = n].side = side
                 /\ [s EXCEPT !.side = side, !.entered = TRUE, !.entries = n] \in SymbolState
                 /\ [s EXCEPT !.side = side, !.entered = TRUE, !.entries = n].side = side
<1>1. [s EXCEPT !.side = side] \in SymbolState /\ [s EXCEPT !.side = side].side = side
  BY DEF SymbolState
<1>2. ASSUME NEW e \in BOOLEAN
      PROVE  /\ [s EXCEPT !.side = side, !.entered = e] \in SymbolState
             /\ [s EXCEPT !.side = side, !.entered = e].side = side
  BY DEF SymbolState
<1>3. ASSUME NEW n \in 0..DailyEntries
      PROVE  /\ [s EXCEPT !.side = side, !.entries = n] \in SymbolState
             /\ [s EXCEPT !.side = side, !.entries = n].side = side
  BY DEF SymbolState
<1>4. ASSUME NEW n \in 0..DailyEntries
      PROVE  /\ [s EXCEPT !.side = side, !.entered = TRUE, !.entries = n] \in SymbolState
             /\ [s EXCEPT !.side = side, !.entered = TRUE, !.entries = n].side = side
  BY DEF SymbolState
<1> QED  BY <1>1, <1>2, <1>3, <1>4

(* The state a day starts with. *)
LEMMA DayStart ==
    /\ NewState \in SymbolState /\ NewState.side = "FLAT"
    /\ ~ NewState.ready /\ NewState.window = 0
    /\ \A day \in Nat :
         /\ [NewState EXCEPT !.day = day] \in SymbolState
         /\ [NewState EXCEPT !.day = day].side = "FLAT"
         /\ \A p \in BOOLEAN :
              /\ [NewState EXCEPT !.day = day, !.prior = p] \in SymbolState
              /\ [NewState EXCEPT !.day = day, !.prior = p].side = "FLAT"
<1>1. 0 \in 0..MinBars /\ 0 \in 0..WindowBars /\ 0 \in 0..DailyEntries
  BY ConfigAssumption DEF FadeConfig, ContinuationConfig, MomentumConfig
<1>2. NewState \in SymbolState /\ NewState.side = "FLAT" /\ ~ NewState.ready /\ NewState.window = 0
  BY <1>1 DEF SymbolState, NewState, Sides
<1>3. ASSUME NEW day \in Nat
      PROVE  [NewState EXCEPT !.day = day] \in SymbolState
             /\ [NewState EXCEPT !.day = day].side = "FLAT"
  <2> HIDE DEF NewState
  <2> QED  BY <1>2 DEF SymbolState
<1>4. ASSUME NEW day \in Nat, NEW p \in BOOLEAN
      PROVE  [NewState EXCEPT !.day = day, !.prior = p] \in SymbolState
             /\ [NewState EXCEPT !.day = day, !.prior = p].side = "FLAT"
  BY <1>2 DEF SymbolState
<1> QED  BY <1>2, <1>3, <1>4

(* The three turns there are. *)
LEMMA Turned ==
    ASSUME NEW old, NEW b, NEW st \in SymbolState
    PROVE  /\ st.side = Was(old, b) => TurnFits(old, b, Turn(st, <<>>))
           /\ \A r : Was(old, b) # "FLAT" /\ st.side = "FLAT" =>
                TurnFits(old, b, Turn(st, <<ExitIntent(b, Was(old, b), r)>>))
           /\ \A r : Was(old, b) = "FLAT" /\ st.side # "FLAT" =>
                TurnFits(old, b, Turn(st, <<EntryIntent(b, st.side, r)>>))
<1>1. \A q : Turn(st, q).state = st /\ Turn(st, q).intents = q  BY DEF Turn
<1> QED  BY <1>1, Zenon DEF TurnFits, Trades

LEMMA OrbTurn ==
    ASSUME NEW old \in SymbolState, NEW b, b.day \in Nat, b.time \in Nat
    PROVE  TurnFits(old, b, OrbBar(old, b))
<1> DEFINE s == IF old.day = b.day THEN old ELSE OrbReset(b.day, old)
           r == [s EXCEPT !.ready = TRUE]
           e == s.entered /\ ~ AllowReentry
           was == Was(old, b)
           forming == [s EXCEPT !.window = 1]
           out == [r EXCEPT !.side = "FLAT", !.entered = e]
           in == [r EXCEPT !.side = "LONG", !.entered = TRUE]
<1>1. s \in SymbolState /\ s.side = was  BY DayStart DEF OrbReset, Was
<1>2. OrbBar(old, b) =
        CASE ~ s.ready /\ b.time < RangeEnd -> Turn(forming, <<>>)
          [] (s.ready \/ b.time >= RangeEnd) /\ s.side # "FLAT" /\ OrbExit(b) # "" ->
               Turn(out, <<ExitIntent(b, s.side, OrbExit(b))>>)
          [] (s.ready \/ b.time >= RangeEnd) /\ s.side = "FLAT" /\ OrbOpen(s, b) ->
               Turn(in, <<EntryIntent(b, "LONG", "breakout")>>)
          [] OTHER -> Turn(r, <<>>)
  BY DEF OrbBar
<1>3. e \in BOOLEAN  OBVIOUS
<1> HIDE DEF s, e
<1>4. r \in SymbolState /\ r.side = was  BY <1>1, StateSet
<1>5. forming \in SymbolState /\ forming.side = was  BY <1>1, StateSet
<1> HIDE DEF r, forming
<1>6. "FLAT" \in Sides /\ "LONG" \in Sides  BY DEF Sides
<1>7. out \in SymbolState /\ out.side = "FLAT"
  <2>1. \A x \in BOOLEAN : /\ [r EXCEPT !.side = "FLAT", !.entered = x] \in SymbolState
                          /\ [r EXCEPT !.side = "FLAT", !.entered = x].side = "FLAT"
    BY <1>4, <1>6, Sided
  <2> QED  BY <1>3, <2>1
<1>8. in \in SymbolState /\ in.side = "LONG"  BY <1>4, <1>6, Sided
<1>9. RangeEnd \in Nat  BY ConfigAssumption DEF OrbConfig
<1> HIDE DEF out, in, was
<1>10. was = Was(old, b)  BY DEF was
<1> QED  BY <1>1, <1>2, <1>4, <1>5, <1>7, <1>8, <1>9, <1>10, Turned

(* From the square-off on an exit is always due and no entry allowed. *)
LEMMA LateExit ==
    ASSUME NEW b, b.time \in Nat, b.time >= SquareOff
    PROVE  /\ SquareOffFirst(b) # ""
           /\ \A levels : SquareOffLast(levels, b) # ""
           /\ ~ (b.time <= LatestEntry)
<1>1. SquareOffFirst(b) # ""  BY DEF SquareOffFirst
<1>2. \A levels : SquareOffLast(levels, b) # ""  BY DEF SquareOffLast
<1>3. SquareOff \in Nat /\ LatestEntry \in Nat /\ SquareOff > LatestEntry
  BY ConfigAssumption DEF OrbConfig, ContinuationConfig, FadeConfig
<1>4. ~ (b.time <= LatestEntry)
  <2> DEFINE t == b.time
  <2>1. t \in Nat /\ t >= SquareOff  OBVIOUS
  <2> HIDE DEF t
  <2>2. ~ (t <= LatestEntry)  BY <1>3, <2>1
  <2> QED  BY <2>2 DEF t
<1> QED  BY <1>1, <1>2, <1>4

LEMMA OneMore ==
    ASSUME NEW s \in SymbolState, s.entries < DailyEntries
    PROVE  s.entries + 1 \in 0..DailyEntries
<1>1. s.entries \in 0..DailyEntries /\ DailyEntries \in Nat
  BY ConfigAssumption DEF SymbolState, ContinuationConfig, FadeConfig
<1> QED  BY <1>1

(* The opening bar fixes a direction and leaves the position alone. *)
LEMMA Directed ==
    ASSUME NEW s \in SymbolState, NEW d \in Sides
    PROVE  /\ [s EXCEPT !.opened = TRUE, !.direction = d] \in SymbolState
           /\ [s EXCEPT !.opened = TRUE, !.direction = d].side = s.side
BY DEF SymbolState

LEMMA FadeOpens ==
    ASSUME NEW s \in SymbolState, NEW b
    PROVE  FadeOpening(s, b) \in SymbolState /\ FadeOpening(s, b).side = s.side
<1>1. Against(b.gap) \in Sides /\ "FLAT" \in Sides  BY DEF Against, Sides
<1> DEFINE d == IF s.prior /\ Allowed(Against(b.gap)) THEN Against(b.gap) ELSE "FLAT"
           t == [s EXCEPT !.opened = TRUE, !.direction = d]
<1>2. d \in Sides  BY <1>1
<1>3. FadeOpening(s, b) = IF s.opened \/ b.time < SessionStart THEN s ELSE t
  BY DEF FadeOpening
<1> HIDE DEF d
<1>4. t \in SymbolState /\ t.side = s.side  BY <1>2, Directed
<1> HIDE DEF t
<1> QED  BY <1>3, <1>4

LEMMA ContinuationOpens ==
    ASSUME NEW s \in SymbolState, NEW b
    PROVE  ContinuationOpening(s, b) \in SymbolState /\ ContinuationOpening(s, b).side = s.side
<1>1. Direction(b.gap) \in Sides /\ "FLAT" \in Sides  BY DEF Direction, Sides
<1> DEFINE d == IF s.prior /\ Allowed(Direction(b.gap)) THEN Direction(b.gap) ELSE "FLAT"
           t == [s EXCEPT !.opened = TRUE, !.direction = d]
<1>2. d \in Sides  BY <1>1
<1>3. ContinuationOpening(s, b) = IF s.opened \/ b.time < SessionStart THEN s ELSE t
  BY DEF ContinuationOpening
<1> HIDE DEF d
<1>4. t \in SymbolState /\ t.side = s.side  BY <1>2, Directed
<1> HIDE DEF t
<1> QED  BY <1>3, <1>4

LEMMA FadeTurn ==
    ASSUME NEW old \in SymbolState, NEW b, b.day \in Nat, b.time \in Nat
    PROVE  /\ TurnFits(old, b, FadeBar(old, b))
           /\ b.time >= SquareOff => FadeBar(old, b).state.side = "FLAT"
<1> DEFINE day == IF old.day = b.day THEN old ELSE FadeReset(b.day, old)
           known == [day EXCEPT !.closed = TRUE]
           s == FadeOpening(known, b)
           out == [s EXCEPT !.side = "FLAT"]
           in == [s EXCEPT !.side = s.direction, !.entries = s.entries + 1]
           was == Was(old, b)
<1>1. day \in SymbolState /\ day.side = was
  <2>1. old.closed \in BOOLEAN  BY DEF SymbolState
  <2> QED  BY <2>1, DayStart DEF FadeReset, Was
<1> HIDE DEF day
<1>2. known \in SymbolState /\ known.side = was  BY <1>1, StateSet
<1> HIDE DEF known
<1>3. s \in SymbolState /\ s.side = was  BY <1>2, FadeOpens
<1>4. FadeBar(old, b) =
        CASE s.side # "FLAT" /\ FadeExit(b) # "" ->
               Turn(out, <<ExitIntent(b, s.side, FadeExit(b))>>)
          [] FadeCanEnter(s, b) /\ b.signal -> Turn(in, <<EntryIntent(b, s.direction, "fade")>>)
          [] OTHER -> Turn(s, <<>>)
  BY DEF FadeBar, FadeEntered, day, known
<1> HIDE DEF s
<1>5. out \in SymbolState /\ out.side = "FLAT"
  <2>1. "FLAT" \in Sides  BY DEF Sides
  <2> QED  BY <1>3, <2>1, Sided
<1>6. FadeCanEnter(s, b) => /\ in \in SymbolState /\ in.side = s.direction
                            /\ s.direction # "FLAT" /\ s.side = "FLAT" /\ b.time <= LatestEntry
  <2> SUFFICES ASSUME FadeCanEnter(s, b)
               PROVE  /\ in \in SymbolState /\ in.side = s.direction
                      /\ s.direction # "FLAT" /\ s.side = "FLAT" /\ b.time <= LatestEntry
    OBVIOUS
  <2>1. /\ s.direction # "FLAT" /\ s.side = "FLAT" /\ b.time <= LatestEntry
        /\ s.entries < DailyEntries
    BY DEF FadeCanEnter
  <2> DEFINE d == s.direction
             n == s.entries + 1
  <2>2. d \in Sides  BY <1>3 DEF SymbolState
  <2>3. n \in 0..DailyEntries  BY <1>3, <2>1, OneMore
  <2> HIDE DEF d, n
  <2>4. /\ [s EXCEPT !.side = d, !.entries = n] \in SymbolState
        /\ [s EXCEPT !.side = d, !.entries = n].side = d
    BY <1>3, <2>2, <2>3, Sided, ZenonT(30)
  <2> QED  BY <2>1, <2>4 DEF d, n
<1> HIDE DEF out, in, was
<1>7. was = Was(old, b)  BY DEF was
<1>8. \A st, q : Turn(st, q).state = st  BY DEF Turn
<1>9. TurnFits(old, b, FadeBar(old, b))
  BY <1>3, <1>4, <1>5, <1>6, <1>7, Turned
<1>10. ASSUME b.time >= SquareOff PROVE FadeBar(old, b).state.side = "FLAT"
  BY <1>3, <1>4, <1>5, <1>6, <1>8, <1>10, LateExit DEF FadeExit
<1> QED  BY <1>9, <1>10

LEMMA ContinuationTurn ==
    ASSUME NEW old \in SymbolState, NEW b, b.day \in Nat, b.time \in Nat
    PROVE  /\ TurnFits(old, b, ContinuationBar(old, b))
           /\ b.time >= SquareOff => ContinuationBar(old, b).state.side = "FLAT"
<1> DEFINE day == IF old.day = b.day THEN old ELSE ContinuationReset(b.day, old)
           known == [day EXCEPT !.closed = TRUE]
           s == ContinuationOpening(known, b)
           out == [s EXCEPT !.side = "FLAT"]
           in == [s EXCEPT !.side = s.direction, !.entries = s.entries + 1]
           was == Was(old, b)
<1>1. day \in SymbolState /\ day.side = was
  <2>1. old.closed \in BOOLEAN  BY DEF SymbolState
  <2> QED  BY <2>1, DayStart DEF ContinuationReset, Was
<1> HIDE DEF day
<1>2. known \in SymbolState /\ known.side = was  BY <1>1, StateSet
<1> HIDE DEF known
<1>3. s \in SymbolState /\ s.side = was  BY <1>2, ContinuationOpens
<1>4. ContinuationBar(old, b) =
        CASE s.side # "FLAT" /\ ContinuationExit(b) # "" ->
               Turn(out, <<ExitIntent(b, s.side, ContinuationExit(b))>>)
          [] ContinuationCanEnter(s, b) /\ b.signal ->
               Turn(in, <<EntryIntent(b, s.direction, "continuation")>>)
          [] OTHER -> Turn(s, <<>>)
  BY DEF ContinuationBar, ContinuationEntered, day, known
<1> HIDE DEF s
<1>5. out \in SymbolState /\ out.side = "FLAT"
  <2>1. "FLAT" \in Sides  BY DEF Sides
  <2> QED  BY <1>3, <2>1, Sided
<1>6. ContinuationCanEnter(s, b) => /\ in \in SymbolState /\ in.side = s.direction
                            /\ s.direction # "FLAT" /\ s.side = "FLAT" /\ b.time <= LatestEntry
  <2> SUFFICES ASSUME ContinuationCanEnter(s, b)
               PROVE  /\ in \in SymbolState /\ in.side = s.direction
                      /\ s.direction # "FLAT" /\ s.side = "FLAT" /\ b.time <= LatestEntry
    OBVIOUS
  <2>1. /\ s.direction # "FLAT" /\ s.side = "FLAT" /\ b.time <= LatestEntry
        /\ s.entries < DailyEntries
    BY DEF ContinuationCanEnter
  <2> DEFINE d == s.direction
             n == s.entries + 1
  <2>2. d \in Sides  BY <1>3 DEF SymbolState
  <2>3. n \in 0..DailyEntries  BY <1>3, <2>1, OneMore
  <2> HIDE DEF d, n
  <2>4. /\ [s EXCEPT !.side = d, !.entries = n] \in SymbolState
        /\ [s EXCEPT !.side = d, !.entries = n].side = d
    BY <1>3, <2>2, <2>3, Sided, ZenonT(30)
  <2> QED  BY <2>1, <2>4 DEF d, n
<1> HIDE DEF out, in, was
<1>7. was = Was(old, b)  BY DEF was
<1>8. \A st, q : Turn(st, q).state = st  BY DEF Turn
<1>9. TurnFits(old, b, ContinuationBar(old, b))
  BY <1>3, <1>4, <1>5, <1>6, <1>7, Turned
<1>10. ASSUME b.time >= SquareOff PROVE ContinuationBar(old, b).state.side = "FLAT"
  BY <1>3, <1>4, <1>5, <1>6, <1>8, <1>10, LateExit DEF ContinuationExit
<1> QED  BY <1>9, <1>10

LEMMA VwapTurn ==
    ASSUME NEW old \in SymbolState, NEW b, b.day \in Nat, b.time \in Nat
    PROVE  /\ TurnFits(old, b, VwapBar(old, b))
           /\ b.time >= SquareOff => VwapBar(old, b).state.side = "FLAT"
<1> DEFINE day == IF old.day = b.day THEN old ELSE VwapReset(b.day)
           s == [day EXCEPT !.bars = Counted(day.bars, MinBars)]
           e == s.entered /\ ~ AllowReentry
           out == [s EXCEPT !.side = "FLAT", !.entered = e]
           in == [s EXCEPT !.side = "LONG", !.entered = TRUE, !.entries = s.entries + 1]
           was == Was(old, b)
<1>1. day \in SymbolState /\ day.side = was  BY DayStart DEF VwapReset, Was
<1> HIDE DEF day
<1>2. s \in SymbolState /\ s.side = was  BY <1>1, StateSet
<1>3. VwapBar(old, b) =
        CASE s.side # "FLAT" /\ VwapExit(b) # "" ->
               Turn(out, <<ExitIntent(b, s.side, VwapExit(b))>>)
          [] VwapCanEnter(s, b) /\ VwapEntry(s, b) ->
               Turn(in, <<EntryIntent(b, "LONG", "pullback")>>)
          [] OTHER -> Turn(s, <<>>)
  BY DEF VwapBar, day
<1>4. e \in BOOLEAN  OBVIOUS
<1>5. "FLAT" \in Sides /\ "LONG" \in Sides  BY DEF Sides
<1> HIDE DEF s, e
<1>6. out \in SymbolState /\ out.side = "FLAT"
  <2>1. \A x \in BOOLEAN : /\ [s EXCEPT !.side = "FLAT", !.entered = x] \in SymbolState
                          /\ [s EXCEPT !.side = "FLAT", !.entered = x].side = "FLAT"
    BY <1>2, <1>5, Sided
  <2> QED  BY <1>4, <2>1
<1>7. VwapCanEnter(s, b) => /\ in \in SymbolState /\ in.side = "LONG"
                            /\ s.side = "FLAT" /\ b.time <= LatestEntry
  <2> SUFFICES ASSUME VwapCanEnter(s, b)
               PROVE  /\ in \in SymbolState /\ in.side = "LONG"
                      /\ s.side = "FLAT" /\ b.time <= LatestEntry
    OBVIOUS
  <2>1. s.side = "FLAT" /\ b.time <= LatestEntry /\ s.entries < DailyEntries
    BY DEF VwapCanEnter
  <2> DEFINE n == s.entries + 1
  <2>2. n \in 0..DailyEntries  BY <1>2, <2>1, OneMore
  <2> HIDE DEF n
  <2>3. /\ [s EXCEPT !.side = "LONG", !.entered = TRUE, !.entries = n] \in SymbolState
        /\ [s EXCEPT !.side = "LONG", !.entered = TRUE, !.entries = n].side = "LONG"
    BY <1>2, <1>5, <2>2 DEF SymbolState
  <2> QED  BY <2>1, <2>3 DEF n
<1> HIDE DEF out, in, was
<1>8. was = Was(old, b)  BY DEF was
<1>9. \A st, q : Turn(st, q).state = st  BY DEF Turn
<1>10. TurnFits(old, b, VwapBar(old, b))
  BY <1>2, <1>3, <1>6, <1>7, <1>8, Turned
<1>11. ASSUME b.time >= SquareOff PROVE VwapBar(old, b).state.side = "FLAT"
  BY <1>2, <1>3, <1>6, <1>7, <1>9, <1>11, LateExit DEF VwapExit
<1> QED  BY <1>10, <1>11

LEMMA MomentumOpens ==
    ASSUME NEW s \in SymbolState, WindowFits(s), NEW b
    PROVE  /\ MomentumWindow(s, b) \in SymbolState /\ MomentumWindow(s, b).side = s.side
           /\ WindowFits(MomentumWindow(s, b))
<1> DEFINE n == s.window + 1
           full == n >= WindowBars
           d == IF full THEN Direction(b.gap) ELSE "FLAT"
           t == [s EXCEPT !.window = n, !.ready = full, !.direction = d]
<1>1. MomentumWindow(s, b) = IF s.ready \/ b.time < SessionStart THEN s ELSE t
  BY DEF MomentumWindow
<1>2. d \in Sides  BY DEF Direction, Sides
<1>3. full \in BOOLEAN  OBVIOUS
<1>4. ~ s.ready => n \in 0..WindowBars /\ (~ full => n < WindowBars)
  <2>1. s.window \in Nat /\ WindowBars \in Nat
    BY ConfigAssumption DEF SymbolState, MomentumConfig
  <2> QED  BY <2>1 DEF WindowFits
<1> HIDE DEF n, full, d
<1>5. ASSUME ~ s.ready PROVE t \in SymbolState /\ t.side = s.side /\ WindowFits(t)
  <2>1. \A x \in BOOLEAN :
          LET u == [s EXCEPT !.window = n, !.ready = x, !.direction = d]
          IN  u \in SymbolState /\ u.side = s.side /\ u.ready = x /\ u.window = n
    BY <1>2, <1>4, <1>5 DEF SymbolState
  <2>2. t \in SymbolState /\ t.side = s.side /\ t.ready = full /\ t.window = n
    BY <1>3, <2>1
  <2> HIDE DEF t
  <2> QED  BY <1>4, <1>5, <2>2 DEF WindowFits
<1> HIDE DEF t
<1> QED  BY <1>1, <1>5

LEMMA MomentumTurn ==
    ASSUME NEW old \in SymbolState, WindowFits(old), NEW b, b.day \in Nat, b.time \in Nat
    PROVE  /\ TurnFits(old, b, MomentumBar(old, b))
           /\ WindowFits(MomentumBar(old, b).state)
           /\ b.time >= SquareOff => MomentumBar(old, b).state.side = "FLAT"
<1> DEFINE day == IF old.day = b.day THEN old ELSE MomentumReset(b.day)
           w == MomentumWindow(day, b)
           s == [w EXCEPT !.bars = Counted(day.bars, MinBars)]
           out == [s EXCEPT !.side = "FLAT"]
           in == [s EXCEPT !.side = s.direction, !.entered = TRUE, !.entries = s.entries + 1]
           was == Was(old, b)
<1>1. day \in SymbolState /\ day.side = was  BY DayStart DEF MomentumReset, Was
<1>2. WindowFits(day)
  <2> DEFINE u == [NewState EXCEPT !.day = b.day]
  <2>1. NewState \in SymbolState /\ NewState.window = 0  BY DayStart
  <2>2. u.window = 0  BY <2>1 DEF SymbolState
  <2>3. 0 < WindowBars  BY ConfigAssumption DEF MomentumConfig
  <2>4. day = IF old.day = b.day THEN old ELSE u  BY DEF MomentumReset
  <2> HIDE DEF day, u
  <2> QED  BY <2>2, <2>3, <2>4 DEF WindowFits
<1> HIDE DEF day
<1>3. w \in SymbolState /\ w.side = was /\ WindowFits(w)
  BY <1>1, <1>2, MomentumOpens
<1> DEFINE n == Counted(day.bars, MinBars)
<1>4. n \in 0..MinBars
  <2>1. day.bars \in 0..MinBars /\ MinBars \in Nat
    BY <1>1, ConfigAssumption DEF SymbolState
  <2> QED  BY <2>1 DEF Counted
<1> HIDE DEF w, n
<1>5. s = [w EXCEPT !.bars = n]  BY DEF n
<1>6. s \in SymbolState /\ s.side = was /\ s.ready = w.ready /\ s.window = w.window
  BY <1>3, <1>4, <1>5 DEF SymbolState
<1>7. WindowFits(s)  BY <1>3, <1>6 DEF WindowFits
<1>8. MomentumBar(old, b) =
        CASE s.side # "FLAT" /\ MomentumExit(b) # "" ->
               Turn(out, <<ExitIntent(b, s.side, MomentumExit(b))>>)
          [] MomentumCanEnter(s, b) /\ MomentumEntry(s, b) ->
               Turn(in, <<EntryIntent(b, s.direction, "momentum")>>)
          [] OTHER -> Turn(s, <<>>)
  BY DEF MomentumBar, MomentumEntered, day, w
<1> HIDE DEF s
<1>9. "FLAT" \in Sides  BY DEF Sides
<1>10. out \in SymbolState /\ out.side = "FLAT"  BY <1>6, <1>9, Sided
<1>11. WindowFits(out)
  <2>1. out.ready = s.ready /\ out.window = s.window  BY <1>6 DEF SymbolState
  <2> QED  BY <1>7, <2>1 DEF WindowFits
<1>12. MomentumCanEnter(s, b) /\ MomentumEntry(s, b) =>
         /\ in \in SymbolState /\ in.side = s.direction /\ WindowFits(in)
         /\ s.direction # "FLAT" /\ s.side = "FLAT" /\ b.time <= LatestEntry
  <2> SUFFICES ASSUME MomentumCanEnter(s, b), MomentumEntry(s, b)
               PROVE  /\ in \in SymbolState /\ in.side = s.direction /\ WindowFits(in)
                      /\ s.direction # "FLAT" /\ s.side = "FLAT" /\ b.time <= LatestEntry
    OBVIOUS
  <2>1. /\ s.direction # "FLAT" /\ s.side = "FLAT" /\ b.time <= LatestEntry
        /\ s.entries < DailyEntries
    BY DEF MomentumCanEnter, MomentumEntry
  <2> DEFINE d == s.direction
             m == s.entries + 1
  <2>2. d \in Sides  BY <1>6 DEF SymbolState
  <2>3. m \in 0..DailyEntries  BY <1>6, <2>1, OneMore
  <2> HIDE DEF d, m
  <2>4. /\ [s EXCEPT !.side = d, !.entered = TRUE, !.entries = m] \in SymbolState
        /\ [s EXCEPT !.side = d, !.entered = TRUE, !.entries = m].side = d
    BY <1>6, <2>2, <2>3, Sided
  <2>5. in \in SymbolState /\ in.side = s.direction  BY <2>4 DEF d, m
  <2>6. in.ready = s.ready /\ in.window = s.window  BY <1>6 DEF SymbolState
  <2> HIDE DEF in
  <2> QED  BY <1>7, <2>1, <2>5, <2>6 DEF WindowFits
<1> HIDE DEF out, in, was
<1>13. was = Was(old, b)  BY DEF was
<1>14. \A st, q : Turn(st, q).state = st  BY DEF Turn
<1>15. TurnFits(old, b, MomentumBar(old, b))
  BY <1>6, <1>8, <1>10, <1>12, <1>13, Turned
<1>16. WindowFits(MomentumBar(old, b).state)
  <2> DEFINE st == MomentumBar(old, b).state
  <2>1. st = out \/ st = s \/ (MomentumCanEnter(s, b) /\ MomentumEntry(s, b) /\ st = in)
    BY <1>8, <1>14
  <2> QED  BY <1>7, <1>11, <1>12, <2>1
<1>17. ASSUME b.time >= SquareOff PROVE MomentumBar(old, b).state.side = "FLAT"
  BY <1>6, <1>8, <1>10, <1>12, <1>14, <1>17, LateExit, ZenonT(30) DEF MomentumExit
<1> QED  BY <1>15, <1>16, <1>17
-----------------------------------------------------------------------------
(* A turn of a strategy on daily bars. *)

Deals(old, b, turn) ==
    \/ turn.state.qty = old.qty /\ turn.intents = <<>>
    \/ /\ old.qty > 0 /\ turn.state.qty = 0
       /\ \E r : turn.intents = <<Order(b.symbol, "SELL", old.qty, r)>>
    \/ /\ old.qty = 0 /\ turn.state.qty > 0
       /\ \E r : turn.intents = <<Order(b.symbol, "BUY", turn.state.qty, r)>>
DealFits(old, b, turn) == turn.state \in SwingState /\ Deals(old, b, turn)

LEMMA LotPositive ==
    ASSUME NEW price \in Nat \ {0} PROVE Lot(price) \in Nat \ {0}
<1>1. Capital \div price \in Int  BY SwingAssumption DEF SwingConfig
<1> DEFINE n == Capital \div price
<1> HIDE DEF n
<1>2. (IF n > 1 THEN n ELSE 1) \in Nat \ {0}  BY <1>1 DEF n
<1> QED  BY <1>2 DEF Lot, n

(* What the strategies set in a state. *)
LEMMA SwingSet ==
    ASSUME NEW s \in SwingState
    PROVE  /\ LET t == [s EXCEPT !.bars = Seen(s.bars)]
              IN  /\ t \in SwingState /\ t.qty = s.qty /\ t.since = s.since
                  /\ t.buy = s.buy /\ t.sell = s.sell /\ t.trend = s.trend
           /\ LET t == ClearSwing(s)
              IN  t \in SwingState /\ t.qty = 0 /\ t.buy = s.buy /\ t.sell = s.sell
           /\ \A n \in -1..1 : LET t == [s EXCEPT !.trend = n]
              IN  t \in SwingState /\ t.qty = s.qty /\ t.buy = s.buy /\ t.sell = s.sell
<1> DEFINE n == Seen(s.bars)
<1>1. n \in 0..Warmup
  <2>1. s.bars \in 0..Warmup /\ Warmup \in Nat  BY SwingAssumption DEF SwingState, SwingConfig
  <2> QED  BY <2>1 DEF Seen
<1> HIDE DEF n
<1>2. LET t == [s EXCEPT !.bars = n]
      IN  /\ t \in SwingState /\ t.qty = s.qty /\ t.since = s.since
          /\ t.buy = s.buy /\ t.sell = s.sell /\ t.trend = s.trend
  <2> DEFINE t == [s EXCEPT !.bars = n]
  <2>1. t \in SwingState
    <3>1. \A m \in 0..Warmup : [s EXCEPT !.bars = m] \in SwingState  BY DEF SwingState
    <3> QED  BY <1>1, <3>1
  <2>2. /\ t.qty = s.qty /\ t.since = s.since
        /\ t.buy = s.buy /\ t.sell = s.sell /\ t.trend = s.trend
    BY DEF SwingState
  <2> QED  BY <2>1, <2>2
<1>3. LET t == ClearSwing(s)
      IN  t \in SwingState /\ t.qty = 0 /\ t.buy = s.buy /\ t.sell = s.sell
  BY DEF SwingState, ClearSwing
<1>4. ASSUME NEW m \in -1..1
      PROVE  LET t == [s EXCEPT !.trend = m]
             IN  t \in SwingState /\ t.qty = s.qty /\ t.buy = s.buy /\ t.sell = s.sell
  <2>1. [s EXCEPT !.trend = m] \in SwingState  BY DEF SwingState
  <2>2. /\ [s EXCEPT !.trend = m].qty = s.qty /\ [s EXCEPT !.trend = m].buy = s.buy
        /\ [s EXCEPT !.trend = m].sell = s.sell
    BY DEF SwingState
  <2> QED  BY <2>1, <2>2
<1> QED  BY <1>2, <1>3, <1>4 DEF n

LEMMA SwingOpened ==
    ASSUME NEW s \in SwingState, NEW b, b.day \in Nat, b.close \in Nat \ {0}
    PROVE  LET t == OpenSwing(s, b)
           IN  /\ t \in SwingState /\ t.qty = Lot(b.close) /\ t.qty > 0
               /\ t.buy = s.buy /\ t.sell = s.sell
<1> DEFINE n == Lot(b.close)
<1>1. n \in Nat \ {0}  BY LotPositive
<1> HIDE DEF n
<1>2. OpenSwing(s, b) = [s EXCEPT !.qty = n, !.since = b.day]  BY DEF OpenSwing, n
<1>3. LET t == [s EXCEPT !.qty = n, !.since = b.day]
      IN  t \in SwingState /\ t.qty = n /\ t.qty > 0 /\ t.buy = s.buy /\ t.sell = s.sell
  <2> DEFINE t == [s EXCEPT !.qty = n, !.since = b.day]
  <2>1. \A m, d \in Nat : [s EXCEPT !.qty = m, !.since = d] \in SwingState  BY DEF SwingState
  <2>2. t \in SwingState  BY <1>1, <2>1
  <2>3. t.qty = n /\ t.buy = s.buy /\ t.sell = s.sell  BY DEF SwingState
  <2>4. n > 0  BY <1>1
  <2> QED  BY <2>2, <2>3, <2>4
<1> QED  BY <1>2, <1>3 DEF n

LEMMA Dealt ==
    ASSUME NEW old, NEW b, NEW st \in SwingState
    PROVE  /\ st.qty = old.qty => DealFits(old, b, Answer(st, <<>>))
           /\ \A r : old.qty > 0 /\ st.qty = 0 =>
                DealFits(old, b, Answer(st, <<Order(b.symbol, "SELL", old.qty, r)>>))
           /\ \A r, n : old.qty = 0 /\ st.qty = n /\ n > 0 =>
                DealFits(old, b, Answer(st, <<Order(b.symbol, "BUY", n, r)>>))
<1>1. \A q : Answer(st, q).state = st /\ Answer(st, q).intents = q  BY DEF Answer
<1>2. st.qty = old.qty => DealFits(old, b, Answer(st, <<>>))
  BY <1>1, Zenon DEF DealFits, Deals
<1>3. ASSUME NEW r, old.qty > 0, st.qty = 0
      PROVE  DealFits(old, b, Answer(st, <<Order(b.symbol, "SELL", old.qty, r)>>))
  <2> DEFINE q == <<Order(b.symbol, "SELL", old.qty, r)>>
             turn == Answer(st, q)
  <2>1. turn.state = st /\ turn.intents = q  BY <1>1
  <2> HIDE DEF turn
  <2>2. DealFits(old, b, turn)  BY <1>3, <2>1, Zenon DEF DealFits, Deals
  <2> QED  BY <2>2 DEF turn
<1>4. ASSUME NEW r, NEW n, old.qty = 0, st.qty = n, n > 0
      PROVE  DealFits(old, b, Answer(st, <<Order(b.symbol, "BUY", n, r)>>))
  <2> DEFINE q == <<Order(b.symbol, "BUY", n, r)>>
             turn == Answer(st, q)
  <2>1. turn.state = st /\ turn.intents = q  BY <1>1
  <2> HIDE DEF turn
  <2>2. DealFits(old, b, turn)  BY <1>4, <2>1, Zenon DEF DealFits, Deals
  <2> QED  BY <2>2 DEF turn
<1> QED  BY <1>2, <1>3, <1>4

LEMMA SupertrendTurn ==
    ASSUME NEW old \in SwingState, NothingLeft(old),
           NEW b, b.day \in Nat, b.close \in Nat \ {0}
    PROVE  /\ DealFits(old, b, SupertrendBar(old, b))
           /\ NothingLeft(SupertrendBar(old, b).state)
<1> DEFINE s == [old EXCEPT !.bars = Seen(old.bars)]
           n == NewTrend(s, b)
           t == [s EXCEPT !.trend = n]
           out == ClearSwing(t)
           in == OpenSwing(t, b)
<1>1. s \in SwingState /\ s.qty = old.qty /\ s.buy = old.buy /\ s.sell = old.sell
  BY SwingSet
<1>2. SupertrendBar(old, b) =
        CASE s.bars < Warmup -> Answer(s, <<>>)
          [] s.bars = Warmup /\ s.qty > 0 /\ SupertrendExit(s, b) # "" ->
               Answer(out, <<Order(b.symbol, "SELL", s.qty, SupertrendExit(s, b))>>)
          [] s.bars = Warmup /\ s.qty = 0 /\ t.trend = 1 /\ s.trend # 1 ->
               Answer(in, <<Order(b.symbol, "BUY", Lot(b.close), "flip")>>)
          [] OTHER -> Answer(t, <<>>)
  BY DEF SupertrendBar
<1> HIDE DEF s
<1>3. n \in -1..1
  <2>1. s.trend \in -1..1  BY <1>1 DEF SwingState
  <2>2. n = 1 \/ n = -1 \/ n = s.trend  BY DEF NewTrend
  <2> QED  BY <2>1, <2>2
<1> HIDE DEF n
<1>4. t \in SwingState /\ t.qty = old.qty /\ t.buy = old.buy /\ t.sell = old.sell
  BY <1>1, <1>3, SwingSet
<1> HIDE DEF t
<1>5. out \in SwingState /\ out.qty = 0 /\ out.buy = old.buy /\ out.sell = old.sell
  BY <1>4, SwingSet
<1>6. /\ in \in SwingState /\ in.qty = Lot(b.close) /\ in.qty > 0
      /\ in.buy = old.buy /\ in.sell = old.sell
  BY <1>4, SwingOpened
<1> HIDE DEF out, in
<1>7. DealFits(old, b, SupertrendBar(old, b))
  BY <1>1, <1>2, <1>4, <1>5, <1>6, Dealt
<1>8. \A st, q : Answer(st, q).state = st  BY DEF Answer
<1> DEFINE st == SupertrendBar(old, b).state
<1>9. st.buy = old.buy /\ st.sell = old.sell
  <2>1. st = s \/ st = out \/ st = in \/ st = t  BY <1>2, <1>8
  <2> HIDE DEF st
  <2> QED  BY <1>1, <1>4, <1>5, <1>6, <2>1
<1> QED  BY <1>7, <1>9 DEF NothingLeft

LEMMA PullbackTurn ==
    ASSUME NEW old \in SwingState, NothingLeft(old),
           NEW b, b.day \in Nat, b.close \in Nat \ {0}
    PROVE  /\ DealFits(old, b, PullbackBar(old, b))
           /\ NothingLeft(PullbackBar(old, b).state)
<1> DEFINE s == [old EXCEPT !.bars = Seen(old.bars)]
           out == ClearSwing(s)
           in == OpenSwing(s, b)
<1>1. s \in SwingState /\ s.qty = old.qty /\ s.buy = old.buy /\ s.sell = old.sell
  BY SwingSet
<1>2. PullbackBar(old, b) =
        CASE s.bars = Warmup /\ s.qty > 0 /\ PullbackExit(s, b) # "" ->
               Answer(out, <<Order(b.symbol, "SELL", s.qty, PullbackExit(s, b))>>)
          [] s.bars = Warmup /\ s.qty = 0 /\ b.signal ->
               Answer(in, <<Order(b.symbol, "BUY", Lot(b.close), "entry")>>)
          [] OTHER -> Answer(s, <<>>)
  BY DEF PullbackBar
<1> HIDE DEF s
<1>3. out \in SwingState /\ out.qty = 0 /\ out.buy = old.buy /\ out.sell = old.sell
  BY <1>1, SwingSet
<1>4. /\ in \in SwingState /\ in.qty = Lot(b.close) /\ in.qty > 0
      /\ in.buy = old.buy /\ in.sell = old.sell
  BY <1>1, SwingOpened
<1> HIDE DEF out, in
<1>5. DealFits(old, b, PullbackBar(old, b))  BY <1>1, <1>2, <1>3, <1>4, Dealt
<1>6. \A st, q : Answer(st, q).state = st  BY DEF Answer
<1> DEFINE st == PullbackBar(old, b).state
<1>7. st.buy = old.buy /\ st.sell = old.sell
  <2>1. st = s \/ st = out \/ st = in  BY <1>2, <1>6
  <2> HIDE DEF st
  <2> QED  BY <1>1, <1>3, <1>4, <2>1
<1> QED  BY <1>5, <1>7 DEF NothingLeft

LEMMA RsiTurn ==
    ASSUME NEW old \in SwingState, LeftOver(old),
           NEW b, b.day \in Nat, b.close \in Nat \ {0}, b.signal \in BOOLEAN
    PROVE  DealFits(old, b, RsiBar(old, b)) /\ LeftOver(RsiBar(old, b).state)
<1> DEFINE sold == [ClearSwing(old) EXCEPT !.sell = ""]
           bought == [OpenSwing(old, b) EXCEPT !.buy = FALSE]
           fill == CASE old.sell # "" ->
                          Answer(sold, <<Order(b.symbol, "SELL", old.qty, old.sell)>>)
                     [] old.sell = "" /\ old.buy ->
                          Answer(bought, <<Order(b.symbol, "BUY", Lot(b.close), "entry")>>)
                     [] OTHER -> Answer(old, <<>>)
           s == [fill.state EXCEPT !.bars = Seen(old.bars)]
           leaving == [s EXCEPT !.sell = RsiExit(s, b)]
           coming == [s EXCEPT !.buy = b.signal]
<1>1. RsiBar(old, b) =
        CASE s.bars < Warmup -> Answer(s, fill.intents)
          [] s.bars = Warmup /\ s.qty > 0 -> Answer(leaving, fill.intents)
          [] OTHER -> Answer(coming, fill.intents)
  BY DEF RsiBar
<1>2. sold \in SwingState /\ sold.qty = 0 /\ sold.sell = ""
  <2> DEFINE c == ClearSwing(old)
  <2>1. c \in SwingState /\ c.qty = 0  BY SwingSet
  <2> HIDE DEF c
  <2>2. [c EXCEPT !.sell = ""] \in SwingState /\ [c EXCEPT !.sell = ""].qty = 0
        /\ [c EXCEPT !.sell = ""].sell = ""
    BY <2>1 DEF SwingState
  <2> QED  BY <2>2 DEF c
<1>3. /\ bought \in SwingState /\ bought.qty = Lot(b.close) /\ bought.qty > 0
      /\ ~ bought.buy /\ bought.sell = old.sell
  <2> DEFINE c == OpenSwing(old, b)
             q == Lot(b.close)
  <2>1. c \in SwingState /\ c.qty = q /\ c.qty > 0 /\ c.sell = old.sell  BY SwingOpened
  <2> HIDE DEF c, q
  <2>2. LET u == [c EXCEPT !.buy = FALSE]
        IN  u \in SwingState /\ u.qty = q /\ u.qty > 0 /\ ~ u.buy /\ u.sell = old.sell
    BY <2>1 DEF SwingState
  <2> QED  BY <2>2 DEF c, q
<1>4. old.qty \in Nat /\ old.buy \in BOOLEAN  BY DEF SwingState
<1> HIDE DEF sold, bought
<1>5. \A st, q : Answer(st, q).state = st /\ Answer(st, q).intents = q  BY DEF Answer
<1>6. /\ fill.state \in SwingState
      /\ fill.state.buy => fill.state.qty = 0
      /\ fill.state.sell = ""
      /\ \A st \in SwingState : st.qty = fill.state.qty =>
            DealFits(old, b, Answer(st, fill.intents))
  <2>1. CASE old.sell # ""
    <3>1. fill = Answer(sold, <<Order(b.symbol, "SELL", old.qty, old.sell)>>)  BY <2>1
    <3>2. old.qty > 0  BY <2>1 DEF LeftOver
    <3> HIDE DEF fill
    <3>3. /\ fill.state = sold
          /\ fill.intents = <<Order(b.symbol, "SELL", old.qty, old.sell)>>
      BY <1>5, <3>1
    <3>4. ASSUME NEW st \in SwingState, st.qty = fill.state.qty
          PROVE  DealFits(old, b, Answer(st, fill.intents))
      BY <1>2, <3>2, <3>3, <3>4, Dealt
    <3> QED  BY <1>2, <2>1, <3>3, <3>4
  <2>2. CASE old.sell = "" /\ old.buy
    <3>1. fill = Answer(bought, <<Order(b.symbol, "BUY", Lot(b.close), "entry")>>)  BY <2>2
    <3>2. old.qty = 0  BY <2>2 DEF LeftOver
    <3> HIDE DEF fill
    <3>3. /\ fill.state = bought
          /\ fill.intents = <<Order(b.symbol, "BUY", Lot(b.close), "entry")>>
      BY <1>5, <3>1
    <3>4. ASSUME NEW st \in SwingState, st.qty = fill.state.qty
          PROVE  DealFits(old, b, Answer(st, fill.intents))
      BY <1>3, <3>2, <3>3, <3>4, Dealt
    <3> QED  BY <1>3, <2>2, <3>3, <3>4
  <2>3. CASE old.sell = "" /\ ~ old.buy
    <3>1. fill = Answer(old, <<>>)  BY <2>3
    <3> HIDE DEF fill
    <3>3. fill.state = old /\ fill.intents = <<>>  BY <1>5, <3>1
    <3>4. ASSUME NEW st \in SwingState, st.qty = fill.state.qty
          PROVE  DealFits(old, b, Answer(st, fill.intents))
      BY <3>3, <3>4, Dealt
    <3> QED  BY <2>3, <3>3, <3>4
  <2> QED  BY <2>1, <2>2, <2>3
<1> DEFINE f == fill.state
<1>7. f \in SwingState /\ (f.buy => f.qty = 0) /\ f.sell = ""  BY <1>6
<1> DEFINE n == Seen(old.bars)
<1>8. n \in 0..Warmup
  <2>1. old.bars \in 0..Warmup /\ Warmup \in Nat  BY SwingAssumption DEF SwingState, SwingConfig
  <2> QED  BY <2>1 DEF Seen
<1> HIDE DEF f, n
<1>9. s = [f EXCEPT !.bars = n]  BY DEF f, n
<1>10. /\ s \in SwingState /\ s.qty = f.qty /\ s.buy = f.buy /\ s.sell = f.sell
       /\ s.qty \in Nat /\ s.bars \in 0..Warmup
  BY <1>7, <1>8, <1>9 DEF SwingState
<1> HIDE DEF fill, s
<1>11. LeftOver(s)  BY <1>7, <1>10 DEF LeftOver
<1>12. s.qty > 0 => /\ leaving \in SwingState /\ leaving.qty = s.qty /\ LeftOver(leaving)
  <2> DEFINE x == RsiExit(s, b)
  <2>1. x \in {"", "stop", "exit", "time"}  BY DEF RsiExit
  <2> HIDE DEF x
  <2>2. LET t == [s EXCEPT !.sell = x]
        IN  t \in SwingState /\ t.qty = s.qty /\ t.buy = s.buy
    BY <1>10, <2>1 DEF SwingState
  <2>3. leaving \in SwingState /\ leaving.qty = s.qty /\ leaving.buy = s.buy  BY <2>2 DEF x
  <2> HIDE DEF leaving
  <2> QED  BY <1>11, <2>3 DEF LeftOver
<1>13. s.qty = 0 => /\ coming \in SwingState /\ coming.qty = s.qty /\ LeftOver(coming)
  <2> DEFINE x == b.signal
  <2>1. x \in BOOLEAN  OBVIOUS
  <2> HIDE DEF x
  <2>2. LET t == [s EXCEPT !.buy = x]
        IN  t \in SwingState /\ t.qty = s.qty /\ t.sell = s.sell
    BY <1>10, <2>1 DEF SwingState
  <2>3. coming \in SwingState /\ coming.qty = s.qty /\ coming.sell = s.sell  BY <2>2 DEF x
  <2> HIDE DEF coming
  <2> QED  BY <1>7, <1>10, <2>3 DEF LeftOver
<1> HIDE DEF leaving, coming
<1>14. \A st \in SwingState : st.qty = s.qty => DealFits(old, b, Answer(st, fill.intents))
  BY <1>6, <1>10 DEF f
<1>15. Warmup \in Nat  BY SwingAssumption DEF SwingConfig
<1>16. CASE s.bars < Warmup
  BY <1>1, <1>5, <1>10, <1>11, <1>14, <1>16
<1>17. CASE s.bars = Warmup /\ s.qty > 0
  BY <1>1, <1>5, <1>10, <1>12, <1>14, <1>17
<1>18. CASE s.bars = Warmup /\ s.qty = 0
  BY <1>1, <1>5, <1>10, <1>13, <1>14, <1>18
<1> QED  BY <1>10, <1>15, <1>16, <1>17, <1>18
-----------------------------------------------------------------------------
(* A turn of a strategy on the ratio of two symbols. *)

SpreadMoves(pair, from, turn) ==
    \/ turn.state.spread = from /\ turn.intents = <<>>
    \/ /\ from # "NONE" /\ turn.state.spread = "NONE"
       /\ \E r : turn.intents = CloseLegs(pair, from, r)
    \/ /\ from = "NONE" /\ turn.state.spread # "NONE"
       /\ \E r : turn.intents = OpenLegs(pair, turn.state.spread, r)
MoveFits(pair, from, turn) == turn.state \in PairState /\ SpreadMoves(pair, from, turn)

LEMMA Moved ==
    ASSUME NEW pair, NEW from, NEW st \in PairState
    PROVE  /\ st.spread = from => MoveFits(pair, from, Answer(st, <<>>))
           /\ \A r : from # "NONE" /\ st.spread = "NONE" =>
                MoveFits(pair, from, Answer(st, CloseLegs(pair, from, r)))
           /\ \A r : from = "NONE" /\ st.spread # "NONE" =>
                MoveFits(pair, from, Answer(st, OpenLegs(pair, st.spread, r)))
<1>1. \A q : Answer(st, q).state = st /\ Answer(st, q).intents = q  BY DEF Answer
<1> QED  BY <1>1, Zenon DEF MoveFits, SpreadMoves

(* A bar of a leg arrives; once both legs are at its time, a ratio more is *)
(* known.                                                                  *)
LEMMA ArrivedPair ==
    ASSUME NEW s \in PairState, NEW leg \in 1..2, NEW b, b.day \in Nat, b.time \in Nat
    PROVE  LET t == Arrived(s, leg, b)
           IN  /\ t \in PairState /\ t.spread = s.spread /\ t.qty = s.qty
               /\ t.at = [s.at EXCEPT ![leg] = <<b.day, b.time>>]
<1> DEFINE d == <<b.day, b.time>>
           at == [s.at EXCEPT ![leg] = d]
           t == [s EXCEPT !.at = at]
<1>1. d \in Nat \X Nat  OBVIOUS
<1> HIDE DEF d
<1>2. s.at \in [1..2 -> Nat \X Nat]  BY DEF PairState
<1>3. at \in [1..2 -> Nat \X Nat]  BY <1>1, <1>2
<1>4. Arrived(s, leg, b) = t  BY DEF Arrived, d
<1> HIDE DEF at
<1>5. \A x \in [1..2 -> Nat \X Nat] : [s EXCEPT !.at = x] \in PairState  BY DEF PairState
<1>6. t \in PairState  BY <1>3, <1>5
<1>7. t.spread = s.spread /\ t.qty = s.qty /\ t.at = at  BY DEF PairState
<1> QED  BY <1>4, <1>6, <1>7 DEF at, d

LEMMA CountedPair ==
    ASSUME NEW s \in PairState
    PROVE  LET t == [s EXCEPT !.bars = Seen(s.bars)]
           IN  t \in PairState /\ t.spread = s.spread /\ t.qty = s.qty /\ t.at = s.at
<1> DEFINE n == Seen(s.bars)
           t == [s EXCEPT !.bars = n]
<1>1. n \in 0..Warmup
  <2>1. s.bars \in 0..Warmup /\ Warmup \in Nat  BY SwingAssumption DEF PairState, SwingConfig
  <2> QED  BY <2>1 DEF Seen
<1> HIDE DEF n
<1>2. \A m \in 0..Warmup : [s EXCEPT !.bars = m] \in PairState  BY DEF PairState
<1>3. t \in PairState  BY <1>1, <1>2
<1>4. t.spread = s.spread /\ t.qty = s.qty /\ t.at = s.at  BY DEF PairState
<1> QED  BY <1>3, <1>4 DEF n

LEMMA Spreaded ==
    ASSUME NEW s \in PairState, NEW spread \in Spreads
    PROVE  /\ [s EXCEPT !.spread = spread] \in PairState
           /\ [s EXCEPT !.spread = spread].spread = spread
           /\ \A e \in BOOLEAN : /\ [s EXCEPT !.spread = spread, !.exited = e] \in PairState
                                 /\ [s EXCEPT !.spread = spread, !.exited = e].spread = spread
<1>1. [s EXCEPT !.spread = spread] \in PairState  BY DEF PairState
<1>2. [s EXCEPT !.spread = spread].spread = spread  BY DEF PairState
<1>3. ASSUME NEW e \in BOOLEAN
      PROVE  [s EXCEPT !.spread = spread, !.exited = e] \in PairState
  BY DEF PairState
<1>4. ASSUME NEW e \in BOOLEAN
      PROVE  [s EXCEPT !.spread = spread, !.exited = e].spread = spread
  BY DEF PairState
<1> QED  BY <1>1, <1>2, <1>3, <1>4

LEMMA BlackSwanTurn ==
    ASSUME NEW old \in PairState, NEW pair, NEW leg \in 1..2,
           NEW b, b.day \in Nat, b.time \in Nat
    PROVE  MoveFits(pair, old.spread, BlackSwanBar(pair, leg, old, b))
<1> DEFINE in == Arrived(old, leg, b)
           counted == [in EXCEPT !.bars = Seen(in.bars)]
           s == IF Aligned(in) THEN counted ELSE in
           free == Aligned(s) /\ Scored(s, b)
           out == [s EXCEPT !.spread = "NONE"]
           opened == [s EXCEPT !.spread = SpreadEntry(b)]
<1>1. in \in PairState /\ in.spread = old.spread  BY ArrivedPair, ZenonT(30)
<1> HIDE DEF in
<1>2. counted \in PairState /\ counted.spread = old.spread  BY <1>1, CountedPair
<1> HIDE DEF counted
<1>3. s \in PairState /\ s.spread = old.spread  BY <1>1, <1>2
<1>4. BlackSwanBar(pair, leg, old, b) =
        CASE free /\ s.spread # "NONE" /\ SpreadExit(s, b) # "" ->
               Answer(out, CloseLegs(pair, s.spread, SpreadExit(s, b)))
          [] free /\ s.spread = "NONE" /\ SpreadEntry(b) # "NONE" ->
               Answer(opened, OpenLegs(pair, SpreadEntry(b), "entry"))
          [] OTHER -> Answer(s, <<>>)
  BY DEF BlackSwanBar, SwanOpenLegs, SwanCloseLegs, in, counted
<1> HIDE DEF s
<1>5. SpreadEntry(b) \in Spreads /\ "NONE" \in Spreads  BY DEF SpreadEntry, Spreads
<1>6. out \in PairState /\ out.spread = "NONE"  BY <1>3, <1>5, Spreaded
<1>7. opened \in PairState /\ opened.spread = SpreadEntry(b)  BY <1>3, <1>5, Spreaded
<1> HIDE DEF free, out, opened
<1> QED  BY <1>3, <1>4, <1>6, <1>7, Moved

(* On the first bar of a day the pairs start from nothing. *)
Began(old, b) == IF old.day = b.day THEN old.spread ELSE "NONE"

LEMMA PairReborn ==
    ASSUME NEW day \in Nat
    PROVE  PairReset(day) \in PairState /\ PairReset(day).spread = "NONE"
<1>1. NewPair \in PairState /\ NewPair.spread = "NONE"
  <2>1. 0 \in 0..Warmup  BY SwingAssumption DEF SwingConfig
  <2>2. [l \in 1..2 |-> <<0, 0>>] \in [1..2 -> Nat \X Nat]  OBVIOUS
  <2> QED  BY <2>1, <2>2 DEF NewPair, PairState, Spreads
<1> HIDE DEF NewPair
<1>2. [NewPair EXCEPT !.day = day] \in PairState  BY <1>1 DEF PairState
<1>3. [NewPair EXCEPT !.day = day].spread = NewPair.spread  BY <1>1 DEF PairState
<1> QED  BY <1>1, <1>2, <1>3 DEF PairReset

LEMMA PairsTurn ==
    ASSUME NEW old \in PairState, NEW pair, NEW leg \in 1..2,
           NEW b, b.day \in Nat, b.time \in Nat
    PROVE  MoveFits(pair, Began(old, b), PairsBar(pair, leg, old, b))
<1> DEFINE day == IF old.day = b.day THEN old ELSE PairReset(b.day)
           in == Arrived(day, leg, b)
           counted == [in EXCEPT !.bars = Seen(in.bars)]
           s == IF Aligned(in) THEN counted ELSE in
           due == Aligned(s) /\ s.spread # "NONE" /\ b.time >= CloseOut
           free == Aligned(s) /\ ~ due /\ Scored(s, b)
           e == s.exited \/ SpreadExit(s, b) = "stop"
           squared == [s EXCEPT !.spread = "NONE", !.exited = TRUE]
           out == [s EXCEPT !.spread = "NONE", !.exited = e]
           opened == [s EXCEPT !.spread = SpreadEntry(b)]
           from == Began(old, b)
<1>1. day \in PairState /\ day.spread = from  BY PairReborn DEF Began
<1> HIDE DEF day
<1>2. in \in PairState /\ in.spread = from  BY <1>1, ArrivedPair
<1> HIDE DEF in
<1>3. counted \in PairState /\ counted.spread = from  BY <1>2, CountedPair
<1> HIDE DEF counted
<1>4. s \in PairState /\ s.spread = from  BY <1>2, <1>3
<1>5. PairsBar(pair, leg, old, b) =
        CASE due -> Answer(squared, CloseLegs(pair, s.spread, "square_off"))
          [] free /\ s.spread # "NONE" /\ SpreadExit(s, b) # "" ->
               Answer(out, CloseLegs(pair, s.spread, SpreadExit(s, b)))
          [] free /\ s.spread = "NONE" /\ ~ s.exited /\ SpreadEntry(b) # "NONE" ->
               Answer(opened, OpenLegs(pair, SpreadEntry(b), "entry"))
          [] OTHER -> Answer(s, <<>>)
  BY DEF PairsBar, in, counted, day
<1>6. e \in BOOLEAN  BY <1>4 DEF PairState
<1> HIDE DEF s, e
<1>7. SpreadEntry(b) \in Spreads /\ "NONE" \in Spreads  BY DEF SpreadEntry, Spreads
<1>8. \A x \in BOOLEAN : /\ [s EXCEPT !.spread = "NONE", !.exited = x] \in PairState
                        /\ [s EXCEPT !.spread = "NONE", !.exited = x].spread = "NONE"
  BY <1>4, <1>7, Spreaded
<1>9. squared \in PairState /\ squared.spread = "NONE"  BY <1>8
<1>10. out \in PairState /\ out.spread = "NONE"  BY <1>6, <1>8
<1>11. opened \in PairState /\ opened.spread = SpreadEntry(b)  BY <1>4, <1>7, Spreaded
<1>12. due => s.spread # "NONE"  OBVIOUS
<1> HIDE DEF due, free, squared, out, opened, from
<1>13. MoveFits(pair, from, PairsBar(pair, leg, old, b))
  BY <1>4, <1>5, <1>9, <1>10, <1>11, <1>12, Moved
<1> QED  BY <1>13 DEF from

(* The long-only swan trades one leg, by a quantity it remembers. *)
SwanMoves(pair, old, turn) ==
    \/ /\ turn.state.spread = old.spread /\ turn.state.qty = old.qty
       /\ turn.intents = <<>>
    \/ /\ old.spread # "NONE" /\ turn.state.spread = "NONE"
       /\ \E r : turn.intents = <<Order(SwanLeg(pair, old.spread), "SELL", old.qty, r)>>
    \/ /\ old.spread = "NONE" /\ turn.state.spread # "NONE"
       /\ \E r : turn.intents =
                   <<Order(SwanLeg(pair, turn.state.spread), "BUY", turn.state.qty, r)>>

LEMMA SwanMoved ==
    ASSUME NEW pair, NEW old, NEW st
    PROVE  /\ st.spread = old.spread /\ st.qty = old.qty =>
                SwanMoves(pair, old, Answer(st, <<>>))
           /\ \A r : old.spread # "NONE" /\ st.spread = "NONE" =>
                SwanMoves(pair, old,
                    Answer(st, <<Order(SwanLeg(pair, old.spread), "SELL", old.qty, r)>>))
           /\ \A r : old.spread = "NONE" /\ st.spread # "NONE" =>
                SwanMoves(pair, old,
                    Answer(st, <<Order(SwanLeg(pair, st.spread), "BUY", st.qty, r)>>))
<1>1. \A q : Answer(st, q).state = st /\ Answer(st, q).intents = q  BY DEF Answer
<1>2. st.spread = old.spread /\ st.qty = old.qty => SwanMoves(pair, old, Answer(st, <<>>))
  BY <1>1, Zenon DEF SwanMoves
<1>3. ASSUME NEW r, old.spread # "NONE", st.spread = "NONE"
      PROVE  SwanMoves(pair, old,
                 Answer(st, <<Order(SwanLeg(pair, old.spread), "SELL", old.qty, r)>>))
  <2> DEFINE q == <<Order(SwanLeg(pair, old.spread), "SELL", old.qty, r)>>
             turn == Answer(st, q)
  <2>1. turn.state = st /\ turn.intents = q  BY <1>1
  <2> HIDE DEF turn
  <2>2. SwanMoves(pair, old, turn)  BY <1>3, <2>1, Zenon DEF SwanMoves
  <2> QED  BY <2>2 DEF turn
<1>4. ASSUME NEW r, old.spread = "NONE", st.spread # "NONE"
      PROVE  SwanMoves(pair, old,
                 Answer(st, <<Order(SwanLeg(pair, st.spread), "BUY", st.qty, r)>>))
  <2> DEFINE q == <<Order(SwanLeg(pair, st.spread), "BUY", st.qty, r)>>
             turn == Answer(st, q)
  <2>1. turn.state = st /\ turn.intents = q  BY <1>1
  <2> HIDE DEF turn
  <2>2. SwanMoves(pair, old, turn)  BY <1>4, <2>1, Zenon DEF SwanMoves
  <2> QED  BY <2>2 DEF turn
<1> QED  BY <1>2, <1>3, <1>4

LEMMA LongSwanTurn ==
    ASSUME NEW old \in PairState, SwanFits(old), NEW pair, NEW leg \in 1..2,
           NEW b, b.day \in Nat, b.time \in Nat,
           NEW closes, \A l \in 1..2 : closes[pair[l]] \in Nat,
           LegsSeen(Arrived(old, leg, b), pair, closes)
    PROVE  LET turn == LongSwanBar(pair, leg, old, b, closes)
           IN  /\ turn.state \in PairState /\ SwanFits(turn.state)
               /\ LegsSeen(turn.state, pair, closes)
               /\ SwanMoves(pair, old, turn)
<1> DEFINE in == Arrived(old, leg, b)
           counted == [in EXCEPT !.bars = Seen(in.bars)]
           s == IF Aligned(in) THEN counted ELSE in
           free == Aligned(s) /\ Scored(s, b)
           x == SpreadEntry(b)
           n == Lot(closes[SwanLeg(pair, x)])
           out == [s EXCEPT !.spread = "NONE", !.since = 0, !.qty = 0]
           opened == [s EXCEPT !.spread = x, !.since = b.day, !.qty = n]
           turn == LongSwanBar(pair, leg, old, b, closes)
<1>1. /\ in \in PairState /\ in.spread = old.spread /\ in.qty = old.qty
      /\ LegsSeen(in, pair, closes)
  BY ArrivedPair, ZenonT(30)
<1> HIDE DEF in
<1>2. /\ counted \in PairState /\ counted.spread = old.spread /\ counted.qty = old.qty
      /\ counted.at = in.at
  BY <1>1, CountedPair
<1> HIDE DEF counted
<1>3. /\ s \in PairState /\ s.spread = old.spread /\ s.qty = old.qty /\ s.at = in.at
  BY <1>1, <1>2
<1>4. turn =
        CASE free /\ s.spread # "NONE" /\ SwanExit(s, b) # "" ->
               Answer(out, <<Order(SwanLeg(pair, s.spread), "SELL", s.qty, SwanExit(s, b))>>)
          [] free /\ s.spread = "NONE" /\ x # "NONE" ->
               Answer(opened, <<Order(SwanLeg(pair, x), "BUY", n, "entry")>>)
          [] OTHER -> Answer(s, <<>>)
  BY DEF LongSwanBar, SetSwan, ClearSwan, in, counted
<1> HIDE DEF s, n
<1>5. x \in Spreads /\ "NONE" \in Spreads  BY DEF SpreadEntry, Spreads
<1>6. LegsSeen(s, pair, closes)  BY <1>1, <1>3 DEF LegsSeen
<1>7. free => n \in Nat \ {0}
  <2> SUFFICES ASSUME free PROVE n \in Nat \ {0}  OBVIOUS
  <2>1. s.at[1] # <<0, 0>> /\ s.at[2] # <<0, 0>>  BY DEF Aligned
  <2>2. closes[pair[1]] \in Nat \ {0} /\ closes[pair[2]] \in Nat \ {0}
    BY <1>6, <2>1 DEF LegsSeen
  <2>3. closes[SwanLeg(pair, x)] \in Nat \ {0}  BY <2>2 DEF SwanLeg
  <2> QED  BY <2>3, LotPositive DEF n
<1> HIDE DEF x
<1>8. out \in PairState /\ out.spread = "NONE" /\ out.at = in.at
  <2> DEFINE d == 0
  <2>1. d \in Nat  OBVIOUS
  <2> HIDE DEF d
  <2> DEFINE t == [s EXCEPT !.spread = "NONE", !.since = d, !.qty = d]
  <2>2. t \in PairState  BY <1>3, <1>5, <2>1 DEF PairState
  <2>3. t.spread = "NONE" /\ t.at = s.at  BY <1>3 DEF PairState
  <2> QED  BY <1>3, <2>2, <2>3 DEF d
<1>9. free => /\ opened \in PairState /\ opened.spread = x /\ opened.qty = n /\ n > 0
              /\ opened.at = in.at
  <2> SUFFICES ASSUME free
               PROVE  /\ opened \in PairState /\ opened.spread = x /\ opened.qty = n
                      /\ n > 0 /\ opened.at = in.at
    OBVIOUS
  <2> DEFINE d == b.day
  <2>1. n \in Nat /\ n > 0 /\ d \in Nat  BY <1>7
  <2> HIDE DEF d
  <2> DEFINE t == [s EXCEPT !.spread = x, !.since = d, !.qty = n]
  <2>2. t \in PairState  BY <1>3, <1>5, <2>1 DEF PairState
  <2>3. t.spread = x /\ t.qty = n /\ t.at = s.at  BY <1>3 DEF PairState
  <2> QED  BY <1>3, <2>1, <2>2, <2>3 DEF d
<1> HIDE DEF free, out, opened, turn
<1>10. SwanFits(s)  BY <1>3 DEF SwanFits
<1>11. SwanFits(out)  BY <1>8 DEF SwanFits
<1>12. free => SwanFits(opened)  BY <1>9 DEF SwanFits
<1>13. \A st, q : Answer(st, q).state = st  BY DEF Answer
<1>14. turn.state = s \/ turn.state = out \/ (free /\ turn.state = opened)
  BY <1>4, <1>13
<1>15. turn.state \in PairState /\ SwanFits(turn.state) /\ turn.state.at = in.at
  BY <1>3, <1>8, <1>9, <1>10, <1>11, <1>12, <1>14
<1>16. LegsSeen(turn.state, pair, closes)  BY <1>1, <1>15 DEF LegsSeen
<1>17. SwanMoves(pair, old, turn)
  <2>1. CASE free /\ s.spread # "NONE" /\ SwanExit(s, b) # ""
    BY <1>3, <1>4, <1>8, <2>1, SwanMoved
  <2>2. CASE free /\ s.spread = "NONE" /\ x # "NONE"
    <3>1. turn = Answer(opened, <<Order(SwanLeg(pair, opened.spread), "BUY", opened.qty, "entry")>>)
      BY <1>4, <1>9, <2>2
    <3> QED  BY <1>3, <1>9, <2>2, <3>1, SwanMoved
  <2>3. CASE /\ ~ (free /\ s.spread # "NONE" /\ SwanExit(s, b) # "")
             /\ ~ (free /\ s.spread = "NONE" /\ x # "NONE")
    <3>1. turn = Answer(s, <<>>)  BY <1>4, <2>3
    <3> QED  BY <1>3, <3>1, SwanMoved
  <2> QED  BY <2>1, <2>2, <2>3
<1> QED  BY <1>15, <1>16, <1>17 DEF turn
-----------------------------------------------------------------------------
(* The bar the engine hands to its strategy. *)

BarOf(slot, i, close, fact) ==
    [symbol |-> Universe[kind][i], day |-> slot[1], time |-> slot[2], close |-> close,
     gap |-> fact.gap, signal |-> fact.signal, hit |-> fact.hit,
     trend |-> fact.trend, z |-> fact.z, flat |-> fact.flat, touch |-> fact.touch]

LEMMA TheBar ==
    ASSUME kind \in Kinds, NEW slot \in Calendar[kind], NEW i \in 1..Len(Universe[kind]),
           NEW close \in Prices, NEW fact \in Facts[kind], NextBar(slot, i, close, fact),
           NEW b, b = BarOf(slot, i, close, fact)
    PROVE  /\ b.symbol = Universe[kind][i] /\ b.symbol \in Syms /\ b.symbol \in Symbols
           /\ b.day \in Nat /\ b.time \in Nat /\ b.close \in Nat \ {0} /\ b.signal \in BOOLEAN
           /\ b.close = close /\ clock' = <<b.day, b.time, i>>
           /\ bar'.symbol = b.symbol /\ bar'.day = b.day /\ bar'.time = b.time
           /\ bar'.close = close
           /\ latest' = [latest EXCEPT ![b.symbol] = close]
           /\ pending = <<>> /\ bar = NoBar /\ Len(fills) < MaxFills
           /\ diverged' = diverged \cup Forgotten(i, b)
<1>1. slot[1] \in Nat /\ slot[2] \in Nat /\ close \in Nat \ {0} /\ fact.signal \in BOOLEAN
  BY FeedAssumption
<1>2. /\ b.symbol = Universe[kind][i] /\ b.day = slot[1] /\ b.time = slot[2]
      /\ b.close = close /\ b.signal = fact.signal
  BY DEF BarOf
<1>3. b.symbol \in Syms /\ b.symbol \in Symbols  BY <1>2 DEF Syms, Symbols
<1>4. /\ clock' = <<slot[1], slot[2], i>>
      /\ latest' = [latest EXCEPT ![Universe[kind][i]] = close]
      /\ bar' = [symbol |-> Universe[kind][i], day |-> slot[1], time |-> slot[2],
                 close |-> close, touch |-> fact.touch]
      /\ pending = <<>> /\ bar = NoBar /\ Len(fills) < MaxFills
      /\ diverged' = diverged \cup Forgotten(i, BarOf(slot, i, close, fact))
  BY DEF NextBar, BarOf
<1>5. /\ bar'.symbol = Universe[kind][i] /\ bar'.day = slot[1] /\ bar'.time = slot[2]
      /\ bar'.close = close
  BY <1>4
<1> QED  BY <1>1, <1>2, <1>3, <1>4, <1>5

LEMMA TheTurn ==
    ASSUME kind \in Kinds, NEW slot, NEW i, NEW close, NEW fact,
           NextBar(slot, i, close, fact),
           NEW b, b = BarOf(slot, i, close, fact)
    PROVE  /\ kind \in Intraday =>
                /\ mind' = [mind EXCEPT ![b.symbol] = IntradayTurn(mind[b.symbol], b).state]
                /\ pending' = IntradayTurn(mind[b.symbol], b).intents
           /\ kind \in Swing =>
                /\ mind' = [mind EXCEPT ![b.symbol] = SwingTurn(mind[b.symbol], b).state]
                /\ pending' = SwingTurn(mind[b.symbol], b).intents
           /\ kind \in Ratio =>
                /\ mind' = RatioTurn(i, b, latest').state
                /\ pending' = RatioTurn(i, b, latest').intents
           /\ kind = "ANY" =>
                mind' = mind /\ (pending' = <<>> \/ \E n \in AnyIntents : pending' = <<n>>)
           /\ kind' = kind /\ risked' = risked /\ pos' = pos /\ cash' = cash
           /\ risk' = risk /\ fills' = fills
<1>1. b.symbol = Universe[kind][i]  BY DEF BarOf
<1>2. latest' = [latest EXCEPT ![Universe[kind][i]] = close]  BY DEF NextBar
<1>3. kind' = kind /\ risked' = risked /\ pos' = pos /\ cash' = cash
      /\ risk' = risk /\ fills' = fills
  BY DEF NextBar
<1>4. kind \in Intraday =>
        LET turn == IntradayTurn(mind[Universe[kind][i]], BarOf(slot, i, close, fact))
        IN  /\ mind' = [mind EXCEPT ![Universe[kind][i]] = turn.state]
            /\ pending' = turn.intents
  BY DEF NextBar, BarOf, Intraday, Swing, Ratio
<1>5. kind \in Swing =>
        LET turn == SwingTurn(mind[Universe[kind][i]], BarOf(slot, i, close, fact))
        IN  /\ mind' = [mind EXCEPT ![Universe[kind][i]] = turn.state]
            /\ pending' = turn.intents
  BY DEF NextBar, BarOf, Intraday, Swing, Ratio
<1>6. kind \in Ratio =>
        LET turn == RatioTurn(i, BarOf(slot, i, close, fact),
                              [latest EXCEPT ![Universe[kind][i]] = close])
        IN  mind' = turn.state /\ pending' = turn.intents
  BY DEF NextBar, BarOf, Intraday, Swing, Ratio
<1>7. kind = "ANY" =>
        mind' = mind /\ (pending' = <<>> \/ \E n \in AnyIntents : pending' = <<n>>)
  BY DEF NextBar, Intraday, Swing, Ratio
<1> QED  BY <1>1, <1>2, <1>3, <1>4, <1>5, <1>6, <1>7

(* Queues of at most two orders. *)
LEMMA SignedInt ==
    ASSUME NEW n, Placed(n), NEW s PROVE Signed(n, s) \in Int
BY DEF Placed, Signed

LEMMA Queues ==
    ASSUME NEW s
    PROVE  /\ Queue(<<>>) /\ Due(<<>>, s) = 0
           /\ \A m : Placed(m) => Queue(<<m>>) /\ Due(<<m>>, s) = Signed(m, s)
           /\ \A m, n : Placed(m) /\ Placed(n) =>
                Queue(<<m, n>>) /\ Due(<<m, n>>, s) = Signed(m, s) + Signed(n, s)
<1>1. Queue(<<>>)  BY DEF Queue
<1>2. Due(<<>>, s) = 0  BY DEF Due
<1>3. ASSUME NEW m, Placed(m) PROVE Queue(<<m>>) /\ Due(<<m>>, s) = Signed(m, s)
  <2>1. Len(<<m>>) = 1 /\ <<m>>[1] = m  OBVIOUS
  <2>2. Signed(m, s) \in Int  BY <1>3, SignedInt
  <2>3. Due(<<m>>, s) = Signed(m, s)  BY <2>1, <2>2 DEF Due
  <2> QED  BY <1>3, <2>3 DEF Queue
<1>4. ASSUME NEW m, NEW n, Placed(m), Placed(n)
      PROVE  Queue(<<m, n>>) /\ Due(<<m, n>>, s) = Signed(m, s) + Signed(n, s)
  <2>1. Len(<<m, n>>) = 2 /\ <<m, n>>[1] = m /\ <<m, n>>[2] = n  OBVIOUS
  <2>2. Due(<<m, n>>, s) = Signed(m, s) + Signed(n, s)  BY <2>1 DEF Due
  <2> QED  BY <1>4, <2>2 DEF Queue
<1> QED  BY <1>1, <1>2, <1>3, <1>4

LEMMA QueueParts ==
    ASSUME NEW q, Queue(q), q # <<>>, NEW s
    PROVE  /\ Placed(Head(q)) /\ Queue(Tail(q))
           /\ Due(q, s) = Signed(Head(q), s) + Due(Tail(q), s)
           /\ Due(Tail(q), s) \in Int
           /\ Len(q) \in Nat /\ Len(Tail(q)) = Len(q) - 1
<1>1. CASE \E m : q = <<m>> /\ Placed(m)
  <2>1. PICK m : q = <<m>> /\ Placed(m)  BY <1>1
  <2>2. Head(q) = m /\ Tail(q) = <<>> /\ Len(q) = 1 /\ Len(Tail(q)) = 0  BY <2>1
  <2>3. Signed(m, s) \in Int  BY <2>1, SignedInt
  <2> QED  BY <2>1, <2>2, <2>3, Queues
<1>2. CASE \E m, n : q = <<m, n>> /\ Placed(m) /\ Placed(n)
  <2>1. PICK m, n : q = <<m, n>> /\ Placed(m) /\ Placed(n)  BY <1>2
  <2>2. Head(q) = m /\ Tail(q) = <<n>> /\ Len(q) = 2 /\ Len(Tail(q)) = 1  BY <2>1
  <2>3. Signed(n, s) \in Int  BY <2>1, SignedInt
  <2> QED  BY <2>1, <2>2, <2>3, Queues
<1> QED  BY <1>1, <1>2 DEF Queue

(* Orders of the strategies are placed ones. *)
LEMMA IntentPlaced ==
    ASSUME NEW b, b.symbol \in Syms, NEW side, NEW r
    PROVE  Placed(ExitIntent(b, side, r)) /\ Placed(EntryIntent(b, side, r))
<1>1. Quantity \in Nat \ {0}  BY ConfigAssumption DEF OrbConfig
<1> QED  BY <1>1 DEF Placed, ExitIntent, EntryIntent, Intent

LEMMA OrderPlaced ==
    ASSUME NEW symbol \in Syms, NEW side \in {"BUY", "SELL"}, NEW n \in Nat \ {0}, NEW r
    PROVE  /\ Placed(Order(symbol, side, n, r))
           /\ \A s : Signed(Order(symbol, side, n, r), s) =
                IF symbol # s THEN 0 ELSE IF side = "BUY" THEN n ELSE 0 - n
BY DEF Placed, Order, Signed

(* Shares a side of an intraday strategy stands for. *)
Worth(side) ==
    CASE side = "LONG" -> Quantity [] side = "SHORT" -> 0 - Quantity [] OTHER -> 0

LEMMA IntradayQueue ==
    ASSUME NEW old \in SymbolState, NEW b, b.symbol \in Syms, NEW turn, TurnFits(old, b, turn)
    PROVE  /\ Queue(turn.intents)
           /\ \A s : Due(turn.intents, s) =
                IF s # b.symbol THEN 0
                ELSE Worth(turn.state.side) - Worth(Was(old, b))
<1> DEFINE q == turn.intents
           was == Was(old, b)
           now == turn.state.side
<1>1. was \in Sides /\ now \in Sides
  BY DEF Was, TurnFits, SymbolState, Sides
<1>2. Quantity \in Nat \ {0}  BY ConfigAssumption DEF OrbConfig
<1>3. Worth(was) \in Int /\ Worth(now) \in Int  BY <1>2 DEF Worth
<1>4. CASE now = was /\ q = <<>>
  BY <1>3, <1>4, Queues
<1>5. CASE /\ was # "FLAT" /\ now = "FLAT"
           /\ \E r : q = <<ExitIntent(b, was, r)>>
  <2>1. PICK r : q = <<ExitIntent(b, was, r)>>  BY <1>5
  <2> DEFINE m == ExitIntent(b, was, r)
  <2>2. Placed(m)  BY IntentPlaced
  <2>3. ASSUME NEW s
        PROVE  Signed(m, s) = IF s # b.symbol THEN 0 ELSE Worth(now) - Worth(was)
    BY <1>1, <1>2, <1>5 DEF Signed, ExitIntent, Intent, Worth, Sides
  <2> HIDE DEF m, q, was, now
  <2> QED  BY <2>1, <2>2, <2>3, Queues DEF m, q, was, now
<1>6. CASE /\ was = "FLAT" /\ now # "FLAT"
           /\ \E r : q = <<EntryIntent(b, now, r)>>
  <2>1. PICK r : q = <<EntryIntent(b, now, r)>>  BY <1>6
  <2> DEFINE m == EntryIntent(b, now, r)
  <2>2. Placed(m)  BY IntentPlaced
  <2>3. ASSUME NEW s
        PROVE  Signed(m, s) = IF s # b.symbol THEN 0 ELSE Worth(now) - Worth(was)
    BY <1>1, <1>2, <1>6 DEF Signed, EntryIntent, Intent, Worth, Sides
  <2> HIDE DEF m, q, was, now
  <2> QED  BY <2>1, <2>2, <2>3, Queues DEF m, q, was, now
<1> QED  BY <1>4, <1>5, <1>6 DEF TurnFits, Trades

LEMMA SwingQueue ==
    ASSUME NEW old \in SwingState, NEW b, b.symbol \in Syms, NEW turn, DealFits(old, b, turn)
    PROVE  /\ Queue(turn.intents)
           /\ \A s : Due(turn.intents, s) =
                IF s # b.symbol THEN 0 ELSE turn.state.qty - old.qty
<1> DEFINE q == turn.intents
           was == old.qty
           now == turn.state.qty
<1>1. was \in Nat /\ now \in Nat  BY DEF DealFits, SwingState
<1>2. CASE now = was /\ q = <<>>
  BY <1>1, <1>2, Queues
<1>3. CASE was > 0 /\ now = 0 /\ \E r : q = <<Order(b.symbol, "SELL", was, r)>>
  <2>1. PICK r : q = <<Order(b.symbol, "SELL", was, r)>>  BY <1>3
  <2> DEFINE m == Order(b.symbol, "SELL", was, r)
  <2>2. was \in Nat \ {0}  BY <1>1, <1>3
  <2> HIDE DEF was, now, q
  <2>3. Placed(m) /\ \A s : Signed(m, s) = IF b.symbol # s THEN 0 ELSE 0 - was
    BY <2>2, OrderPlaced
  <2> HIDE DEF m
  <2>4. Queue(q) /\ \A s : Due(q, s) = Signed(m, s)  BY <2>1, <2>3, Queues DEF m
  <2>5. ASSUME NEW s PROVE Due(q, s) = IF s # b.symbol THEN 0 ELSE now - was
    BY <1>1, <1>3, <2>3, <2>4
  <2> QED  BY <2>4, <2>5 DEF q, was, now
<1>4. CASE was = 0 /\ now > 0 /\ \E r : q = <<Order(b.symbol, "BUY", now, r)>>
  <2>1. PICK r : q = <<Order(b.symbol, "BUY", now, r)>>  BY <1>4
  <2> DEFINE m == Order(b.symbol, "BUY", now, r)
  <2>2. now \in Nat \ {0}  BY <1>1, <1>4
  <2> HIDE DEF was, now, q
  <2>3. Placed(m) /\ \A s : Signed(m, s) = IF b.symbol # s THEN 0 ELSE now
    BY <2>2, OrderPlaced
  <2> HIDE DEF m
  <2>4. Queue(q) /\ \A s : Due(q, s) = Signed(m, s)  BY <2>1, <2>3, Queues DEF m
  <2>5. ASSUME NEW s PROVE Due(q, s) = IF s # b.symbol THEN 0 ELSE now - was
    BY <1>1, <1>4, <2>3, <2>4
  <2> QED  BY <2>4, <2>5 DEF q, was, now
<1> QED  BY <1>2, <1>3, <1>4 DEF DealFits, Deals

(* Shares of s a spread stands for, and those of the leg the swan holds. *)
SpreadWorth(pair, spread, s) ==
    IF spread = "NONE" THEN 0
    ELSE IF (spread = "LONG") = (s = pair[1]) THEN LegQuantity ELSE 0 - LegQuantity
SwanWorth(pair, m, s) ==
    IF m.spread # "NONE" /\ SwanLeg(pair, m.spread) = s THEN m.qty ELSE 0

LEMMA LegOrders ==
    ASSUME NEW pair, pair[1] \in Syms, pair[2] \in Syms,
           NEW x \in {"BUY", "SELL"}, NEW y \in {"BUY", "SELL"}, x # y, NEW r
    PROVE  /\ Queue(Legs(pair, x, y, r))
           /\ pair[1] # pair[2] =>
                /\ Due(Legs(pair, x, y, r), pair[1]) =
                        IF x = "BUY" THEN LegQuantity ELSE 0 - LegQuantity
                /\ Due(Legs(pair, x, y, r), pair[2]) =
                        IF x = "BUY" THEN 0 - LegQuantity ELSE LegQuantity
<1> DEFINE m == Order(pair[1], x, LegQuantity, r)
           n == Order(pair[2], y, LegQuantity, r)
<1>1. LegQuantity \in Nat \ {0}  BY SwingAssumption DEF PairConfig
<1>2. /\ Placed(m)
      /\ \A s : Signed(m, s) =
            IF pair[1] # s THEN 0 ELSE IF x = "BUY" THEN LegQuantity ELSE 0 - LegQuantity
  BY <1>1, OrderPlaced
<1>3. /\ Placed(n)
      /\ \A s : Signed(n, s) =
            IF pair[2] # s THEN 0 ELSE IF y = "BUY" THEN LegQuantity ELSE 0 - LegQuantity
  BY <1>1, OrderPlaced
<1>4. Legs(pair, x, y, r) = <<m, n>>  BY DEF Legs
<1> HIDE DEF m, n
<1>5. Queue(<<m, n>>) /\ \A s : Due(<<m, n>>, s) = Signed(m, s) + Signed(n, s)
  BY <1>2, <1>3, Queues
<1> QED  BY <1>1, <1>2, <1>3, <1>4, <1>5

LEMMA PairQueue ==
    ASSUME NEW pair, pair[1] \in Syms, pair[2] \in Syms, NEW from \in Spreads, NEW turn,
           MoveFits(pair, from, turn)
    PROVE  /\ Queue(turn.intents)
           /\ pair[1] # pair[2] =>
                \A s \in {pair[1], pair[2]} :
                    Due(turn.intents, s) =
                        SpreadWorth(pair, turn.state.spread, s) - SpreadWorth(pair, from, s)
<1> DEFINE q == turn.intents
           now == turn.state.spread
<1>1. now \in Spreads  BY DEF MoveFits, PairState
<1>2. LegQuantity \in Nat \ {0}  BY SwingAssumption DEF PairConfig
<1>3. \A x, s : SpreadWorth(pair, x, s) \in Int  BY <1>2 DEF SpreadWorth
<1> HIDE DEF q, now
<1>4. CASE now = from /\ q = <<>>
  <2>1. Queue(q) /\ \A s : Due(q, s) = 0  BY <1>4, Queues
  <2> QED  BY <1>3, <1>4, <2>1 DEF q, now
<1>5. CASE from # "NONE" /\ now = "NONE" /\ \E r : q = CloseLegs(pair, from, r)
  <2>1. PICK r : q = CloseLegs(pair, from, r)  BY <1>5
  <2>2. CASE from = "LONG"
    <3>1. q = Legs(pair, "SELL", "BUY", r)  BY <2>1, <2>2 DEF CloseLegs
    <3> QED  BY <1>2, <1>5, <2>2, <3>1, LegOrders DEF SpreadWorth, q, now
  <2>3. CASE from = "SHORT"
    <3>1. q = Legs(pair, "BUY", "SELL", r)  BY <2>1, <2>3 DEF CloseLegs
    <3> QED  BY <1>2, <1>5, <2>3, <3>1, LegOrders DEF SpreadWorth, q, now
  <2> QED  BY <1>5, <2>2, <2>3 DEF Spreads
<1>6. CASE from = "NONE" /\ now # "NONE" /\ \E r : q = OpenLegs(pair, now, r)
  <2>1. PICK r : q = OpenLegs(pair, now, r)  BY <1>6
  <2>2. CASE now = "LONG"
    <3>1. q = Legs(pair, "BUY", "SELL", r)  BY <2>1, <2>2 DEF OpenLegs
    <3> QED  BY <1>2, <1>6, <2>2, <3>1, LegOrders DEF SpreadWorth, q, now
  <2>3. CASE now = "SHORT"
    <3>1. q = Legs(pair, "SELL", "BUY", r)  BY <2>1, <2>3 DEF OpenLegs
    <3> QED  BY <1>2, <1>6, <2>3, <3>1, LegOrders DEF SpreadWorth, q, now
  <2> QED  BY <1>1, <1>6, <2>2, <2>3 DEF Spreads
<1> QED  BY <1>4, <1>5, <1>6 DEF MoveFits, SpreadMoves, q, now

LEMMA SwanQueue ==
    ASSUME NEW pair, pair[1] \in Syms, pair[2] \in Syms, NEW old \in PairState, SwanFits(old),
           NEW turn, turn.state \in PairState, SwanFits(turn.state), SwanMoves(pair, old, turn)
    PROVE  /\ Queue(turn.intents)
           /\ \A s : Due(turn.intents, s) =
                        SwanWorth(pair, turn.state, s) - SwanWorth(pair, old, s)
<1> DEFINE q == turn.intents
           new == turn.state
           out == SwanLeg(pair, old.spread)
           in == SwanLeg(pair, new.spread)
<1>1. old.qty \in Nat /\ new.qty \in Nat  BY DEF PairState
<1>2. out \in Syms /\ in \in Syms  BY DEF SwanLeg
<1>3. /\ old.spread # "NONE" => old.qty > 0
      /\ new.spread # "NONE" => new.qty > 0
  BY DEF SwanFits
<1>4. \/ new.spread = old.spread /\ new.qty = old.qty /\ q = <<>>
      \/ /\ old.spread # "NONE" /\ new.spread = "NONE"
         /\ \E r : q = <<Order(out, "SELL", old.qty, r)>>
      \/ /\ old.spread = "NONE" /\ new.spread # "NONE"
         /\ \E r : q = <<Order(in, "BUY", new.qty, r)>>
  BY DEF SwanMoves
<1>5. \A s : /\ SwanWorth(pair, old, s) =
                    IF old.spread # "NONE" /\ out = s THEN old.qty ELSE 0
             /\ SwanWorth(pair, new, s) =
                    IF new.spread # "NONE" /\ in = s THEN new.qty ELSE 0
  BY DEF SwanWorth
<1>6. new.spread = old.spread => in = out  OBVIOUS
<1> HIDE DEF q, new, out, in
<1>7. CASE new.spread = old.spread /\ new.qty = old.qty /\ q = <<>>
  <2>1. Queue(q) /\ \A s : Due(q, s) = 0  BY <1>7, Queues
  <2>2. ASSUME NEW s PROVE SwanWorth(pair, new, s) - SwanWorth(pair, old, s) = 0
    BY <1>1, <1>5, <1>6, <1>7
  <2> QED  BY <2>1, <2>2 DEF q, new
<1>8. CASE /\ old.spread # "NONE" /\ new.spread = "NONE"
           /\ \E r : q = <<Order(out, "SELL", old.qty, r)>>
  <2>1. PICK r : q = <<Order(out, "SELL", old.qty, r)>>  BY <1>8
  <2> DEFINE m == Order(out, "SELL", old.qty, r)
             n == old.qty
  <2>2. n \in Nat \ {0}  BY <1>1, <1>3, <1>8
  <2> HIDE DEF n
  <2>3. Placed(m) /\ \A s : Signed(m, s) = IF out # s THEN 0 ELSE 0 - n
    BY <1>2, <2>2, OrderPlaced DEF n
  <2> HIDE DEF m
  <2>4. Queue(q) /\ \A s : Due(q, s) = Signed(m, s)  BY <2>1, <2>3, Queues DEF m
  <2>5. ASSUME NEW s PROVE Due(q, s) = SwanWorth(pair, new, s) - SwanWorth(pair, old, s)
    BY <1>1, <1>5, <1>8, <2>3, <2>4 DEF n
  <2> QED  BY <2>4, <2>5 DEF q, new
<1>9. CASE /\ old.spread = "NONE" /\ new.spread # "NONE"
           /\ \E r : q = <<Order(in, "BUY", new.qty, r)>>
  <2>1. PICK r : q = <<Order(in, "BUY", new.qty, r)>>  BY <1>9
  <2> DEFINE m == Order(in, "BUY", new.qty, r)
             n == new.qty
  <2>2. n \in Nat \ {0}  BY <1>1, <1>3, <1>9
  <2> HIDE DEF n
  <2>3. Placed(m) /\ \A s : Signed(m, s) = IF in # s THEN 0 ELSE n
    BY <1>2, <2>2, OrderPlaced DEF n
  <2> HIDE DEF m
  <2>4. Queue(q) /\ \A s : Due(q, s) = Signed(m, s)  BY <2>1, <2>3, Queues DEF m
  <2>5. ASSUME NEW s PROVE Due(q, s) = SwanWorth(pair, new, s) - SwanWorth(pair, old, s)
    BY <1>1, <1>5, <1>9, <2>3, <2>4 DEF n
  <2> QED  BY <2>4, <2>5 DEF q, new
<1> QED  BY <1>4, <1>7, <1>8, <1>9
-----------------------------------------------------------------------------
(* A bar changes what a strategy takes for its position by the orders it   *)
(* leaves pending, but for positions it forgets overnight.                 *)

Change(s) == Due(pending', s) = Believed(s)' - Believed(s)

LEMMA IntradayStep ==
    ASSUME Fits, kind \in Intraday,
           NEW slot \in Calendar[kind], NEW i \in 1..Len(Universe[kind]),
           NEW close \in Prices, NEW fact \in Facts[kind], NextBar(slot, i, close, fact)
    PROVE  /\ MindFits' /\ Queue(pending')
           /\ \A s \in Syms \ diverged' : Change(s)
           /\ FlatByThen'
<1> DEFINE b == BarOf(slot, i, close, fact)
           t == b.symbol
           turn == IntradayTurn(mind[t], b)
<1>1. kind \in Kinds  BY DEF Fits, EngineFits
<1>2. /\ t = Universe[kind][i] /\ t \in Syms /\ t \in Symbols
      /\ b.day \in Nat /\ b.time \in Nat
      /\ bar'.symbol = t /\ bar'.time = b.time
      /\ diverged' = diverged \cup Forgotten(i, b)
  BY <1>1, TheBar
<1>3. mind' = [mind EXCEPT ![t] = turn.state] /\ pending' = turn.intents /\ kind' = kind
  BY <1>1, TheTurn
<1>4. mind \in [Symbols -> SymbolState]
      /\ (kind = "FIRST_HOUR" => \A s \in Symbols : WindowFits(mind[s]))
  BY DEF Fits, MindFits
<1>5. mind[t] \in SymbolState  BY <1>2, <1>4
<1> HIDE DEF b
<1>6. /\ TurnFits(mind[t], b, turn)
      /\ kind = "FIRST_HOUR" => WindowFits(turn.state)
      /\ kind \in EarlyOnly /\ b.time >= SquareOff => turn.state.side = "FLAT"
  <2>1. CASE kind = "ORB"
    BY <1>2, <1>5, <2>1, OrbTurn DEF IntradayTurn, EarlyOnly
  <2>2. CASE kind = "GAP_FADE"
    BY <1>2, <1>5, <2>2, FadeTurn DEF IntradayTurn
  <2>3. CASE kind = "GAP_CONTINUATION"
    BY <1>2, <1>5, <2>3, ContinuationTurn DEF IntradayTurn
  <2>4. CASE kind = "VWAP"
    BY <1>2, <1>5, <2>4, VwapTurn DEF IntradayTurn
  <2>5. CASE kind = "FIRST_HOUR"
    <3>1. WindowFits(mind[t])  BY <1>2, <1>4, <2>5
    <3> QED  BY <1>2, <1>5, <2>5, <3>1, MomentumTurn DEF IntradayTurn
  <2> QED  BY <2>1, <2>2, <2>3, <2>4, <2>5 DEF Intraday
<1> HIDE DEF turn, t
<1>7. Queue(turn.intents)
      /\ \A s : Due(turn.intents, s) =
            IF s # t THEN 0 ELSE Worth(turn.state.side) - Worth(Was(mind[t], b))
  BY <1>2, <1>5, <1>6, IntradayQueue DEF t
<1>8. turn.state \in SymbolState  BY <1>6 DEF TurnFits
<1>9. /\ mind' \in [Symbols -> SymbolState]
      /\ mind'[t] = turn.state
      /\ \A s \in Symbols : s # t => mind'[s] = mind[s]
  BY <1>2, <1>3, <1>4, <1>8
<1>10. MindFits'
  <2>1. ASSUME kind = "FIRST_HOUR", NEW s \in Symbols PROVE WindowFits(mind'[s])
    <3>1. CASE s = t  BY <1>6, <1>9, <2>1, <3>1
    <3>2. CASE s # t  BY <1>4, <1>9, <2>1, <3>2
    <3> QED  BY <3>1, <3>2
  <2>2. kind \notin Swing /\ kind \notin Ratio \cup {"ANY"} /\ kind # "LONG_SWAN"
    BY DEF Intraday, Swing, Ratio
  <2>3. kind = "FIRST_HOUR" => \A s \in Symbols : WindowFits(mind[s])'
    BY <2>1 DEF WindowFits
  <2> QED  BY <1>3, <1>9, <2>2, <2>3 DEF MindFits
<1>11. FlatByThen'
  BY <1>2, <1>3, <1>6, <1>9 DEF FlatByThen, EarlyOnly
<1>12. ASSUME NEW s \in Syms \ diverged' PROVE Change(s)
  <2>1. s \in Symbols  BY <1>1 DEF Syms, Symbols
  <2>2. Believed(s) = Worth(mind[s].side) /\ Believed(s)' = Worth(mind'[s].side)
    <3>1. Believed(s) = Worth(mind[s].side)  BY DEF Believed, Worth, Intraday, Swing
    <3>2. Believed(s)' = Worth(mind'[s].side)
      BY <1>3 DEF Believed, Worth, Intraday, Swing
    <3> QED  BY <3>1, <3>2
  <2>3. Worth(mind[s].side) \in Int
    <3>1. Quantity \in Nat \ {0}  BY ConfigAssumption DEF OrbConfig
    <3> QED  BY <3>1 DEF Worth
  <2>4. CASE s # t
    <3>1. mind'[s] = mind[s]  BY <1>9, <2>1, <2>4
    <3>2. Due(turn.intents, s) = 0  BY <1>7, <2>4
    <3> QED  BY <1>3, <2>2, <2>3, <3>1, <3>2 DEF Change
  <2>5. CASE s = t
    <3>1. s \notin Forgotten(i, b)  BY <1>2
    <3>2. mind[t].day = b.day \/ Believed(t) = 0
      BY <2>5, <3>1 DEF Forgotten, t
    <3>3. Worth(Was(mind[t], b)) = Worth(mind[t].side)
      <4>1. Worth("FLAT") = 0  BY DEF Worth
      <4> QED  BY <2>2, <2>5, <3>2, <4>1 DEF Was
    <3>4. mind'[s] = turn.state  BY <1>9, <2>5
    <3>5. Due(turn.intents, s) = Worth(turn.state.side) - Worth(Was(mind[t], b))
      BY <1>7, <2>5
    <3> QED  BY <1>3, <2>2, <2>5, <3>3, <3>4, <3>5 DEF Change
  <2> QED  BY <2>4, <2>5
<1> QED  BY <1>3, <1>7, <1>10, <1>11, <1>12

LEMMA SwingStep ==
    ASSUME Fits, kind \in Swing,
           NEW slot \in Calendar[kind], NEW i \in 1..Len(Universe[kind]),
           NEW close \in Prices, NEW fact \in Facts[kind], NextBar(slot, i, close, fact)
    PROVE  /\ MindFits' /\ Queue(pending')
           /\ \A s \in Syms \ diverged' : Change(s)
<1> DEFINE b == BarOf(slot, i, close, fact)
           t == b.symbol
           turn == SwingTurn(mind[t], b)
<1>1. kind \in Kinds  BY DEF Fits, EngineFits
<1>2. /\ t = Universe[kind][i] /\ t \in Syms /\ t \in Symbols
      /\ b.day \in Nat /\ b.close \in Nat \ {0} /\ b.signal \in BOOLEAN
  BY <1>1, TheBar
<1>3. mind' = [mind EXCEPT ![t] = turn.state] /\ pending' = turn.intents /\ kind' = kind
  BY <1>1, TheTurn
<1>4. mind \in [Symbols -> SwingState]
      /\ \A s \in Symbols : IF kind = "RSI2" THEN LeftOver(mind[s]) ELSE NothingLeft(mind[s])
  BY DEF Fits, MindFits
<1>5. mind[t] \in SwingState  BY <1>2, <1>4
<1> HIDE DEF b
<1>6. /\ DealFits(mind[t], b, turn)
      /\ IF kind = "RSI2" THEN LeftOver(turn.state) ELSE NothingLeft(turn.state)
  <2>1. CASE kind = "SUPERTREND"
    <3>1. NothingLeft(mind[t])  BY <1>2, <1>4, <2>1
    <3> QED  BY <1>2, <1>5, <2>1, <3>1, SupertrendTurn DEF SwingTurn
  <2>2. CASE kind = "RSI2"
    <3>1. LeftOver(mind[t])  BY <1>2, <1>4, <2>2
    <3> QED  BY <1>2, <1>5, <2>2, <3>1, RsiTurn DEF SwingTurn
  <2>3. CASE kind = "MA_PULLBACK"
    <3>1. NothingLeft(mind[t])  BY <1>2, <1>4, <2>3
    <3> QED  BY <1>2, <1>5, <2>3, <3>1, PullbackTurn DEF SwingTurn
  <2> QED  BY <2>1, <2>2, <2>3 DEF Swing
<1> HIDE DEF turn, t
<1>7. Queue(turn.intents)
      /\ \A s : Due(turn.intents, s) = IF s # t THEN 0 ELSE turn.state.qty - mind[t].qty
  BY <1>2, <1>5, <1>6, SwingQueue DEF t
<1>8. turn.state \in SwingState  BY <1>6 DEF DealFits
<1>9. /\ mind' \in [Symbols -> SwingState]
      /\ mind'[t] = turn.state
      /\ \A s \in Symbols : s # t => mind'[s] = mind[s]
  BY <1>2, <1>3, <1>4, <1>8
<1>10. MindFits'
  <2>1. ASSUME NEW s \in Symbols
        PROVE  IF kind = "RSI2" THEN LeftOver(mind'[s]) ELSE NothingLeft(mind'[s])
    <3>1. CASE s = t  BY <1>6, <1>9, <3>1
    <3>2. CASE s # t  BY <1>4, <1>9, <3>2
    <3> QED  BY <3>1, <3>2
  <2>2. kind \notin Intraday /\ kind \notin Ratio \cup {"ANY"} /\ kind # "LONG_SWAN"
    BY DEF Intraday, Swing, Ratio
  <2>3. \A s \in Symbols : IF kind = "RSI2" THEN LeftOver(mind[s])' ELSE NothingLeft(mind[s])'
    BY <2>1 DEF LeftOver, NothingLeft
  <2> QED  BY <1>3, <1>9, <2>2, <2>3 DEF MindFits
<1>11. ASSUME NEW s \in Syms \ diverged' PROVE Change(s)
  <2>1. s \in Symbols  BY <1>1 DEF Syms, Symbols
  <2>2. Believed(s) = mind[s].qty /\ Believed(s)' = mind'[s].qty
    BY <1>3 DEF Believed, Intraday, Swing
  <2>3. mind[s].qty \in Nat  BY <1>4, <2>1 DEF SwingState
  <2>4. CASE s # t
    <3>1. mind'[s] = mind[s]  BY <1>9, <2>1, <2>4
    <3>2. Due(turn.intents, s) = 0  BY <1>7, <2>4
    <3> QED  BY <1>3, <2>2, <2>3, <3>1, <3>2 DEF Change
  <2>5. CASE s = t
    <3>1. mind'[s] = turn.state  BY <1>9, <2>5
    <3>2. Due(turn.intents, s) = turn.state.qty - mind[t].qty  BY <1>7, <2>5
    <3> QED  BY <1>3, <2>2, <2>5, <3>1, <3>2 DEF Change
  <2> QED  BY <2>4, <2>5
<1> QED  BY <1>3, <1>7, <1>10, <1>11

LEMMA PairSyms ==
    ASSUME TwoLegs, kind \in Kinds \cap Ratio
    PROVE  /\ Len(Universe[kind]) = 2
           /\ Syms = {Universe[kind][1], Universe[kind][2]}
           /\ \A s \in Syms : s \in Symbols
<1>1. Len(Universe[kind]) = 2  BY DEF TwoLegs
<1>2. 1..Len(Universe[kind]) = {1, 2}  BY <1>1
<1>3. Syms = {Universe[kind][1], Universe[kind][2]}  BY <1>2 DEF Syms
<1>4. \A s \in Syms : s \in Symbols  BY DEF Syms, Symbols
<1> QED  BY <1>1, <1>3, <1>4

LEMMA PairStep ==
    ASSUME TwoLegs, Fits, kind \in {"PAIRS", "BLACK_SWAN"},
           NEW slot \in Calendar[kind], NEW i \in 1..Len(Universe[kind]),
           NEW close \in Prices, NEW fact \in Facts[kind], NextBar(slot, i, close, fact)
    PROVE  /\ MindFits' /\ Queue(pending')
           /\ LegsDiffer => \A s \in Syms \ diverged' : Change(s)
<1> DEFINE b == BarOf(slot, i, close, fact)
           turn == RatioTurn(i, b, latest')
           pair == Universe[kind]
           from == IF kind = "PAIRS" THEN Began(mind, b) ELSE mind.spread
<1>1. kind \in Kinds /\ kind \in Ratio  BY DEF Fits, EngineFits, Ratio
<1>2. /\ b.day \in Nat /\ b.time \in Nat
      /\ diverged' = diverged \cup Forgotten(i, b)
  BY <1>1, TheBar
<1>3. mind' = turn.state /\ pending' = turn.intents /\ kind' = kind
  BY <1>1, TheTurn
<1>4. mind \in PairState  BY <1>1 DEF Fits, MindFits
<1>5. Len(pair) = 2 /\ Syms = {pair[1], pair[2]}  BY <1>1, PairSyms
<1>6. pair[1] \in Syms /\ pair[2] \in Syms /\ i \in 1..2  BY <1>5
<1> HIDE DEF b, pair
<1>7. MoveFits(pair, from, turn)
  <2>1. CASE kind = "PAIRS"
    BY <1>2, <1>4, <1>6, <2>1, PairsTurn DEF RatioTurn, pair
  <2>2. CASE kind = "BLACK_SWAN"
    BY <1>2, <1>4, <1>6, <2>2, BlackSwanTurn DEF RatioTurn, pair
  <2> QED  BY <2>1, <2>2
<1>8. from \in Spreads
  <2>1. mind.spread \in Spreads /\ "NONE" \in Spreads  BY <1>4 DEF PairState, Spreads
  <2> QED  BY <2>1 DEF Began
<1> HIDE DEF turn
<1>9. /\ Queue(turn.intents)
      /\ pair[1] # pair[2] =>
           \A s \in {pair[1], pair[2]} :
             Due(turn.intents, s) =
                SpreadWorth(pair, turn.state.spread, s) - SpreadWorth(pair, from, s)
  <2> HIDE DEF from
  <2> QED  BY <1>6, <1>7, <1>8, PairQueue
<1>10. MindFits'
  <2>1. kind \notin Intraday /\ kind \notin Swing /\ kind # "LONG_SWAN"
    BY DEF Intraday, Swing, Ratio
  <2>2. mind' \in PairState  BY <1>3, <1>7 DEF MoveFits
  <2> QED  BY <1>3, <2>1, <2>2 DEF MindFits
<1>11. ASSUME LegsDiffer, NEW s \in Syms \ diverged' PROVE Change(s)
  <2>1. pair[1] # pair[2]  BY <1>11 DEF LegsDiffer, Spreaders, pair
  <2>2. /\ Believed(s) = SpreadWorth(pair, mind.spread, s)
        /\ Believed(s)' = SpreadWorth(pair, mind'.spread, s)
    <3>1. Believed(s) = SpreadWorth(pair, mind.spread, s)
      BY DEF Believed, SpreadWorth, Intraday, Swing, pair
    <3>2. Believed(s)' = SpreadWorth(pair, mind'.spread, s)
      BY <1>3 DEF Believed, SpreadWorth, Intraday, Swing, pair
    <3> QED  BY <3>1, <3>2
  <2>3. from = mind.spread
    <3>1. CASE kind = "PAIRS"
      <4>1. s \notin Forgotten(i, b)  BY <1>2
      <4>2. mind.day = b.day \/ mind.spread = "NONE"
        BY <3>1, <4>1 DEF Forgotten, Intraday
      <4> QED  BY <3>1, <4>2 DEF Began
    <3>2. CASE kind # "PAIRS"  BY <3>2
    <3> QED  BY <3>1, <3>2
  <2> HIDE DEF from
  <2> QED  BY <1>3, <1>5, <1>9, <2>1, <2>2, <2>3 DEF Change
<1> QED  BY <1>3, <1>9, <1>10, <1>11

LEMMA SwanStep ==
    ASSUME TwoLegs, Fits, kind = "LONG_SWAN",
           NEW slot \in Calendar[kind], NEW i \in 1..Len(Universe[kind]),
           NEW close \in Prices, NEW fact \in Facts[kind], NextBar(slot, i, close, fact)
    PROVE  /\ MindFits' /\ Queue(pending')
           /\ \A s \in Syms \ diverged' : Change(s)
<1> DEFINE b == BarOf(slot, i, close, fact)
           turn == RatioTurn(i, b, latest')
           pair == Universe[kind]
<1>1. kind \in Kinds /\ kind \in Ratio  BY DEF Fits, EngineFits, Ratio
<1>2. /\ b.day \in Nat /\ b.time \in Nat /\ close \in Nat \ {0}
      /\ latest' = [latest EXCEPT ![pair[i]] = close]
  BY <1>1, TheBar
<1>3. mind' = turn.state /\ pending' = turn.intents /\ kind' = kind
  BY <1>1, TheTurn
<1>4. mind \in PairState /\ SwanFits(mind) /\ LegsSeen(mind, pair, latest)
      /\ latest \in [Symbols -> Prices \cup {0}]
  BY <1>1 DEF Fits, MindFits, EngineFits
<1>5. /\ pair[1] \in Syms /\ pair[2] \in Syms /\ i \in 1..2
      /\ pair[1] \in Symbols /\ pair[2] \in Symbols
  BY <1>1, PairSyms
<1> HIDE DEF b, pair
<1>6. \A l \in 1..2 : /\ latest'[pair[l]] = IF pair[l] = pair[i] THEN close ELSE latest[pair[l]]
                      /\ latest'[pair[l]] \in Nat
  <2> SUFFICES ASSUME NEW l \in 1..2
               PROVE  /\ latest'[pair[l]] = IF pair[l] = pair[i] THEN close ELSE latest[pair[l]]
                      /\ latest'[pair[l]] \in Nat
    OBVIOUS
  <2>1. pair[l] \in Symbols  BY <1>5
  <2>2. latest[pair[l]] \in Nat
    <3>1. latest[pair[l]] \in Prices \cup {0}  BY <1>4, <2>1
    <3>2. Prices \subseteq Nat /\ 0 \in Nat  BY FeedAssumption
    <3>3. Prices \cup {0} \subseteq Nat  BY <3>2, Zenon
    <3> QED  BY <3>1, <3>3, Zenon
  <2>3. latest'[pair[l]] = IF pair[l] = pair[i] THEN close ELSE latest[pair[l]]
    BY <1>2, <1>4, <2>1
  <2> QED  BY <1>2, <2>2, <2>3
<1>7. LegsSeen(Arrived(mind, i, b), pair, latest')
  <2> DEFINE in == Arrived(mind, i, b)
  <2>1. in.at = [mind.at EXCEPT ![i] = <<b.day, b.time>>]  BY <1>2, <1>4, <1>5, ArrivedPair, ZenonT(30)
  <2>2. mind.at \in [1..2 -> Nat \X Nat]  BY <1>4 DEF PairState
  <2> HIDE DEF in
  <2>3. ASSUME NEW l \in 1..2, in.at[l] # <<0, 0>> PROVE latest'[pair[l]] # 0
    <3>1. CASE pair[l] = pair[i]  BY <1>2, <1>6, <3>1
    <3>2. CASE pair[l] # pair[i]
      <4>1. l # i  BY <3>2
      <4>2. in.at[l] = mind.at[l]  BY <2>1, <2>2, <4>1
      <4>3. latest[pair[l]] # 0  BY <1>4, <2>3, <4>2 DEF LegsSeen
      <4> QED  BY <1>6, <3>2, <4>3
    <3> QED  BY <3>1, <3>2
  <2> QED  BY <2>3 DEF LegsSeen, in
<1>8. turn = LongSwanBar(pair, i, mind, b, latest')  BY DEF RatioTurn, pair
<1>9. /\ turn.state \in PairState /\ SwanFits(turn.state)
      /\ LegsSeen(turn.state, pair, latest') /\ SwanMoves(pair, mind, turn)
  <2> DEFINE closes == latest'
  <2>1. \A l \in 1..2 : closes[pair[l]] \in Nat  BY <1>6
  <2>2. LegsSeen(Arrived(mind, i, b), pair, closes)  BY <1>7
  <2>3. turn = LongSwanBar(pair, i, mind, b, closes)  BY <1>8
  <2> HIDE DEF closes, turn
  <2>4. /\ turn.state \in PairState /\ SwanFits(turn.state)
        /\ LegsSeen(turn.state, pair, closes) /\ SwanMoves(pair, mind, turn)
    BY <1>2, <1>4, <1>5, <2>1, <2>2, <2>3, LongSwanTurn
  <2> QED  BY <2>4 DEF closes
<1> HIDE DEF turn
<1>10. /\ Queue(turn.intents)
       /\ \A s : Due(turn.intents, s) = SwanWorth(pair, turn.state, s) - SwanWorth(pair, mind, s)
  BY <1>4, <1>5, <1>9, SwanQueue
<1>11. MindFits'
  <2>1. kind \notin Intraday /\ kind \notin Swing
    BY DEF Intraday, Swing, Ratio
  <2>2. mind' \in PairState /\ SwanFits(mind)' /\ LegsSeen(mind', pair, latest')
    BY <1>3, <1>9 DEF SwanFits
  <2>3. LegsSeen(mind, Universe[kind], latest)'
    BY <1>3, <2>2 DEF LegsSeen, pair
  <2> QED  BY <1>3, <2>1, <2>2, <2>3 DEF MindFits
<1>12. ASSUME NEW s PROVE Change(s)
  <2>1. Believed(s) = SwanWorth(pair, mind, s)
    BY DEF Believed, SwanWorth, Intraday, Swing, pair
  <2>2. Believed(s)' = SwanWorth(pair, mind', s)
    BY <1>3 DEF Believed, SwanWorth, Intraday, Swing, pair
  <2> QED  BY <1>3, <1>10, <2>1, <2>2 DEF Change
<1> QED  BY <1>3, <1>10, <1>11, <1>12

LEMMA AnyStep ==
    ASSUME Fits, kind = "ANY",
           NEW slot, NEW i, NEW close, NEW fact, NextBar(slot, i, close, fact)
    PROVE  MindFits' /\ Queue(pending')
<1>1. kind \in Kinds  BY DEF Fits, EngineFits
<1>2. /\ kind' = kind /\ mind' = mind
      /\ pending' = <<>> \/ \E n \in AnyIntents : pending' = <<n>>
  BY <1>1, TheTurn
<1>3. \A n \in AnyIntents : Placed(n)
  BY OrderAssumption DEF AnyIntents, Placed
<1>4. Queue(pending')  BY <1>2, <1>3 DEF Queue
<1>5. MindFits'
  BY <1>2 DEF Fits, MindFits, Intraday, Swing, Ratio
<1> QED  BY <1>4, <1>5
-----------------------------------------------------------------------------
(* Every step of the engine, for what the strategy knows. *)

(* Nothing of the queue, the symbols or the beliefs depends on more than   *)
(* the strategy of the run and its state.                                  *)
LEMMA SameSyms == ASSUME kind' = kind PROVE Syms' = Syms /\ LegsDiffer' = LegsDiffer
BY DEF Syms, LegsDiffer, Spreaders

LEMMA SameBelief ==
    ASSUME kind' = kind, mind' = mind, NEW s PROVE Believed(s)' = Believed(s)
BY DEF Believed

LEMMA SameMind ==
    ASSUME MindFits, kind' = kind, mind' = mind, latest' = latest PROVE MindFits'
BY DEF MindFits, LegsSeen

LEMMA QueueLater ==
    ASSUME kind' = kind, Queue(pending') PROVE Queue(pending)'
<1>1. Syms' = Syms  BY SameSyms
<1>2. \A n : Placed(n) = Placed(n)'  BY <1>1 DEF Placed
<1> QED  BY <1>2 DEF Queue

LEMMA QueueLength == ASSUME NEW q, Queue(q) PROVE Len(q) \in Nat /\ Len(q) <= 2
<1>1. CASE q = <<>>  BY <1>1
<1>2. CASE \E m : q = <<m>> /\ Placed(m)
  <2>1. PICK m : q = <<m>>  BY <1>2
  <2> QED  BY <2>1
<1>3. CASE \E m, n : q = <<m, n>> /\ Placed(m) /\ Placed(n)
  <2>1. PICK m, n : q = <<m, n>>  BY <1>3
  <2> QED  BY <2>1
<1> QED  BY <1>1, <1>2, <1>3 DEF Queue

LEMMA BeliefLater ==
    ASSUME kind \in Shipped, kind' = kind, MindFits', NEW s \in Symbols
    PROVE  Believed(s)' \in Int
<1>1. Quantity \in Nat /\ LegQuantity \in Nat
  BY ConfigAssumption, SwingAssumption DEF OrbConfig, PairConfig
<1>2. CASE kind \in Intraday
  <2>1. Believed(s)' = Worth(mind'[s].side)    BY <1>2 DEF Believed, Worth, Intraday, Swing
  <2>2. 0 - Quantity \in Int  BY <1>1
  <2>3. \A side : Worth(side) \in Int  BY <1>1, <2>2 DEF Worth
  <2> QED  BY <2>1, <2>3
<1>3. CASE kind \in Swing
  <2>1. mind'[s].qty \in Nat
    BY <1>3 DEF MindFits, SwingState
  <2> QED  BY <1>3, <2>1 DEF Believed, Swing, Intraday
<1>4. CASE kind = "LONG_SWAN"
  <2>1. mind'.qty \in Nat
    BY <1>4 DEF MindFits, PairState, Ratio
  <2> QED  BY <1>4, <2>1 DEF Believed, Swing, Intraday
<1>5. CASE kind \in Spreaders
  BY <1>1, <1>5 DEF Believed, Spreaders, Swing, Intraday
<1> QED  BY <1>2, <1>3, <1>4, <1>5 DEF Shipped, Ratio, Spreaders

LEMMA EachBar ==
    ASSUME TwoLegs, Fits,
           NEW slot \in Calendar[kind], NEW i \in 1..Len(Universe[kind]),
           NEW close \in Prices, NEW fact \in Facts[kind], NextBar(slot, i, close, fact)
    PROVE  /\ MindFits' /\ Queue(pending')
           /\ kind \in Shipped /\ LegsDiffer => \A s \in Syms \ diverged' : Change(s)
           /\ FlatByThen'
<1>1. kind \in Kinds  BY DEF Fits, EngineFits
<1>2. kind' = kind  BY <1>1, TheTurn
<1>3. CASE kind \in Intraday  BY <1>3, IntradayStep
<1>4. CASE kind \in Swing
  <2>1. FlatByThen'  BY <1>2, <1>4 DEF FlatByThen, EarlyOnly, Swing
  <2> QED  BY <1>4, <2>1, SwingStep
<1>5. CASE kind \in {"PAIRS", "BLACK_SWAN"}
  <2>1. FlatByThen'  BY <1>2, <1>5 DEF FlatByThen, EarlyOnly
  <2> QED  BY <1>5, <2>1, PairStep
<1>6. CASE kind = "LONG_SWAN"
  <2>1. FlatByThen'  BY <1>2, <1>6 DEF FlatByThen, EarlyOnly
  <2> QED  BY <1>6, <2>1, SwanStep
<1>7. CASE kind = "ANY"
  <2>1. FlatByThen'  BY <1>2, <1>7 DEF FlatByThen, EarlyOnly
  <2>2. kind \notin Shipped  BY <1>7 DEF Shipped, Intraday, Swing, Ratio
  <2> QED  BY <1>7, <2>1, <2>2, AnyStep
<1> QED  BY <1>1, <1>3, <1>4, <1>5, <1>6, <1>7, KindAssumption DEF Shipped, Ratio

LEMMA BarStep ==
    ASSUME TwoLegs, Fits, Agreed,
           NEW slot \in Calendar[kind], NEW i \in 1..Len(Universe[kind]),
           NEW close \in Prices, NEW fact \in Facts[kind], NextBar(slot, i, close, fact)
    PROVE  Fits' /\ Agreed' /\ FlatByThen'
<1> DEFINE b == BarOf(slot, i, close, fact)
<1>1. kind \in Kinds  BY DEF Fits, EngineFits
<1>2. /\ b.symbol = Universe[kind][i] /\ b.symbol \in Syms /\ b.symbol \in Symbols
      /\ b.day \in Nat /\ b.time \in Nat /\ clock' = <<b.day, b.time, i>>
      /\ bar'.symbol = b.symbol /\ bar'.day = b.day /\ bar'.time = b.time
      /\ bar'.close = close
      /\ latest' = [latest EXCEPT ![b.symbol] = close]
      /\ pending = <<>> /\ Len(fills) < MaxFills
      /\ diverged' = diverged \cup Forgotten(i, b)
  BY <1>1, TheBar
<1>3. /\ kind' = kind /\ risked' = risked /\ pos' = pos /\ cash' = cash
      /\ risk' = risk /\ fills' = fills
  BY <1>1, TheTurn
<1>4. /\ MindFits' /\ Queue(pending')
      /\ kind \in Shipped /\ LegsDiffer => \A s \in Syms \ diverged' : Change(s)
      /\ FlatByThen'
  BY EachBar
<1>5. i \in Nat /\ close \in Nat \ {0}  BY FeedAssumption
<1>6. diverged' \subseteq Symbols
  <2>1. Syms \subseteq Symbols  BY <1>1 DEF Syms, Symbols
  <2>2. Forgotten(i, b) \subseteq Symbols  BY <1>2, <2>1 DEF Forgotten
  <2> QED  BY <1>2, <2>2 DEF Fits, EngineFits
<1> HIDE DEF b
<1>7. Syms' = Syms /\ LegsDiffer' = LegsDiffer  BY <1>3, SameSyms
<1>8. EngineFits'
  <2>1. clock' \in Nat \X Nat \X Nat  BY <1>2, <1>5
  <2>2. latest' \in [Symbols -> Prices \cup {0}]  BY <1>2 DEF Fits, EngineFits
  <2>3. BarFits'  BY <1>2, <1>5, <1>7 DEF BarFits
  <2>4. Queue(pending)'  BY <1>3, <1>4, QueueLater
  <2> QED  BY <1>3, <1>6, <2>1, <2>2, <2>3, <2>4 DEF Fits, EngineFits
<1>9. BooksFit'
  <2>1. Len(pending') \in Nat /\ Len(pending') <= 2  BY <1>4, QueueLength
  <2>2. Len(fills) \in Nat /\ MaxFills \in Nat  BY FeedAssumption DEF Fits, BooksFit
  <2>3. Len(fills') + Len(pending') <= MaxFills + 1  BY <1>2, <1>3, <2>1, <2>2
  <2> QED  BY <1>3, <2>3 DEF Fits, BooksFit
<1>10. Agreed'
  <2> SUFFICES ASSUME kind \in Shipped, LegsDiffer, NEW s \in Syms \ diverged'
               PROVE  pos[s].qty + Due(pending', s) = Believed(s)'
    <3>1. \A s : Due(pending, s)' = Due(pending', s)  BY DEF Due, Signed
    <3> QED  BY <1>3, <1>7, <3>1 DEF Agreed
  <2>1. Change(s)  BY <1>4
  <2>2. s \in Symbols /\ s \notin diverged  BY <1>1, <1>2 DEF Syms, Symbols
  <2>3. pos[s].qty + Due(pending, s) = Believed(s)  BY <2>2 DEF Agreed
  <2>4. pos[s].qty \in Int  BY <2>2 DEF Fits, BooksFit, Held, Position
  <2>5. Due(pending, s) = 0  BY <1>2, Queues
  <2>6. Believed(s) = pos[s].qty  BY <2>3, <2>4, <2>5
  <2>7. Due(pending', s) \in Int
    <3>1. pending' = <<>> => Due(pending', s) = 0  BY Queues
    <3>2. ASSUME pending' # <<>> PROVE Due(pending', s) \in Int
      <4>1. /\ Placed(Head(pending')) /\ Due(Tail(pending'), s) \in Int
            /\ Due(pending', s) = Signed(Head(pending'), s) + Due(Tail(pending'), s)
        BY <1>4, <3>2, QueueParts
      <4>2. Signed(Head(pending'), s) \in Int  BY <4>1, SignedInt
      <4> QED  BY <4>1, <4>2
    <3> QED  BY <3>1, <3>2
  <2>8. Due(pending', s) = Believed(s)' - Believed(s)  BY <2>1 DEF Change
  <2>9. Believed(s)' \in Int  BY <1>3, <1>4, <2>2, BeliefLater
  <2> QED  BY <2>4, <2>6, <2>7, <2>8, <2>9
<1> QED  BY <1>4, <1>8, <1>9, <1>10 DEF Fits
-----------------------------------------------------------------------------
(* A fill and its position. *)

(* What a position is worth at cost: a short one is owed. *)
Net(p) == IF p.qty < 0 THEN 0 - p.cost ELSE p.cost

LEMMA Quotient ==
    ASSUME NEW c \in Nat, NEW d \in Nat \ {0} PROVE c \div d \in Nat /\ d * (c \div d) <= c
OBVIOUS

LEMMA Share ==
    ASSUME NEW n \in Nat, NEW d \in Nat, n <= d, NEW a \in Nat
    PROVE  n * a \in Nat /\ n * a <= d * a
OBVIOUS

LEMMA Product == ASSUME NEW m \in Nat, NEW n \in Nat PROVE m * n \in Nat
OBVIOUS

(* Part of a position costs no more than the whole. *)
LEMMA CostFits ==
    ASSUME NEW p \in Position, p.qty # 0, NEW n \in Nat, n <= Abs(p.qty)
    PROVE  CostOf(p, n) \in Nat /\ CostOf(p, n) <= p.cost
           /\ (n = Abs(p.qty) => CostOf(p, n) = p.cost)
<1> DEFINE d == Abs(p.qty)
           a == Average(p)
<1>1. p.qty \in Int /\ p.cost \in Nat  BY DEF Position
<1>2. d \in Nat \ {0}  BY <1>1 DEF Abs
<1>3. a = p.cost \div d  BY DEF Average
<1> HIDE DEF d
<1>4. a \in Nat /\ d * a <= p.cost  BY <1>1, <1>2, <1>3, Quotient
<1> HIDE DEF a
<1>5. n * a \in Nat /\ n * a <= d * a  BY <1>2, <1>4, Share DEF d
<1>6. d * a \in Nat  BY <1>2, <1>4, Product
<1>7. n * a <= p.cost  BY <1>1, <1>4, <1>5, <1>6
<1>8. CostOf(p, n) = IF n = d THEN p.cost ELSE n * a  BY DEF CostOf, d, a
<1> QED  BY <1>1, <1>5, <1>7, <1>8 DEF d

LEMMA FeesFit ==
    ASSUME NEW side, NEW q \in Nat, NEW price \in Nat PROVE Fees(side, q, price) \in Nat
<1> DEFINE rate == IF side = "BUY" THEN BuyRate ELSE SellRate
           v == q * price
           w == v * rate
<1>1. rate \in Nat /\ Brokerage \in Nat /\ RateUnit \in Nat \ {0}  BY CostAssumption
<1>2. v \in Nat  BY Product
<1> HIDE DEF rate, v
<1>3. w \in Nat  BY <1>1, <1>2, Product
<1> HIDE DEF w
<1>4. w \div RateUnit \in Nat  BY <1>1, <1>3, Quotient
<1>5. Fees(side, q, price) = Brokerage + (w \div RateUnit)  BY DEF Fees, rate, v, w
<1> QED  BY <1>1, <1>4, <1>5

(* Slippage is less than the price. *)
LEMMA SlipFits ==
    ASSUME NEW side, NEW price \in Nat PROVE SlippedPrice(side, price) \in Nat
<1> DEFINE w == price * SlipRate
           slip == w \div RateUnit
<1>1. SlipRate \in Nat /\ RateUnit \in Nat \ {0} /\ SlipRate <= RateUnit  BY CostAssumption
<1>2. w \in Nat /\ w <= RateUnit * price
  <2>1. SlipRate * price \in Nat /\ SlipRate * price <= RateUnit * price
    BY <1>1, Share
  <2>2. price * SlipRate = SlipRate * price  BY <1>1
  <2> QED  BY <2>1, <2>2
<1> HIDE DEF w
<1>3. slip \in Nat /\ RateUnit * slip <= w  BY <1>1, <1>2, Quotient
<1> HIDE DEF slip
<1>4. RateUnit * slip <= RateUnit * price
  <2>1. RateUnit * slip \in Nat /\ RateUnit * price \in Nat  BY <1>1, <1>3, Product
  <2> QED  BY <1>2, <1>3, <2>1
<1>5. slip <= price
  <2>1. \A d \in Nat \ {0}, m, n \in Nat : d * m <= d * n => m <= n  OBVIOUS
  <2> QED  BY <1>1, <1>3, <1>4, <2>1
<1>6. SlippedPrice(side, price) = IF side = "BUY" THEN price + slip ELSE price - slip
  BY DEF SlippedPrice, slip, w
<1> QED  BY <1>3, <1>5, <1>6

(* A purchase leaves a position and moves its cost, its booked P&L and its *)
(* fees by what it takes out of the cash.                                  *)
Moves(p, r, flow) ==
    /\ Held(r)
    /\ flow + Net(r) + r.paid = Net(p) + p.paid + (r.realized - p.realized)

LEMMA BoughtFits ==
    ASSUME NEW p, Held(p), NEW q \in Nat \ {0}, NEW price \in Nat
    PROVE  Moves(p, Bought(p, q, price), CashFlow("BUY", q, price))
<1> DEFINE v == q * price
           f == Fees("BUY", q, price)
           r == Bought(p, q, price)
           flow == CashFlow("BUY", q, price)
<1>1. p \in Position /\ p.qty \in Int /\ p.cost \in Nat /\ p.realized \in Int /\ p.paid \in Int
      /\ (p.qty = 0 => p.cost = 0)
  BY DEF Held, Position
<1>2. v \in Nat /\ f \in Nat  BY Product, FeesFit
<1>3. flow = (0 - v) - f  BY DEF CashFlow
<1>4. \A x, z \in Int, y \in Nat : [p EXCEPT !.qty = x, !.cost = y, !.paid = z] \in Position
  BY <1>1 DEF Position
<1>5. \A x, z \in Int, y \in Nat : [p EXCEPT !.qty = x, !.cost = y, !.realized = z] \in Position
  BY <1>1 DEF Position
<1>6. CASE p.qty >= 0
  <2>1. r = [p EXCEPT !.qty = p.qty + q, !.cost = p.cost + v, !.paid = p.paid + f]
    BY <1>6 DEF Bought
  <2>2. /\ r.qty = p.qty + q /\ r.cost = p.cost + v /\ r.paid = p.paid + f
        /\ r.realized = p.realized
    <3> HIDE DEF r, v, f
    <3> QED  BY <1>1, <2>1 DEF Position
  <2> HIDE DEF r, v, f, flow
  <2>3. r \in Position
    <3>1. p.qty + q \in Int /\ p.cost + v \in Nat /\ p.paid + f \in Int  BY <1>1, <1>2
    <3> QED  BY <1>4, <2>1, <3>1
  <2>4. r.qty # 0 /\ ~ (r.qty < 0)  BY <1>1, <1>6, <2>2
  <2>5. Net(p) = p.cost /\ Net(r) = r.cost  BY <1>1, <1>6, <2>4 DEF Net
  <2>6. Held(r)  BY <2>3, <2>4 DEF Held
  <2>7. flow + Net(r) + r.paid = Net(p) + p.paid + (r.realized - p.realized)
    BY <1>1, <1>2, <1>3, <2>2, <2>5
  <2> QED  BY <2>6, <2>7 DEF Moves, r, flow
<1>7. CASE ~ (p.qty >= 0)
  <2> DEFINE n == Least(q, 0 - p.qty)
             left == p.qty + q
             c == CostOf(p, n)
             rest == IF left < 0 THEN p.cost - c ELSE left * price
  <2>1. n \in Nat /\ n <= Abs(p.qty) /\ p.qty < 0
        /\ (left < 0 => n = q) /\ (~ (left < 0) => n = 0 - p.qty /\ n = Abs(p.qty))
    BY <1>1, <1>7 DEF Least, Abs
  <2>2. left \in Int  BY <1>1
  <2> HIDE DEF n
  <2>3. c \in Nat /\ c <= p.cost /\ (n = Abs(p.qty) => c = p.cost)
    <3>1. p.qty # 0  BY <1>1, <2>1
    <3> QED  BY <1>1, <2>1, <3>1, CostFits
  <2>4. r = [p EXCEPT !.qty = left, !.cost = rest, !.realized = p.realized + c - n * price - f]
    BY <1>7 DEF Bought, n
  <2> DEFINE g == p.realized + c - n * price - f
  <2>5. n * price \in Nat  BY <2>1, Product
  <2> HIDE DEF c
  <2>6. rest \in Nat /\ (left = 0 => rest = 0)
    <3>1. CASE left < 0  BY <1>1, <2>3, <3>1
    <3>2. CASE ~ (left < 0)
      <4>1. left \in Nat  BY <2>2, <3>2
      <4>2. rest = left * price  BY <3>2
      <4>3. left * price \in Nat  BY <4>1, Product
      <4>4. 0 * price = 0  OBVIOUS
      <4> HIDE DEF left, rest
      <4> QED  BY <4>2, <4>3, <4>4
    <3> QED  BY <3>1, <3>2
  <2>7. ~ (left < 0) => v = n * price + left * price
    <3>1. ASSUME ~ (left < 0) PROVE q = n + left  BY <1>1, <2>1, <3>1
    <3>2. \A x, y, z \in Int : (x + y) * z = x * z + y * z  OBVIOUS
    <3> HIDE DEF left
    <3> QED  BY <2>1, <2>2, <3>1, <3>2
  <2>8. (left < 0) => v = n * price  BY <2>1
  <2>9. left < 0 => rest = p.cost - c  OBVIOUS
  <2>10. ~ (left < 0) => rest = left * price  OBVIOUS
  <2>11. ~ (left < 0) => left * price \in Nat
    <3>1. ASSUME ~ (left < 0) PROVE left \in Nat  BY <2>2, <3>1
    <3> HIDE DEF left
    <3> QED  BY <3>1, Product
  <2>12. g \in Int  BY <1>1, <1>2, <2>3, <2>5
  <2> HIDE DEF left, rest, g
  <2>13. r.qty = left /\ r.cost = rest /\ r.realized = g /\ r.paid = p.paid
    <3>1. r = [p EXCEPT !.qty = left, !.cost = rest, !.realized = g]  BY <2>4 DEF g
    <3> HIDE DEF r
    <3> QED  BY <1>1, <3>1 DEF Position
  <2>14. r \in Position
    <3>1. r = [p EXCEPT !.qty = left, !.cost = rest, !.realized = g]  BY <2>4 DEF g
    <3>2. rest \in Nat  BY <2>6
    <3> HIDE DEF r
    <3> QED  BY <1>5, <2>2, <2>12, <3>1, <3>2
  <2> HIDE DEF r
  <2>15. Held(r)  BY <2>6, <2>13, <2>14 DEF Held
  <2>16. Net(p) = 0 - p.cost  BY <2>1 DEF Net
  <2> DEFINE m == n * price
             k == left * price
  <2>17. m \in Nat /\ (~ (left < 0) => k \in Nat)  BY <2>5, <2>11
  <2>18. g = p.realized + c - m - f  BY DEF g
  <2>19. ~ (left < 0) => v = m + k /\ rest = k /\ c = p.cost
    BY <2>1, <2>3, <2>7, <2>10
  <2>20. left < 0 => v = m /\ rest = p.cost - c  BY <2>8, <2>9
  <2> HIDE DEF m, k, v, f, flow
  <2>21. flow + Net(r) + r.paid = Net(p) + p.paid + (r.realized - p.realized)
    <3>1. CASE left < 0
      <4>1. Net(r) = 0 - rest  BY <2>13, <3>1 DEF Net
      <4> QED  BY <1>1, <1>2, <1>3, <2>3, <2>13, <2>16, <2>17, <2>18, <2>20, <3>1, <4>1
    <3>2. CASE ~ (left < 0)
      <4>1. Net(r) = rest  BY <2>13, <3>2 DEF Net
      <4> QED  BY <1>1, <1>2, <1>3, <2>3, <2>13, <2>16, <2>17, <2>18, <2>19, <3>2, <4>1
    <3> QED  BY <3>1, <3>2
  <2> QED  BY <2>15, <2>21 DEF Moves, r, flow
<1> QED  BY <1>6, <1>7

LEMMA SoldFits ==
    ASSUME NEW p, Held(p), NEW q \in Nat \ {0}, NEW price \in Nat, ~ Refuses(p, "SELL", q)
    PROVE  Moves(p, Sold(p, q, price), CashFlow("SELL", q, price))
<1> DEFINE v == q * price
           f == Fees("SELL", q, price)
           r == Sold(p, q, price)
           flow == CashFlow("SELL", q, price)
<1>1. p \in Position /\ p.qty \in Int /\ p.cost \in Nat /\ p.realized \in Int /\ p.paid \in Int
      /\ (p.qty = 0 => p.cost = 0)
  BY DEF Held, Position
<1>2. v \in Nat /\ f \in Nat  BY Product, FeesFit
<1>3. flow = v - f  BY DEF CashFlow
<1>4. \A x, z \in Int, y \in Nat : [p EXCEPT !.qty = x, !.cost = y, !.paid = z] \in Position
  BY <1>1 DEF Position
<1>5. \A x, z \in Int, y \in Nat : [p EXCEPT !.qty = x, !.cost = y, !.realized = z] \in Position
  BY <1>1 DEF Position
<1>6. CASE p.qty > 0
  <2> DEFINE c == CostOf(p, q)
  <2>1. q \in Nat /\ q <= Abs(p.qty) /\ Abs(p.qty) = p.qty /\ p.qty # 0
    BY <1>1, <1>6 DEF Refuses, Abs
  <2>2. c \in Nat /\ c <= p.cost /\ (q = p.qty => c = p.cost)  BY <1>1, <2>1, CostFits
  <2>3. r = [p EXCEPT !.qty = p.qty - q, !.cost = p.cost - c, !.realized = p.realized + v - c - f]
    BY <1>6 DEF Sold
  <2> HIDE DEF r, v, f, c
  <2>4. /\ r.qty = p.qty - q /\ r.cost = p.cost - c /\ r.paid = p.paid
        /\ r.realized = p.realized + v - c - f
    BY <1>1, <2>3 DEF Position
  <2>5. r \in Position
    <3>1. p.qty - q \in Int /\ p.cost - c \in Nat /\ p.realized + v - c - f \in Int
      BY <1>1, <1>2, <2>2
    <3> QED  BY <1>5, <2>3, <3>1
  <2> HIDE DEF flow
  <2>6. ~ (r.qty < 0) /\ (r.qty = 0 => r.cost = 0)  BY <1>1, <2>1, <2>2, <2>4
  <2>7. Net(p) = p.cost /\ Net(r) = r.cost  BY <1>1, <1>6, <2>6 DEF Net
  <2>8. flow + Net(r) + r.paid = Net(p) + p.paid + (r.realized - p.realized)
    BY <1>1, <1>2, <1>3, <2>2, <2>4, <2>7
  <2> QED  BY <2>5, <2>6, <2>8 DEF Held, Moves, r, flow
<1>7. CASE ~ (p.qty > 0)
  <2>1. r = [p EXCEPT !.qty = p.qty - q, !.cost = p.cost + v, !.paid = p.paid + f]
    BY <1>7 DEF Sold
  <2> HIDE DEF r, v, f
  <2>2. /\ r.qty = p.qty - q /\ r.cost = p.cost + v /\ r.paid = p.paid + f
        /\ r.realized = p.realized
    BY <1>1, <2>1 DEF Position
  <2>3. r \in Position
    <3>1. p.qty - q \in Int /\ p.cost + v \in Nat /\ p.paid + f \in Int  BY <1>1, <1>2
    <3> QED  BY <1>4, <2>1, <3>1
  <2> HIDE DEF flow
  <2>4. r.qty < 0 /\ r.qty # 0  BY <1>1, <1>7, <2>2
  <2>5. Net(p) = 0 - p.cost /\ Net(r) = 0 - r.cost
    <3>1. p.qty = 0 => p.cost = 0 /\ 0 - p.cost = 0  BY <1>1
    <3>2. p.qty < 0 \/ p.qty = 0  BY <1>1, <1>7
    <3> QED  BY <1>1, <2>4, <3>1, <3>2 DEF Net
  <2>6. flow + Net(r) + r.paid = Net(p) + p.paid + (r.realized - p.realized)
    BY <1>1, <1>2, <1>3, <2>2, <2>5
  <2> QED  BY <2>3, <2>4, <2>6 DEF Held, Moves, r, flow
<1> QED  BY <1>6, <1>7

LEMMA Known ==
    ASSUME NEW r, Held(r)
    PROVE  LET k == [r EXCEPT !.known = TRUE]
           IN  /\ Held(k) /\ Net(k) = Net(r) /\ k.paid = r.paid /\ k.realized = r.realized
BY DEF Held, Position, Net

LEMMA FillMoves ==
    ASSUME NEW p, Held(p), NEW side \in {"BUY", "SELL"}, NEW q \in Nat \ {0},
           NEW price \in Nat, ~ Refuses(p, side, q)
    PROVE  Moves(p, AfterFill(p, side, q, price), CashFlow(side, q, price))
<1> DEFINE r == IF side = "BUY" THEN Bought(p, q, price) ELSE Sold(p, q, price)
           k == [r EXCEPT !.known = TRUE]
           flow == CashFlow(side, q, price)
<1>1. Moves(p, r, flow)  BY BoughtFits, SoldFits
<1>2. AfterFill(p, side, q, price) = k  BY DEF AfterFill
<1> HIDE DEF r, flow
<1>3. Held(r)  BY <1>1 DEF Moves
<1>4. Held(k) /\ Net(k) = Net(r) /\ k.paid = r.paid /\ k.realized = r.realized
  BY <1>3, Known
<1> HIDE DEF k
<1>5. Moves(p, k, flow)  BY <1>1, <1>4 DEF Moves
<1> QED  BY <1>2, <1>5 DEF flow

LEMMA FlowInt ==
    ASSUME NEW side, NEW q \in Nat, NEW price \in Nat PROVE CashFlow(side, q, price) \in Int
<1>1. Fees(side, q, price) \in Nat /\ q * price \in Nat  BY FeesFit, Product
<1> QED  BY <1>1 DEF CashFlow

(* Marking to market touches neither cost nor what was booked. *)
LEMMA MarkKeeps ==
    ASSUME NEW p, Held(p), NEW price \in Nat
    PROVE  LET m == Marked(p, price)
           IN  /\ Held(m) /\ m.qty = p.qty /\ Net(m) = Net(p)
               /\ m.realized = p.realized /\ m.paid = p.paid
<1> DEFINE m == Marked(p, price)
           u == IF p.qty > 0 THEN p.qty * price - p.cost ELSE p.cost - Abs(p.qty) * price
<1>1. p \in Position /\ p.qty \in Int /\ p.cost \in Nat  BY DEF Held, Position
<1>2. u \in Int
  <2>1. Abs(p.qty) \in Nat /\ p.qty * price \in Int  BY <1>1 DEF Abs
  <2>2. Abs(p.qty) * price \in Nat  BY <2>1, Product
  <2> DEFINE v == p.qty * price
             w == Abs(p.qty) * price
  <2> HIDE DEF v, w
  <2>3. v \in Int /\ w \in Int  BY <2>1, <2>2 DEF v, w
  <2>4. v - p.cost \in Int /\ p.cost - w \in Int  BY <1>1, <2>3
  <2> QED  BY <2>4 DEF v, w
<1>3. m = IF p.qty = 0 \/ price = 0 THEN p ELSE [p EXCEPT !.last = price, !.unrealized = u]
  BY DEF Marked
<1> HIDE DEF u
<1>4. /\ [p EXCEPT !.last = price, !.unrealized = u] \in Position
      /\ [p EXCEPT !.last = price, !.unrealized = u].qty = p.qty
      /\ [p EXCEPT !.last = price, !.unrealized = u].cost = p.cost
      /\ [p EXCEPT !.last = price, !.unrealized = u].realized = p.realized
      /\ [p EXCEPT !.last = price, !.unrealized = u].paid = p.paid
  BY <1>1, <1>2 DEF Position
<1> HIDE DEF m
<1>5. m \in Position /\ m.qty = p.qty /\ m.cost = p.cost /\ m.realized = p.realized
      /\ m.paid = p.paid
  BY <1>1, <1>3, <1>4
<1> QED  BY <1>5 DEF Held, Net, m
-----------------------------------------------------------------------------
(* Sums over the symbols. *)

LEMMA SumOverIs == ASSUME NEW f PROVE SumOver(f) = SumFunctionOnSet(f, DOMAIN f)
BY DEF SumOver, FoldFunction, SumFunctionOnSet, FoldFunctionOnSet, MapThenFoldSet

(* When one symbol's value moves, the sum moves by as much. *)
LEMMA OneMoved ==
    ASSUME IsFiniteSet(Symbols), NEW f \in [Symbols -> Int], NEW h \in [Symbols -> Int],
           NEW s \in Symbols, \A x \in Symbols \ {s} : h[x] = f[x]
    PROVE  /\ SumOver(f) \in Int /\ SumOver(h) \in Int
           /\ SumOver(h) = SumOver(f) + (h[s] - f[s])
<1> DEFINE R == Symbols \ {s}
<1>1. SumOver(f) = SumFunctionOnSet(f, Symbols) /\ SumOver(h) = SumFunctionOnSet(h, Symbols)
  BY SumOverIs
<1>2. IsFiniteSet(R)  BY FS_Subset
<1>3. SumFunctionOnSet(f, Symbols) = f[s] + SumFunctionOnSet(f, R)  BY SumStep
<1>4. SumFunctionOnSet(h, Symbols) = h[s] + SumFunctionOnSet(h, R)  BY SumStep
<1>5. SumFunctionOnSet(h, R) = SumFunctionOnSet(f, R)
  <2>1. \A x \in R : f[x] \in Int /\ h[x] = f[x]  OBVIOUS
  <2> QED  BY <1>2, <2>1, SumEqual
<1>6. SumFunctionOnSet(f, R) \in Int
  <2>1. \A x \in R : f[x] \in Int  OBVIOUS
  <2> QED  BY <1>2, <2>1, SumType
<1>7. f[s] \in Int /\ h[s] \in Int  OBVIOUS
<1> QED  BY <1>1, <1>3, <1>4, <1>5, <1>6, <1>7

LEMMA SumInt ==
    ASSUME IsFiniteSet(Symbols), NEW f \in [Symbols -> Int] PROVE SumOver(f) \in Int
BY SumOverIs, SumType

LEMMA SumZero ==
    ASSUME IsFiniteSet(Symbols) PROVE SumOver([s \in Symbols |-> 0]) = 0
<1> DEFINE z == [s \in Symbols |-> 0]
<1>1. SumFunctionOnSet(z, Symbols) \in Int  BY SumType
<1>2. SumFunctionOnSet(z, Symbols) <= 0
  <2>1. \A x \in Symbols : z[x] \in Int /\ z[x] <= (IF x \in {} THEN 0 ELSE 0)  OBVIOUS
  <2>2. SumFunctionOnSet(z, Symbols) <= Cardinality(Symbols \cap {}) * 0  BY <2>1, SumSpread
  <2>3. Symbols \cap {} = {} /\ Cardinality({}) = 0  BY FS_EmptySet
  <2> HIDE DEF z
  <2> QED  BY <2>2, <2>3
<1>3. SumFunctionOnSet(z, Symbols) \in Nat  BY SumNat
<1> HIDE DEF z
<1>4. SumFunctionOnSet(z, Symbols) = 0  BY <1>2, <1>3
<1> QED  BY <1>4, SumOverIs DEF z
-----------------------------------------------------------------------------
(* The orders of a bar, and its end. *)

LEMMA OrderFits ==
    ASSUME Fits, pending # <<>>
    PROVE  /\ Head(pending).symbol \in Syms /\ Head(pending).symbol \in Symbols
           /\ Head(pending).side \in {"BUY", "SELL"}
           /\ Head(pending).qty \in Nat \ {0} /\ Head(pending).price \in Nat
           /\ FillPrice(Head(pending), bar) \in Nat
           /\ Queue(Tail(pending)) /\ BarFits
           /\ Len(pending) \in Nat /\ Len(Tail(pending)) = Len(pending) - 1
<1> DEFINE n == Head(pending)
<1>1. Placed(n) /\ Queue(Tail(pending))
      /\ Len(pending) \in Nat /\ Len(Tail(pending)) = Len(pending) - 1
  BY QueueParts DEF Fits, EngineFits
<1>2. Syms \subseteq Symbols  BY DEF Fits, EngineFits, Syms, Symbols
<1>3. BarFits  BY DEF Fits, EngineFits
<1> HIDE DEF n
<1>4. FillPrice(n, bar) \in Nat
  <2>1. bar.close \in Nat /\ n.price \in Nat  BY <1>1, <1>3 DEF BarFits, Placed
  <2>2. SlippedPrice(n.side, bar.close) \in Nat /\ SlippedPrice(n.side, n.price) \in Nat
    BY <2>1, SlipFits
  <2> QED  BY <2>2 DEF FillPrice
<1> QED  BY <1>1, <1>2, <1>3, <1>4 DEF Placed, n

LEMMA Handled ==
    ASSUME Fits, Reject \/ Execute
    PROVE  /\ pending # <<>> /\ pending' = Tail(pending) /\ Queue(pending')
           /\ kind' = kind /\ risked' = risked /\ clock' = clock /\ latest' = latest
           /\ bar' = bar /\ mind' = mind
           /\ BarFits /\ Len(pending) \in Nat /\ Len(pending') = Len(pending) - 1
           /\ Head(pending).symbol \in Symbols
           /\ diverged' \subseteq Symbols /\ diverged \subseteq diverged'
<1>1. CASE Reject
  <2>1. /\ pending # <<>> /\ pending' = Tail(pending)
        /\ kind' = kind /\ risked' = risked /\ clock' = clock /\ latest' = latest
        /\ bar' = bar /\ mind' = mind /\ diverged' = diverged \cup {Head(pending).symbol}
    BY <1>1 DEF Reject
  <2> QED  BY <2>1, OrderFits DEF Fits, EngineFits
<1>2. CASE Execute
  <2>1. /\ pending # <<>> /\ pending' = Tail(pending)
        /\ kind' = kind /\ risked' = risked /\ clock' = clock /\ latest' = latest
        /\ bar' = bar /\ mind' = mind
        /\ diverged' = diverged \/ diverged' = diverged \cup {Head(pending).symbol}
    BY <1>2 DEF Execute
  <2> QED  BY <2>1, OrderFits DEF Fits, EngineFits
<1> QED  BY <1>1, <1>2

LEMMA HandledFits ==
    ASSUME Fits, FlatByThen, Reject \/ Execute
    PROVE  EngineFits' /\ MindFits' /\ FlatByThen'
<1>1. /\ Queue(pending') /\ BarFits /\ diverged' \subseteq Symbols
      /\ kind' = kind /\ risked' = risked /\ clock' = clock /\ latest' = latest
      /\ bar' = bar /\ mind' = mind
  BY Handled
<1>2. MindFits'  BY <1>1, SameMind DEF Fits
<1>3. Syms' = Syms  BY <1>1, SameSyms
<1>4. BarFits'  BY <1>1, <1>3 DEF BarFits
<1>5. Queue(pending)'  BY <1>1, QueueLater
<1>6. EngineFits'  BY <1>1, <1>4, <1>5 DEF Fits, EngineFits
<1>7. FlatByThen'  BY <1>1 DEF FlatByThen
<1> QED  BY <1>2, <1>6, <1>7

LEMMA RecordedFits ==
    ASSUME NEW r \in RiskState, NEW b, b.day \in Nat, b.time \in Nat
    PROVE  Recorded(r, b) \in RiskState
<1>1. Recent(r, <<b.day, b.time>>) + 1 \in Nat  BY DEF Recent, RiskState
<1>2. r.approved + 1 \in Nat /\ <<b.day, b.time>> \in Nat \X Nat  BY DEF RiskState
<1>3. \A a, c \in Nat, w \in Nat \X Nat :
        [r EXCEPT !.approved = a, !.at = w, !.stamps = c] \in RiskState
  BY DEF RiskState
<1> QED  BY <1>1, <1>2, <1>3 DEF Recorded

(* What a fill does to the books, or an order without one. *)
FillOf(n, price) ==
    [symbol |-> n.symbol, side |-> n.side, qty |-> n.qty, price |-> price,
     fees |-> Fees(n.side, n.qty, price)]
Filled ==
    LET n == Head(pending)
        price == FillPrice(n, bar)
    IN  /\ pos' = [pos EXCEPT ![n.symbol] = AfterFill(pos[n.symbol], n.side, n.qty, price)]
        /\ cash' = cash + CashFlow(n.side, n.qty, price)
        /\ FillOf(n, price) \in Fill /\ fills' = Append(fills, FillOf(n, price))
        /\ diverged' = diverged
        /\ ~ Refuses(pos[n.symbol], n.side, n.qty)
Unfilled ==
    /\ pos' = pos /\ cash' = cash /\ fills' = fills
    /\ diverged' = diverged \cup {Head(pending).symbol}

LEMMA FilledOrNot ==
    ASSUME Fits, Reject \/ Execute
    PROVE  (Filled \/ Unfilled) /\ risk' \in RiskState
<1>1. CASE Reject
  BY <1>1 DEF Reject, Unfilled, Fits, BooksFit
<1>2. CASE Execute
  <2> DEFINE n == Head(pending)
             price == FillPrice(n, bar)
  <2>1. /\ pending # <<>> /\ risk' = IF risked THEN Recorded(risk, bar) ELSE risk
    BY <1>2 DEF Execute
  <2>2. /\ n.symbol \in Symbols /\ n.side \in {"BUY", "SELL"} /\ n.qty \in Nat \ {0}
        /\ price \in Nat /\ BarFits
    BY <2>1, OrderFits
  <2>3. risk' \in RiskState
    <3>1. risk \in RiskState  BY DEF Fits, BooksFit
    <3> QED  BY <2>1, <2>2, <3>1, RecordedFits DEF BarFits
  <2>4. CASE Fills(pos[n.symbol], n, bar)
    <3> DEFINE f == FillOf(n, price)
    <3>1. /\ pos' = [pos EXCEPT ![n.symbol] = AfterFill(@, n.side, n.qty, price)]
          /\ cash' = cash + CashFlow(n.side, n.qty, price)
          /\ fills' = Append(fills, f)
          /\ diverged' = diverged
      BY <1>2, <2>4 DEF Execute, FillOf
    <3>2. Fees(n.side, n.qty, price) \in Nat  BY <2>2, FeesFit
    <3>3. ~ Refuses(pos[n.symbol], n.side, n.qty)  BY <2>4 DEF Fills
    <3> HIDE DEF price
    <3>4. f \in Fill  BY <2>2, <3>2 DEF Fill, FillOf
    <3> HIDE DEF f
    <3>5. Filled  BY <3>1, <3>3, <3>4 DEF Filled, price, f
    <3> QED  BY <2>3, <3>5
  <2>5. CASE ~ Fills(pos[n.symbol], n, bar)
    <3>1. Unfilled  BY <1>2, <2>5 DEF Execute, Unfilled
    <3> QED  BY <2>3, <3>1
  <2> QED  BY <2>4, <2>5
<1> QED  BY <1>1, <1>2

LEMMA HandledBooks ==
    ASSUME Fits, Reject \/ Execute PROVE BooksFit'
<1> DEFINE n == Head(pending)
           t == n.symbol
           price == FillPrice(n, bar)
<1>1. /\ pending # <<>> /\ Len(pending) \in Nat /\ Len(pending') = Len(pending) - 1
      /\ t \in Symbols
  BY Handled
<1>2. /\ n.side \in {"BUY", "SELL"} /\ n.qty \in Nat \ {0} /\ price \in Nat
  BY <1>1, OrderFits
<1>3. (Filled \/ Unfilled) /\ risk' \in RiskState  BY FilledOrNot
<1>4. /\ DOMAIN pos = Symbols /\ \A s \in Symbols : Held(pos[s])
      /\ cash \in Int /\ fills \in Seq(Fill) /\ Len(fills) + Len(pending) <= MaxFills + 1
      /\ MaxFills \in Nat /\ Len(fills) \in Nat
  BY FeedAssumption DEF Fits, BooksFit
<1>5. CASE Unfilled
  BY <1>1, <1>3, <1>4, <1>5 DEF Unfilled, BooksFit
<1>6. CASE Filled
  <2>1. /\ pos' = [pos EXCEPT ![t] = AfterFill(pos[t], n.side, n.qty, price)]
        /\ cash' = cash + CashFlow(n.side, n.qty, price)
        /\ \E f \in Fill : fills' = Append(fills, f)
        /\ ~ Refuses(pos[t], n.side, n.qty)
    BY <1>6 DEF Filled
  <2> HIDE DEF n, price
  <2>2. Moves(pos[t], AfterFill(pos[t], n.side, n.qty, price), CashFlow(n.side, n.qty, price))
    BY <1>1, <1>2, <1>4, <2>1, FillMoves
  <2>3. DOMAIN pos' = Symbols /\ \A s \in Symbols : Held(pos'[s])
    BY <1>4, <2>1, <2>2 DEF Moves
  <2>4. cash' \in Int
    <3>1. CashFlow(n.side, n.qty, price) \in Int  BY <1>2, FlowInt
    <3> QED  BY <1>4, <2>1, <3>1
  <2>5. fills' \in Seq(Fill) /\ Len(fills') = Len(fills) + 1  BY <1>4, <2>1
  <2>6. Len(fills') + Len(pending') <= MaxFills + 1  BY <1>1, <1>4, <2>5
  <2> QED  BY <1>3, <2>3, <2>4, <2>5, <2>6 DEF BooksFit
<1> QED  BY <1>3, <1>5, <1>6

LEMMA HandledAgreed ==
    ASSUME Fits, Agreed, Reject \/ Execute PROVE Agreed'
<1> DEFINE n == Head(pending)
           t == n.symbol
           price == FillPrice(n, bar)
<1>1. /\ pending # <<>> /\ pending' = Tail(pending) /\ kind' = kind /\ mind' = mind
      /\ t \in Symbols /\ diverged \subseteq diverged'
  BY Handled
<1>2. n.side \in {"BUY", "SELL"} /\ n.qty \in Nat \ {0}  BY <1>1, OrderFits
<1>3. Syms' = Syms /\ LegsDiffer' = LegsDiffer  BY <1>1, SameSyms
<1>4. Syms \subseteq Symbols  BY DEF Fits, EngineFits, Syms, Symbols
<1> SUFFICES ASSUME kind \in Shipped, LegsDiffer, NEW s \in Syms \ diverged'
             PROVE  pos'[s].qty + Due(Tail(pending), s) = Believed(s)
  <2>1. \A s : Due(pending, s)' = Due(pending', s)  BY DEF Due, Signed
  <2>2. \A s : Believed(s)' = Believed(s)  BY <1>1, SameBelief
  <2> QED  BY <1>1, <1>3, <2>1, <2>2 DEF Agreed
<1>5. pos[s].qty + Due(pending, s) = Believed(s)
  BY <1>1 DEF Agreed
<1>6. Due(pending, s) = Signed(n, s) + Due(Tail(pending), s) /\ Due(Tail(pending), s) \in Int
  BY <1>1, QueueParts DEF Fits, EngineFits
<1>7. s \in Symbols /\ pos[s].qty \in Int /\ DOMAIN pos = Symbols
  BY <1>4 DEF Fits, BooksFit, Held, Position
<1>8. CASE Unfilled
  <2>1. t # s /\ pos' = pos  BY <1>8 DEF Unfilled
  <2>2. Signed(n, s) = 0  BY <2>1 DEF Signed
  <2> HIDE DEF n
  <2> QED  BY <1>5, <1>6, <1>7, <2>1, <2>2
<1>9. CASE Filled
  <2>1. pos' = [pos EXCEPT ![t] = AfterFill(pos[t], n.side, n.qty, price)]
    BY <1>9 DEF Filled
  <2> HIDE DEF n, price
  <2>2. CASE s = t
    <3>1. Quantified(pos[t])  BY <1>1 DEF Fits, BooksFit, Held, Position, Quantified
    <3>2. pos'[s].qty = IF n.side = "BUY" THEN pos[s].qty + n.qty ELSE pos[s].qty - n.qty
      BY <1>2, <1>7, <2>1, <2>2, <3>1, FilledQuantity
    <3>3. Signed(n, s) = IF n.side = "BUY" THEN n.qty ELSE 0 - n.qty
      BY <2>2 DEF Signed
    <3> QED  BY <1>2, <1>5, <1>6, <1>7, <3>2, <3>3
  <2>3. CASE s # t
    <3>1. pos'[s] = pos[s]  BY <1>7, <2>1, <2>3
    <3>2. Signed(n, s) = 0  BY <2>3 DEF Signed
    <3> QED  BY <1>5, <1>6, <1>7, <3>1, <3>2
  <2> QED  BY <2>2, <2>3
<1> QED  BY <1>8, <1>9, FilledOrNot

LEMMA MarkStep ==
    ASSUME Fits, Agreed, FlatByThen, Mark PROVE Fits' /\ Agreed' /\ FlatByThen'
<1>1. /\ pos' = [s \in Symbols |-> Marked(pos[s], latest[s])]
      /\ bar' = NoBar /\ pending = <<>> /\ pending' = <<>>
      /\ kind' = kind /\ risked' = risked /\ clock' = clock /\ latest' = latest
      /\ mind' = mind /\ cash' = cash /\ risk' = risk /\ fills' = fills
      /\ diverged' = diverged
  BY DEF Mark
<1>2. ASSUME NEW s \in Symbols PROVE Held(pos'[s]) /\ pos'[s].qty = pos[s].qty
  <2>1. latest[s] \in Nat
    <3>1. latest[s] \in Prices \cup {0}  BY DEF Fits, EngineFits
    <3>2. Prices \subseteq Nat /\ 0 \in Nat  BY FeedAssumption
    <3>3. Prices \cup {0} \subseteq Nat  BY <3>2, Zenon
    <3> QED  BY <3>1, <3>3, Zenon
  <2>2. Held(pos[s])  BY DEF Fits, BooksFit
  <2>3. pos'[s] = Marked(pos[s], latest[s])  BY <1>1
  <2> QED  BY <2>1, <2>2, <2>3, MarkKeeps
<1>3. MindFits'  BY <1>1, SameMind DEF Fits
<1>4. Queue(pending)'  BY <1>1, QueueLater, Queues
<1>5. EngineFits'  BY <1>1, <1>4 DEF Fits, EngineFits
<1>6. BooksFit'  BY <1>1, <1>2 DEF Fits, BooksFit
<1>7. FlatByThen'  BY <1>1 DEF FlatByThen
<1>8. Agreed'
  <2>1. Syms' = Syms /\ LegsDiffer' = LegsDiffer  BY <1>1, SameSyms
  <2>2. Syms \subseteq Symbols  BY DEF Fits, EngineFits, Syms, Symbols
  <2>3. \A s : Believed(s)' = Believed(s)  BY <1>1, SameBelief
  <2>4. \A s : Due(pending, s)' = Due(pending, s)  BY <1>1 DEF Due, Signed
  <2> QED  BY <1>1, <1>2, <2>1, <2>2, <2>3, <2>4 DEF Agreed
<1> QED  BY <1>3, <1>5, <1>6, <1>7, <1>8 DEF Fits
-----------------------------------------------------------------------------
(* What the engine keeps to, whatever strategy it runs. *)

Sound == Fits /\ Agreed /\ FlatByThen

LEMMA Starts ==
    ASSUME Init
    PROVE  /\ Fits /\ FlatByThen
           /\ \A s \in Symbols : Believed(s) = 0
<1>1. /\ kind \in Kinds /\ risked \in BOOLEAN /\ clock = <<0, 0, 0>>
      /\ latest = [s \in Symbols |-> 0] /\ bar = NoBar /\ pending = <<>>
      /\ mind = FirstMind(kind) /\ pos = [s \in Symbols |-> NoPosition]
      /\ cash = InitialCash /\ risk \in {NewRisk, Activate(NewRisk)}
      /\ fills = <<>> /\ diverged = {}
  BY DEF Init
<1>2. /\ WindowBars \in Nat \ {0} /\ MinBars \in Nat /\ DailyEntries \in Nat /\ Warmup \in Nat
  BY ConfigAssumption, SwingAssumption
  DEF FadeConfig, ContinuationConfig, MomentumConfig, SwingConfig
<1>3. NewState \in SymbolState /\ WindowFits(NewState) /\ NewState.side = "FLAT"
  BY <1>2 DEF NewState, SymbolState, Sides, WindowFits
<1>4. NewSwing \in SwingState /\ LeftOver(NewSwing) /\ NothingLeft(NewSwing)
      /\ NewSwing.qty = 0
  BY <1>2 DEF NewSwing, SwingState, LeftOver, NothingLeft
<1>5. NewPair \in PairState /\ NewPair.spread = "NONE"
      /\ \A l \in 1..2 : NewPair.at[l] = <<0, 0>>
  BY <1>2 DEF NewPair, PairState, Spreads
<1>6. /\ kind \in Intraday => mind = [s \in Symbols |-> NewState]
      /\ kind \in Swing => mind = [s \in Symbols |-> NewSwing]
      /\ kind \in Ratio \cup {"ANY"} => mind = NewPair
  BY <1>1 DEF FirstMind, Intraday, Swing, Ratio
<1>7. MindFits
  <2>1. kind = "LONG_SWAN" => kind \in Ratio  BY DEF Ratio
  <2>2. kind = "FIRST_HOUR" => kind \in Intraday  BY DEF Intraday
  <2>3. kind = "LONG_SWAN" => SwanFits(mind) /\ LegsSeen(mind, Universe[kind], latest)
    BY <1>5, <1>6, <2>1 DEF SwanFits, LegsSeen
  <2> QED  BY <1>3, <1>4, <1>5, <1>6, <2>1, <2>2, <2>3 DEF MindFits
<1>8. EngineFits
  <2>1. Queue(<<>>)  BY Queues
  <2>2. clock \in Nat \X Nat \X Nat  BY <1>1
  <2> QED  BY <1>1, <2>1, <2>2 DEF EngineFits
<1>9. BooksFit
  <2>1. Held(NoPosition)  BY DEF Held, Position, NoPosition
  <2>2. risk \in RiskState
    <3>1. NewRisk \in RiskState  BY DEF RiskState, NewRisk
    <3>2. \A r \in RiskState : [r EXCEPT !.kill = TRUE] \in RiskState  BY DEF RiskState
    <3> QED  BY <1>1, <3>1, <3>2 DEF Activate
  <2>3. fills \in Seq(Fill) /\ Len(fills) + Len(pending) <= MaxFills + 1
    BY <1>1, FeedAssumption
  <2>4. cash \in Int  BY <1>1, CashAssumption
  <2> QED  BY <1>1, <2>1, <2>2, <2>3, <2>4 DEF BooksFit
<1>10. FlatByThen  BY <1>1 DEF FlatByThen
<1>11. ASSUME NEW s \in Symbols PROVE Believed(s) = 0
  BY <1>1, <1>3, <1>4, <1>5, <1>6, KindAssumption
  DEF Believed, Ratio, Shipped, Intraday, Swing
<1> QED  BY <1>7, <1>8, <1>9, <1>10, <1>11 DEF Fits

LEMMA SoundInit == ASSUME Init PROVE Sound
<1>1. Agreed
  <2>1. \A s \in Syms : s \in Symbols  BY DEF Init, Syms, Symbols
  <2>2. ASSUME NEW s \in Symbols PROVE pos[s].qty = 0 /\ Due(pending, s) = 0
    BY Queues DEF Init, NoPosition
  <2> QED  BY <2>1, <2>2, Starts DEF Agreed
<1> QED  BY <1>1, Starts DEF Sound

LEMMA SoundStep == ASSUME TwoLegs, Sound, [Next]_vars PROVE Sound'
<1>1. ASSUME NEW slot \in Calendar[kind], NEW i \in 1..Len(Universe[kind]),
             NEW close \in Prices, NEW fact \in Facts[kind], NextBar(slot, i, close, fact)
      PROVE  Sound'
  BY <1>1, BarStep DEF Sound
<1>2. CASE Reject \/ Execute
  BY <1>2, HandledFits, HandledBooks, HandledAgreed DEF Sound, Fits
<1>3. CASE Mark  BY <1>3, MarkStep DEF Sound
<1>4. CASE UNCHANGED vars
  <2>1. \A s : Believed(s)' = Believed(s)  BY <1>4 DEF vars, Believed
  <2>2. MindFits'  BY <1>4, SameMind DEF vars, Sound, Fits
  <2>3. Queue(pending)'  BY <1>4, QueueLater DEF vars, Sound, Fits, EngineFits
  <2>4. Syms' = Syms /\ LegsDiffer' = LegsDiffer  BY <1>4, SameSyms DEF vars
  <2>5. EngineFits'  BY <1>4, <2>3, <2>4 DEF vars, Sound, Fits, EngineFits, BarFits
  <2>6. BooksFit'  BY <1>4 DEF vars, Sound, Fits, BooksFit
  <2>7. FlatByThen'  BY <1>4 DEF vars, Sound, FlatByThen
  <2>8. Agreed'  BY <1>4, <2>1, <2>4 DEF vars, Sound, Agreed, Due, Signed
  <2> QED  BY <2>2, <2>5, <2>6, <2>7, <2>8 DEF Sound, Fits
<1> QED  BY <1>1, <1>2, <1>3, <1>4 DEF Next

LEMMA SoundTypes == ASSUME Sound PROVE TypeOK
<1>1. /\ EngineFits /\ MindFits /\ BooksFit  BY DEF Sound, Fits
<1>2. bar = NoBar \/ bar.symbol \in Syms  BY <1>1 DEF EngineFits, BarFits
<1>3. ASSUME NEW i \in 1..Len(pending) PROVE pending[i].symbol \in Syms
  <2>1. CASE pending = <<>>  BY <2>1
  <2>2. CASE \E m : pending = <<m>> /\ Placed(m)
    <3>1. PICK m : pending = <<m>> /\ Placed(m)  BY <2>2
    <3>2. i = 1 /\ pending[i] = m  BY <3>1
    <3> QED  BY <3>1, <3>2 DEF Placed
  <2>3. CASE \E m, n : pending = <<m, n>> /\ Placed(m) /\ Placed(n)
    <3>1. PICK m, n : pending = <<m, n>> /\ Placed(m) /\ Placed(n)  BY <2>3
    <3>2. pending[i] = m \/ pending[i] = n  BY <3>1
    <3> QED  BY <3>1, <3>2 DEF Placed
  <2> QED  BY <1>1, <2>1, <2>2, <2>3 DEF EngineFits, Queue
<1>4. \A s \in Symbols : pos[s].qty \in Int /\ pos[s].cost \in Nat
  BY <1>1 DEF BooksFit, Held, Position
<1>5. Len(fills) \in 0..(MaxFills + 1)
  <2>1. Len(pending) \in Nat  BY <1>1, QueueLength DEF EngineFits
  <2>2. Len(fills) \in Nat  BY <1>1 DEF BooksFit
  <2> QED  BY <1>1, <2>1, <2>2, FeedAssumption DEF BooksFit
<1>6. risk.approved \in Nat  BY <1>1 DEF BooksFit, RiskState
<1> QED  BY <1>1, <1>2, <1>3, <1>4, <1>5, <1>6 DEF TypeOK, EngineFits, MindFits, BooksFit

(* Bars, orders, strategy states, positions, risk state and fills keep     *)
(* their types whichever strategy runs, for any calendar, prices and       *)
(* configuration.                                                          *)
THEOREM EngineTypes == ASSUME TwoLegs PROVE Spec => []TypeOK
<1>1. Init => Sound  BY SoundInit
<1>2. Sound /\ [Next]_vars => Sound'  BY SoundStep
<1>3. Sound => TypeOK  BY SoundTypes
<1> QED  BY <1>1, <1>2, <1>3, PTL DEF Spec

(* A strategy that never hears of its orders is nevertheless right about   *)
(* its position between bars, for every symbol whose orders were neither   *)
(* refused nor dropped nor forgotten overnight: none of the eleven         *)
(* strategies counts a share it did not order, or orders one it does not   *)
(* count.                                                                  *)
THEOREM StaysInStep == ASSUME DistinctLegs PROVE Spec => []InStep
<1>1. Init => Sound  BY SoundInit
<1>2. Sound /\ [Next]_vars => Sound'  BY SoundStep DEF DistinctLegs
<1>3. Sound => InStep
  <2> SUFFICES ASSUME Sound, pending = <<>>, kind \in Shipped, NEW s \in Syms \ diverged
               PROVE  pos[s].qty = Believed(s)
    BY DEF InStep
  <2>1. kind \in Kinds  BY DEF Sound, Fits, EngineFits
  <2>2. LegsDiffer  BY <2>1 DEF LegsDiffer, DistinctLegs
  <2>3. pos[s].qty + Due(pending, s) = Believed(s)  BY <2>2 DEF Sound, Agreed
  <2>4. Due(pending, s) = 0  BY Queues
  <2>5. pos[s].qty \in Int
    BY <2>1 DEF Sound, Fits, BooksFit, Held, Position, Syms, Symbols
  <2> QED  BY <2>3, <2>4, <2>5
<1> QED  BY <1>1, <1>2, <1>3, PTL DEF Spec

(* The gap strategies, VWAP and the first-hour momentum hold nothing at    *)
(* the end of a bar at or after their square-off time, in any symbol they  *)
(* are right about.                                                        *)
THEOREM FlatAtSquareOff == ASSUME TwoLegs PROVE Spec => []SquaredOff
<1>1. Init => Sound  BY SoundInit
<1>2. Sound /\ [Next]_vars => Sound'  BY SoundStep
<1>3. Sound => SquaredOff
  <2> SUFFICES ASSUME Sound, kind \in EarlyOnly, bar # NoBar, pending = <<>>,
                      bar.time >= SquareOff, bar.symbol \notin diverged
               PROVE  pos[bar.symbol].qty = 0
    BY DEF SquaredOff, EarlyOnly
  <2>1. kind \in Kinds /\ bar.symbol \in Syms  BY DEF Sound, Fits, EngineFits, BarFits
  <2>2. kind \in Shipped /\ kind \in Intraday /\ LegsDiffer
    BY DEF EarlyOnly, Shipped, Intraday, LegsDiffer, Spreaders
  <2>3. pos[bar.symbol].qty + Due(pending, bar.symbol) = Believed(bar.symbol)
    BY <2>1, <2>2 DEF Sound, Agreed
  <2>4. Due(pending, bar.symbol) = 0  BY Queues
  <2>5. mind[bar.symbol].side = "FLAT"  BY DEF Sound, FlatByThen
  <2>6. Believed(bar.symbol) = 0  BY <2>2, <2>5 DEF Believed, Intraday, Swing
  <2>7. pos[bar.symbol].qty \in Int
    BY <2>1 DEF Sound, Fits, BooksFit, Held, Position, Syms, Symbols
  <2> QED  BY <2>3, <2>4, <2>6, <2>7
<1> QED  BY <1>1, <1>2, <1>3, PTL DEF Spec
-----------------------------------------------------------------------------
(* The books. *)

NetAt(p) == SumOver([s \in Symbols |-> Net(p[s])])
BookedAt(p) == SumOver([s \in Symbols |-> p[s].realized])
PaidAt(p) == SumOver([s \in Symbols |-> p[s].paid])
Balanced == cash + NetAt(pos) + PaidAt(pos) = InitialCash + BookedAt(pos)

LEMMA HeldInts ==
    ASSUME NEW p, Held(p) PROVE Net(p) \in Int /\ p.realized \in Int /\ p.paid \in Int
BY DEF Held, Position, Net

LEMMA AllSums ==
    ASSUME IsFiniteSet(Symbols), NEW p, \A s \in Symbols : Held(p[s])
    PROVE  NetAt(p) \in Int /\ BookedAt(p) \in Int /\ PaidAt(p) \in Int
<1>1. /\ [s \in Symbols |-> Net(p[s])] \in [Symbols -> Int]
      /\ [s \in Symbols |-> p[s].realized] \in [Symbols -> Int]
      /\ [s \in Symbols |-> p[s].paid] \in [Symbols -> Int]
  BY HeldInts
<1> QED  BY <1>1, SumInt DEF NetAt, BookedAt, PaidAt

(* A fill moves the three sums by what it moves in its position. *)
LEMMA SumsMove ==
    ASSUME IsFiniteSet(Symbols), NEW p, NEW r, NEW t \in Symbols,
           \A s \in Symbols : Held(p[s]) /\ Held(r[s]),
           \A s \in Symbols \ {t} : r[s] = p[s]
    PROVE  /\ NetAt(r) = NetAt(p) + (Net(r[t]) - Net(p[t]))
           /\ BookedAt(r) = BookedAt(p) + (r[t].realized - p[t].realized)
           /\ PaidAt(r) = PaidAt(p) + (r[t].paid - p[t].paid)
<1>1. NetAt(r) = NetAt(p) + (Net(r[t]) - Net(p[t]))
  <2> DEFINE f == [s \in Symbols |-> Net(p[s])]
             h == [s \in Symbols |-> Net(r[s])]
  <2>1. f \in [Symbols -> Int] /\ h \in [Symbols -> Int]  BY HeldInts
  <2>2. \A s \in Symbols \ {t} : h[s] = f[s]  OBVIOUS
  <2>3. f[t] = Net(p[t]) /\ h[t] = Net(r[t])  OBVIOUS
  <2> HIDE DEF f, h
  <2>4. SumOver(h) = SumOver(f) + (h[t] - f[t])  BY <2>1, <2>2, OneMoved
  <2> QED  BY <2>3, <2>4 DEF NetAt, f, h
<1>2. BookedAt(r) = BookedAt(p) + (r[t].realized - p[t].realized)
  <2> DEFINE f == [s \in Symbols |-> p[s].realized]
             h == [s \in Symbols |-> r[s].realized]
  <2>1. f \in [Symbols -> Int] /\ h \in [Symbols -> Int]  BY HeldInts
  <2>2. \A s \in Symbols \ {t} : h[s] = f[s]  OBVIOUS
  <2>3. f[t] = p[t].realized /\ h[t] = r[t].realized  OBVIOUS
  <2> HIDE DEF f, h
  <2>4. SumOver(h) = SumOver(f) + (h[t] - f[t])  BY <2>1, <2>2, OneMoved
  <2> QED  BY <2>3, <2>4 DEF BookedAt, f, h
<1>3. PaidAt(r) = PaidAt(p) + (r[t].paid - p[t].paid)
  <2> DEFINE f == [s \in Symbols |-> p[s].paid]
             h == [s \in Symbols |-> r[s].paid]
  <2>1. f \in [Symbols -> Int] /\ h \in [Symbols -> Int]  BY HeldInts
  <2>2. \A s \in Symbols \ {t} : h[s] = f[s]  OBVIOUS
  <2>3. f[t] = p[t].paid /\ h[t] = r[t].paid  OBVIOUS
  <2> HIDE DEF f, h
  <2>4. SumOver(h) = SumOver(f) + (h[t] - f[t])  BY <2>1, <2>2, OneMoved
  <2> QED  BY <2>3, <2>4 DEF PaidAt, f, h
<1> QED  BY <1>1, <1>2, <1>3

LEMMA BalanceInit == ASSUME IsFiniteSet(Symbols), Init PROVE Balanced
<1>1. cash = InitialCash /\ pos = [s \in Symbols |-> NoPosition]  BY DEF Init
<1>2. \A s \in Symbols : Net(pos[s]) = 0 /\ pos[s].realized = 0 /\ pos[s].paid = 0
  BY <1>1 DEF Net, NoPosition
<1>3. /\ [s \in Symbols |-> Net(pos[s])] = [s \in Symbols |-> 0]
      /\ [s \in Symbols |-> pos[s].realized] = [s \in Symbols |-> 0]
      /\ [s \in Symbols |-> pos[s].paid] = [s \in Symbols |-> 0]
  BY <1>2
<1>4. NetAt(pos) = 0 /\ BookedAt(pos) = 0 /\ PaidAt(pos) = 0
  BY <1>3, SumZero DEF NetAt, BookedAt, PaidAt
<1> QED  BY <1>1, <1>4, CashAssumption DEF Balanced

LEMMA BalanceStep ==
    ASSUME TwoLegs, IsFiniteSet(Symbols), Sound, Balanced, [Next]_vars PROVE Balanced'
<1>1. Sound'  BY SoundStep
<1>2. /\ \A s \in Symbols : Held(pos[s]) /\ Held(pos'[s])
      /\ DOMAIN pos = Symbols /\ cash \in Int
  BY <1>1 DEF Sound, Fits, BooksFit
<1>3. NetAt(pos) \in Int /\ BookedAt(pos) \in Int /\ PaidAt(pos) \in Int
  BY <1>2, AllSums
<1>4. ASSUME cash' = cash,
             \A s \in Symbols : /\ Net(pos'[s]) = Net(pos[s])
                                /\ pos'[s].realized = pos[s].realized
                                /\ pos'[s].paid = pos[s].paid
      PROVE  Balanced'
  <2>1. /\ [s \in Symbols |-> Net(pos'[s])] = [s \in Symbols |-> Net(pos[s])]
        /\ [s \in Symbols |-> pos'[s].realized] = [s \in Symbols |-> pos[s].realized]
        /\ [s \in Symbols |-> pos'[s].paid] = [s \in Symbols |-> pos[s].paid]
    BY <1>4
  <2>2. NetAt(pos') = NetAt(pos) /\ BookedAt(pos') = BookedAt(pos) /\ PaidAt(pos') = PaidAt(pos)
    BY <2>1 DEF NetAt, BookedAt, PaidAt
  <2>3. NetAt(pos)' = NetAt(pos') /\ BookedAt(pos)' = BookedAt(pos')
        /\ PaidAt(pos)' = PaidAt(pos')
    BY DEF NetAt, BookedAt, PaidAt
  <2> QED  BY <1>4, <2>2, <2>3 DEF Balanced
<1>5. ASSUME NEW slot \in Calendar[kind], NEW i \in 1..Len(Universe[kind]),
             NEW close \in Prices, NEW fact \in Facts[kind], NextBar(slot, i, close, fact)
      PROVE  Balanced'
  <2>1. pos' = pos /\ cash' = cash  BY <1>5 DEF NextBar
  <2> QED  BY <1>4, <2>1
<1>6. CASE Reject \/ Execute
  <2> DEFINE n == Head(pending)
             t == n.symbol
             price == FillPrice(n, bar)
             flow == CashFlow(n.side, n.qty, price)
  <2>1. pending # <<>> /\ t \in Symbols  BY <1>6, Handled DEF Sound
  <2>2. n.side \in {"BUY", "SELL"} /\ n.qty \in Nat \ {0} /\ price \in Nat
    BY <2>1, OrderFits DEF Sound
  <2>3. Filled \/ Unfilled  BY <1>6, FilledOrNot DEF Sound
  <2>4. CASE Unfilled
    <3>1. pos' = pos /\ cash' = cash  BY <2>4 DEF Unfilled
    <3> QED  BY <1>4, <3>1
  <2>5. CASE Filled
    <3>1. /\ pos' = [pos EXCEPT ![t] = AfterFill(pos[t], n.side, n.qty, price)]
          /\ cash' = cash + flow /\ ~ Refuses(pos[t], n.side, n.qty)
      BY <2>5 DEF Filled
    <3> HIDE DEF n, price, flow
    <3>2. Moves(pos[t], AfterFill(pos[t], n.side, n.qty, price), flow)
      BY <1>2, <2>1, <2>2, <3>1, FillMoves DEF flow
    <3>3. /\ pos'[t] = AfterFill(pos[t], n.side, n.qty, price)
          /\ \A s \in Symbols \ {t} : pos'[s] = pos[s]
      BY <1>2, <2>1, <3>1
    <3>4. flow + Net(pos'[t]) + pos'[t].paid
              = Net(pos[t]) + pos[t].paid + (pos'[t].realized - pos[t].realized)
      BY <3>2, <3>3 DEF Moves
    <3>5. /\ NetAt(pos') = NetAt(pos) + (Net(pos'[t]) - Net(pos[t]))
          /\ BookedAt(pos') = BookedAt(pos) + (pos'[t].realized - pos[t].realized)
          /\ PaidAt(pos') = PaidAt(pos) + (pos'[t].paid - pos[t].paid)
      BY <1>2, <2>1, <3>3, SumsMove, ZenonT(30)
    <3>6. /\ Net(pos'[t]) \in Int /\ pos'[t].realized \in Int /\ pos'[t].paid \in Int
          /\ Net(pos[t]) \in Int /\ pos[t].realized \in Int /\ pos[t].paid \in Int
      BY <1>2, <2>1, HeldInts
    <3>7. flow \in Int  BY <2>2, FlowInt DEF flow
    <3>8. NetAt(pos)' = NetAt(pos') /\ BookedAt(pos)' = BookedAt(pos')
          /\ PaidAt(pos)' = PaidAt(pos')
      BY DEF NetAt, BookedAt, PaidAt
    <3>9. InitialCash \in Int  BY CashAssumption
    <3>10. cash + NetAt(pos) + PaidAt(pos) = InitialCash + BookedAt(pos)  BY DEF Balanced
    <3>11. cash' + NetAt(pos') + PaidAt(pos') = InitialCash + BookedAt(pos')
      <4> DEFINE c == cash
                 cc == cash'
                 nn == NetAt(pos)
                 nm == NetAt(pos')
                 bb == BookedAt(pos)
                 bm == BookedAt(pos')
                 pp == PaidAt(pos)
                 pm == PaidAt(pos')
                 n0 == Net(pos[t])
                 n1 == Net(pos'[t])
                 r0 == pos[t].realized
                 r1 == pos'[t].realized
                 p0 == pos[t].paid
                 p1 == pos'[t].paid
      <4>1. /\ c \in Int /\ nn \in Int /\ bb \in Int /\ pp \in Int /\ flow \in Int
            /\ n0 \in Int /\ n1 \in Int /\ r0 \in Int /\ r1 \in Int
            /\ p0 \in Int /\ p1 \in Int /\ InitialCash \in Int
        BY <1>2, <1>3, <3>6, <3>7, <3>9
      <4>2. cc = c + flow /\ nm = nn + (n1 - n0) /\ bm = bb + (r1 - r0) /\ pm = pp + (p1 - p0)
        BY <3>1, <3>5
      <4>3. flow + n1 + p1 = n0 + p0 + (r1 - r0)  BY <3>4
      <4>4. c + nn + pp = InitialCash + bb  BY <3>10
      <4> HIDE DEF c, cc, nn, nm, bb, bm, pp, pm, n0, n1, r0, r1, p0, p1
      <4>5. cc + nm + pm = InitialCash + bm  BY <4>1, <4>2, <4>3, <4>4
      <4> QED  BY <4>5 DEF cc, nm, pm, bm
    <3> QED  BY <3>8, <3>11 DEF Balanced
  <2> QED  BY <2>3, <2>4, <2>5
<1>7. CASE Mark
  <2>1. cash' = cash /\ pos' = [s \in Symbols |-> Marked(pos[s], latest[s])]
    BY <1>7 DEF Mark
  <2>2. ASSUME NEW s \in Symbols
        PROVE  /\ Net(pos'[s]) = Net(pos[s])
               /\ pos'[s].realized = pos[s].realized
               /\ pos'[s].paid = pos[s].paid
    <3>1. latest[s] \in Nat
      <4>1. latest[s] \in Prices \cup {0}  BY DEF Sound, Fits, EngineFits
      <4>2. Prices \subseteq Nat /\ 0 \in Nat  BY FeedAssumption
      <4>3. Prices \cup {0} \subseteq Nat  BY <4>2, Zenon
      <4> QED  BY <4>1, <4>3, Zenon
    <3>2. pos'[s] = Marked(pos[s], latest[s])  BY <2>1
    <3> QED  BY <1>2, <3>1, <3>2, MarkKeeps
  <2> QED  BY <1>4, <2>1, <2>2
<1>8. CASE UNCHANGED vars
  <2>1. pos' = pos /\ cash' = cash  BY <1>8 DEF vars
  <2> QED  BY <1>4, <2>1
<1> QED  BY <1>5, <1>6, <1>7, <1>8 DEF Next

(* Cash and the cost of what is held make up the initial cash, the booked  *)
(* P&L and the fees of the fills that booked none, for any orders, prices, *)
(* rates and number of symbols.                                            *)
THEOREM BooksAddUp == ASSUME TwoLegs, IsFiniteSet(Symbols) PROVE Spec => []BooksBalance
<1> DEFINE I == Sound /\ Balanced
<1>1. Init => I  BY SoundInit, BalanceInit
<1>2. I /\ [Next]_vars => I'  BY SoundStep, BalanceStep
<1>3. I => BooksBalance
  <2> SUFFICES ASSUME Sound, Balanced PROVE BooksBalance  OBVIOUS
  <2>1. \A s \in Symbols : Held(pos[s])  BY DEF Sound, Fits, BooksFit
  <2>2. NetAt(pos) \in Int /\ BookedAt(pos) \in Int /\ PaidAt(pos) \in Int
    BY <2>1, AllSums
  <2>3. cash \in Int /\ InitialCash \in Int
    BY CashAssumption DEF Sound, Fits, BooksFit
  <2>4. cash + NetAt(pos) + PaidAt(pos) = InitialCash + BookedAt(pos)  BY DEF Balanced
  <2>5. cash + NetAt(pos) = InitialCash + BookedAt(pos) - PaidAt(pos)
    BY <2>2, <2>3, <2>4
  <2>6. NetAt(pos) = SumOver([s \in Symbols |-> IF pos[s].qty < 0 THEN 0 - pos[s].cost
                                                ELSE pos[s].cost])
    BY DEF NetAt, Net
  <2>7. BookedAt(pos) = RealizedPnL /\ PaidAt(pos) = SumOver([s \in Symbols |-> pos[s].paid])
    BY DEF BookedAt, PaidAt, RealizedPnL
  <2>8. TypeOK  BY SoundTypes
  <2> QED  BY <2>5, <2>6, <2>7, <2>8, Zenon DEF BooksBalance
<1> HIDE DEF I
<1> QED  BY <1>1, <1>2, <1>3, PTL DEF Spec
-----------------------------------------------------------------------------
(* The report. *)

LEMMA Prefix ==
    ASSUME NEW T, NEW fl \in Seq(T), NEW f \in T
    PROVE  /\ Append(fl, f) \in Seq(T) /\ Len(Append(fl, f)) = Len(fl) + 1 /\ Len(fl) \in Nat
           /\ \A i \in 1..Len(fl) : Append(fl, f)[i] = fl[i] /\ fl[i] \in T
           /\ Append(fl, f)[Len(fl) + 1] = f
           /\ \A k \in 0..Len(fl) : SubSeq(Append(fl, f), 1, k) = SubSeq(fl, 1, k)
           /\ SubSeq(fl, 1, Len(fl)) = fl
<1> DEFINE g == Append(fl, f)
<1>1. g \in Seq(T) /\ Len(g) = Len(fl) + 1 /\ Len(fl) \in Nat  OBVIOUS
<1>2. \A i \in 1..Len(fl) : g[i] = fl[i] /\ fl[i] \in T  OBVIOUS
<1>3. g[Len(fl) + 1] = f  OBVIOUS
<1>4. SubSeq(fl, 1, Len(fl)) = fl  BY SubSeqFull
<1>5. ASSUME NEW k \in 0..Len(fl) PROVE SubSeq(g, 1, k) = SubSeq(fl, 1, k)
  <2>1. k \in 0..Len(g)  BY <1>1
  <2>2. SubSeq(g, 1, k) = Restrict(g, 1..k) /\ SubSeq(fl, 1, k) = Restrict(fl, 1..k)
    BY <1>1, <2>1, SubSeqRestrict
  <2>3. \A i \in 1..k : g[i] = fl[i]  BY <1>2
  <2> HIDE DEF g
  <2>4. Restrict(g, 1..k) = Restrict(fl, 1..k)  BY <2>3 DEF Restrict
  <2> QED  BY <2>2, <2>4
<1> HIDE DEF g
<1> QED  BY <1>1, <1>2, <1>3, <1>4, <1>5 DEF g

(* A sum over places grows by the value at the place added, if one is. *)
LEMMA SumGrows ==
    ASSUME NEW P, IsFiniteSet(P), NEW a, a \notin P, NEW Q, Q = P \/ Q = P \cup {a},
           NEW k, NEW h, \A i \in P : k[i] \in Int /\ h[i] = k[i],
           a \in Q => h[a] \in Int
    PROVE  /\ SumFunctionOnSet(k, P) \in Int
           /\ a \notin Q => SumFunctionOnSet(h, Q) = SumFunctionOnSet(k, P)
           /\ a \in Q => SumFunctionOnSet(h, Q) = SumFunctionOnSet(k, P) + h[a]
<1>3. IsFiniteSet(Q)  BY FS_AddElement
<1>4. SumFunctionOnSet(k, P) \in Int  BY SumType
<1>5. SumFunctionOnSet(h, P) = SumFunctionOnSet(k, P)  BY SumEqual
<1>7. CASE Q = P  BY <1>4, <1>5, <1>7
<1>8. CASE Q = P \cup {a}
  <2>1. Q \ {a} = P  BY <1>8
  <2>2. \A i \in Q : h[i] \in Int  BY <1>8
  <2>3. a \in Q  BY <1>8
  <2>4. SumFunctionOnSet(h, Q) = h[a] + SumFunctionOnSet(h, Q \ {a})
    BY <1>3, <2>2, <2>3, SumStep
  <2>5. h[a] \in Int  BY <2>2, <2>3
  <2>6. SumFunctionOnSet(h, Q \ {a}) = SumFunctionOnSet(k, P)  BY <1>5, <2>1, Zenon
  <2>7. SumFunctionOnSet(h, Q) = h[a] + SumFunctionOnSet(k, P)  BY <2>4, <2>6, Zenon
  <2>8. \A x, y \in Int : x + y = y + x  OBVIOUS
  <2>9. SumFunctionOnSet(h, Q) = SumFunctionOnSet(k, P) + h[a]
    BY <1>4, <2>5, <2>7, <2>8, Zenon
  <2> QED  BY <1>4, <2>3, <2>9, Zenon
<1> QED  BY <1>7, <1>8

LEMMA FillParts ==
    ASSUME NEW f \in Fill
    PROVE  /\ f.symbol \in Symbols /\ f.side \in {"BUY", "SELL"} /\ f.qty \in Nat \ {0}
           /\ f.price \in Nat /\ f.fees \in Nat
BY DEF Fill

LEMMA PlacesGrow ==
    ASSUME NEW fl \in Seq(Fill), NEW f \in Fill, NEW s, NEW side
    PROVE  /\ Places(fl, s, side) \subseteq 1..Len(fl)
           /\ Places(Append(fl, f), s, side) =
                  IF f.symbol = s /\ f.side = side
                  THEN Places(fl, s, side) \cup {Len(fl) + 1} ELSE Places(fl, s, side)
<1> DEFINE g == Append(fl, f)
           N == Len(fl)
<1>1. /\ Len(g) = N + 1 /\ N \in Nat /\ g[N + 1] = f
      /\ \A i \in 1..N : g[i] = fl[i]
  BY Prefix
<1>2. \A i : i \in 1..(N + 1) <=> i \in 1..N \/ i = N + 1  BY <1>1
<1>3. \A i \in 1..N : i # N + 1  BY <1>1
<1> HIDE DEF g, N
<1>4. Places(g, s, side) = {i \in 1..(N + 1) : g[i].symbol = s /\ g[i].side = side}
  BY <1>1 DEF Places
<1>5. Places(fl, s, side) = {i \in 1..N : fl[i].symbol = s /\ fl[i].side = side}
  BY DEF Places, N
<1>6. Places(g, s, side) = IF f.symbol = s /\ f.side = side
                           THEN Places(fl, s, side) \cup {N + 1} ELSE Places(fl, s, side)
  BY <1>1, <1>2, <1>3, <1>4, <1>5
<1> QED  BY <1>5, <1>6 DEF g, N

(* The shares bought or sold grow with each fill. *)
LEMMA SharesGrow ==
    ASSUME NEW fl \in Seq(Fill), NEW f \in Fill, NEW s, NEW side
    PROVE  Shares(Append(fl, f), s, side) =
               Shares(fl, s, side) + (IF f.symbol = s /\ f.side = side THEN f.qty ELSE 0)
<1> DEFINE g == Append(fl, f)
           N == Len(fl)
           P == Places(fl, s, side)
           Q == Places(g, s, side)
           k == [i \in 1..N |-> fl[i].qty]
           h == [i \in 1..(N + 1) |-> g[i].qty]
<1>1. /\ Len(g) = N + 1 /\ N \in Nat /\ g[N + 1] = f
      /\ \A i \in 1..N : g[i] = fl[i] /\ fl[i] \in Fill
  BY Prefix
<1>2. P \subseteq 1..N /\ Q = IF f.symbol = s /\ f.side = side THEN P \cup {N + 1} ELSE P
  BY PlacesGrow
<1>3. N + 1 \in 1..(N + 1) /\ \A i \in 1..N : i \in 1..(N + 1)  BY <1>1
<1> HIDE DEF g, N, P, Q
<1>4. \A i \in 1..N : k[i] \in Int /\ h[i] = k[i]  BY <1>1, <1>3, FillParts
<1>5. h[N + 1] = f.qty /\ f.qty \in Int  BY <1>1, <1>3, FillParts
<1> HIDE DEF k, h
<1>6. N + 1 \notin P  BY <1>1, <1>2
<1>7. SumFunctionOnSet(h, Q) = SumFunctionOnSet(k, P) + (IF N + 1 \in Q THEN h[N + 1] ELSE 0)
  <2>1. Q = P \/ Q = P \cup {N + 1}  BY <1>2
  <2>2. \A i \in P : k[i] \in Int /\ h[i] = k[i]  BY <1>2, <1>4
  <2>3. IsFiniteSet(P)
    <3>1. IsFiniteSet(1..N)  BY <1>1, FS_Interval
    <3> QED  BY <1>2, <3>1, FS_Subset
  <2>4. N + 1 \in Q => h[N + 1] \in Int  BY <1>5
  <2> QED  BY <1>5, <1>6, <2>1, <2>2, <2>3, <2>4, SumGrows
<1>8. Shares(fl, s, side) = SumFunctionOnSet(k, P)  BY DEF Shares, k, P, N
<1>9. Shares(g, s, side) = SumFunctionOnSet(h, Q)  BY <1>1 DEF Shares, h, Q
<1>10. N + 1 \in Q <=> f.symbol = s /\ f.side = side  BY <1>2, <1>6
<1> QED  BY <1>5, <1>7, <1>8, <1>9, <1>10 DEF g

LEMMA SharesNat ==
    ASSUME NEW fl \in Seq(Fill), NEW s, NEW side
    PROVE  /\ Shares(fl, s, side) \in Nat
           /\ Places(fl, s, side) = {} => Shares(fl, s, side) = 0
<1> DEFINE P == Places(fl, s, side)
           k == [i \in 1..Len(fl) |-> fl[i].qty]
<1>1. IsFiniteSet(1..Len(fl)) /\ P \subseteq 1..Len(fl)  BY FS_Interval DEF Places
<1>2. IsFiniteSet(P)  BY <1>1, FS_Subset
<1>3. \A i \in P : k[i] \in Nat
  <2>1. \A i \in 1..Len(fl) : fl[i] \in Fill  OBVIOUS
  <2> QED  BY <1>1, <2>1, FillParts
<1>4. Shares(fl, s, side) = SumFunctionOnSet(k, P)  BY DEF Shares
<1> HIDE DEF k
<1> QED  BY <1>2, <1>3, <1>4, SumNat, SumEmpty

LEMMA Bounds ==
    ASSUME NEW a \in Int, NEW b \in Int
    PROVE  /\ Min({a, b}) = IF a <= b THEN a ELSE b
           /\ Max({a, b}) = IF a <= b THEN b ELSE a
<1>1. Min({a, b}) \in {a, b} /\ \A y \in {a, b} : Min({a, b}) <= y
  <2>1. \E x \in {a, b} : \A y \in {a, b} : x <= y  OBVIOUS
  <2> QED  BY <2>1 DEF Min
<1>2. Max({a, b}) \in {a, b} /\ \A y \in {a, b} : Max({a, b}) >= y
  <2>1. \E x \in {a, b} : \A y \in {a, b} : x >= y  OBVIOUS
  <2> QED  BY <2>1 DEF Max
<1> QED  BY <1>1, <1>2

(* What a purchase of q shares pays of a sale once the earlier ones have   *)
(* paid what they can.                                                     *)
Used(q, remaining) == Max({0, Min({q, remaining})})

LEMMA UsedIs ==
    ASSUME NEW q \in Nat, NEW r \in Int
    PROVE  Used(q, r) = IF r <= 0 THEN 0 ELSE IF q <= r THEN q ELSE r
<1>1. Min({q, r}) = IF q <= r THEN q ELSE r  BY Bounds
<1>2. Min({q, r}) \in Int  BY <1>1
<1>3. Max({0, Min({q, r})}) = IF 0 <= Min({q, r}) THEN Min({q, r}) ELSE 0
  BY <1>2, Bounds
<1> QED  BY <1>1, <1>3 DEF Used

(* A new purchase pays last. *)
LEMMA CostGrows ==
    ASSUME NEW fl \in Seq(Fill), NEW f \in Fill, NEW s, NEW n \in Nat
    PROVE  /\ CostBasis(fl, s, n) \in Int
           /\ Places(fl, s, "BUY") = {} => CostBasis(fl, s, n) = 0
           /\ CostBasis(Append(fl, f), s, n) =
                  CostBasis(fl, s, n)
                      + (IF f.symbol = s /\ f.side = "BUY"
                         THEN Used(f.qty, n - Shares(fl, s, "BUY")) * f.price ELSE 0)
<1> DEFINE g == Append(fl, f)
           N == Len(fl)
           P == Places(fl, s, "BUY")
           Q == Places(g, s, "BUY")
           k == [i \in 1..N |->
                    Used(fl[i].qty, n - Shares(SubSeq(fl, 1, i - 1), s, "BUY")) * fl[i].price]
           h == [i \in 1..(N + 1) |->
                    Used(g[i].qty, n - Shares(SubSeq(g, 1, i - 1), s, "BUY")) * g[i].price]
<1>1. /\ Len(g) = N + 1 /\ N \in Nat /\ g[N + 1] = f
      /\ \A i \in 1..N : g[i] = fl[i] /\ fl[i] \in Fill
      /\ \A i \in 0..N : SubSeq(g, 1, i) = SubSeq(fl, 1, i)
      /\ SubSeq(fl, 1, N) = fl
  BY Prefix
<1>2. P \subseteq 1..N /\ Q = IF f.symbol = s /\ f.side = "BUY" THEN P \cup {N + 1} ELSE P
  BY PlacesGrow
<1>3. N + 1 \in 1..(N + 1) /\ \A i \in 1..N : i \in 1..(N + 1) /\ i - 1 \in 0..N
  BY <1>1
<1>4. \A i \in 0..N : SubSeq(fl, 1, i) \in Seq(Fill)
  BY <1>1, SubSeqProperties
<1>5. CostBasis(fl, s, n) = SumFunctionOnSet(k, P)  BY DEF CostBasis, Used
<1>6. CostBasis(g, s, n) = SumFunctionOnSet(h, Q)  BY <1>1 DEF CostBasis, Used
<1> HIDE DEF g, N, P, Q
<1>7. ASSUME NEW i \in 1..N PROVE k[i] \in Int /\ h[i] = k[i]
  <2> DEFINE r == n - Shares(SubSeq(fl, 1, i - 1), s, "BUY")
  <2>1. r \in Int
    <3>1. SubSeq(fl, 1, i - 1) \in Seq(Fill)  BY <1>3, <1>4
    <3>2. Shares(SubSeq(fl, 1, i - 1), s, "BUY") \in Nat  BY <3>1, SharesNat
    <3> QED  BY <3>2
  <2>2. fl[i].qty \in Nat /\ fl[i].price \in Nat  BY <1>1, FillParts
  <2>3. Used(fl[i].qty, r) \in Int  BY <2>1, <2>2, UsedIs
  <2>4. k[i] = Used(fl[i].qty, r) * fl[i].price  OBVIOUS
  <2>5. h[i] = k[i]  BY <1>1, <1>3
  <2> HIDE DEF r, k
  <2> QED  BY <2>2, <2>3, <2>4, <2>5
<1>8. h[N + 1] = Used(f.qty, n - Shares(fl, s, "BUY")) * f.price
  <2>1. (N + 1) - 1 = N /\ N \in 0..N  BY <1>1
  <2> QED  BY <1>1, <1>3, <2>1
<1>9. h[N + 1] \in Int
  <2> DEFINE r == n - Shares(fl, s, "BUY")
  <2>1. r \in Int /\ f.qty \in Nat /\ f.price \in Nat  BY SharesNat, FillParts
  <2>2. Used(f.qty, r) \in Int  BY <2>1, UsedIs
  <2> HIDE DEF r, h
  <2> QED  BY <1>8, <2>1, <2>2 DEF r
<1> HIDE DEF k, h
<1>10. /\ SumFunctionOnSet(k, P) \in Int
       /\ SumFunctionOnSet(h, Q) = SumFunctionOnSet(k, P) + (IF N + 1 \in Q THEN h[N + 1] ELSE 0)
  <2>1. Q = P \/ Q = P \cup {N + 1}  BY <1>2
  <2>2. \A i \in P : k[i] \in Int /\ h[i] = k[i]  BY <1>2, <1>7
  <2>3. IsFiniteSet(P)
    <3>1. IsFiniteSet(1..N)  BY <1>1, FS_Interval
    <3> QED  BY <1>2, <3>1, FS_Subset
  <2>4. N + 1 \notin P  BY <1>1, <1>2
  <2>5. N + 1 \in Q => h[N + 1] \in Int  BY <1>9
  <2> QED  BY <1>9, <2>1, <2>2, <2>3, <2>4, <2>5, SumGrows
<1>11. N + 1 \in Q <=> f.symbol = s /\ f.side = "BUY"
  <2>1. N + 1 \notin P  BY <1>1, <1>2
  <2> QED  BY <1>2, <2>1
<1>12. P = {} => SumFunctionOnSet(k, P) = 0  BY SumEmpty
<1> QED  BY <1>5, <1>6, <1>8, <1>10, <1>11, <1>12 DEF g, P

(* Runs the report is right about. *)
OnePriceOf(fl) ==
    \A i, j \in 1..Len(fl) :
        fl[i].symbol = fl[j].symbol /\ fl[i].side = "BUY" /\ fl[j].side = "BUY"
            => fl[i].price = fl[j].price
OnlyClosesOf(fl) ==
    \A k \in 1..Len(fl) :
        Shares(SubSeq(fl, 1, k), fl[k].symbol, "SELL")
            <= Shares(SubSeq(fl, 1, k), fl[k].symbol, "BUY")
Plain(fl) == OnePriceOf(fl) /\ OnlyClosesOf(fl)

LEMMA PlainGrows ==
    ASSUME NEW fl \in Seq(Fill), NEW f \in Fill, Plain(Append(fl, f))
    PROVE  /\ Plain(fl)
           /\ f.side = "BUY" => \A i \in Places(fl, f.symbol, "BUY") : fl[i].price = f.price
           /\ f.side = "SELL" => Shares(fl, f.symbol, "SELL") + f.qty
                                     <= Shares(fl, f.symbol, "BUY")
<1> DEFINE g == Append(fl, f)
           N == Len(fl)
<1>1. /\ g \in Seq(Fill) /\ Len(g) = N + 1 /\ N \in Nat /\ g[N + 1] = f
      /\ \A i \in 1..N : g[i] = fl[i] /\ fl[i] \in Fill
      /\ \A i \in 0..N : SubSeq(g, 1, i) = SubSeq(fl, 1, i)
  BY Prefix
<1>2. SubSeq(g, 1, N + 1) = g  BY <1>1, SubSeqFull
<1>3. N + 1 \in 1..(N + 1) /\ \A i \in 1..N : i \in 1..(N + 1) /\ i \in 0..N
  BY <1>1
<1>4. /\ Shares(g, f.symbol, "BUY") =
             Shares(fl, f.symbol, "BUY") + (IF f.side = "BUY" THEN f.qty ELSE 0)
      /\ Shares(g, f.symbol, "SELL") =
             Shares(fl, f.symbol, "SELL") + (IF f.side = "SELL" THEN f.qty ELSE 0)
  BY SharesGrow
<1> HIDE DEF g
<1>5. OnePriceOf(g) /\ OnlyClosesOf(g)  BY DEF Plain, g
<1>6. OnePriceOf(fl)
  <2> SUFFICES ASSUME NEW i \in 1..N, NEW j \in 1..N, fl[i].symbol = fl[j].symbol,
                      fl[i].side = "BUY", fl[j].side = "BUY"
               PROVE  fl[i].price = fl[j].price
    BY DEF OnePriceOf
  <2> QED  BY <1>1, <1>3, <1>5 DEF OnePriceOf
<1>7. OnlyClosesOf(fl)
  <2> SUFFICES ASSUME NEW k \in 1..N
               PROVE  Shares(SubSeq(fl, 1, k), fl[k].symbol, "SELL")
                          <= Shares(SubSeq(fl, 1, k), fl[k].symbol, "BUY")
    BY DEF OnlyClosesOf
  <2>1. k \in 1..Len(g) /\ g[k] = fl[k] /\ SubSeq(g, 1, k) = SubSeq(fl, 1, k)
    BY <1>1, <1>3
  <2>2. Shares(SubSeq(g, 1, k), g[k].symbol, "SELL")
            <= Shares(SubSeq(g, 1, k), g[k].symbol, "BUY")
    BY <1>5, <2>1 DEF OnlyClosesOf
  <2> QED  BY <2>1, <2>2
<1>8. ASSUME f.side = "BUY", NEW i \in Places(fl, f.symbol, "BUY") PROVE fl[i].price = f.price
  <2>1. i \in 1..N /\ fl[i].symbol = f.symbol /\ fl[i].side = "BUY"  BY DEF Places
  <2>2. i \in 1..Len(g) /\ N + 1 \in 1..Len(g) /\ g[i] = fl[i]  BY <1>1, <1>3, <2>1
  <2> QED  BY <1>1, <1>5, <1>8, <2>1, <2>2 DEF OnePriceOf
<1>9. ASSUME f.side = "SELL"
      PROVE  Shares(fl, f.symbol, "SELL") + f.qty <= Shares(fl, f.symbol, "BUY")
  <2>1. N + 1 \in 1..Len(g)  BY <1>1, <1>3
  <2>2. Shares(g, f.symbol, "SELL") <= Shares(g, f.symbol, "BUY")
    BY <1>1, <1>2, <1>5, <2>1 DEF OnlyClosesOf
  <2>3. Shares(fl, f.symbol, "BUY") \in Nat /\ Shares(fl, f.symbol, "SELL") \in Nat
    BY SharesNat
  <2> QED  BY <1>4, <1>9, <2>2, <2>3
<1> QED  BY <1>6, <1>7, <1>8, <1>9 DEF Plain

(* A sale adds its P&L to the report, a purchase nothing. *)
LEMMA ReportGrows ==
    ASSUME NEW fl \in Seq(Fill), NEW f \in Fill
    PROVE  /\ ReportedPnL(fl) \in Int
           /\ f.side = "BUY" => ReportedPnL(Append(fl, f)) = ReportedPnL(fl)
           /\ f.side = "SELL" =>
                  ReportedPnL(Append(fl, f)) =
                      ReportedPnL(fl) + (f.qty * f.price - f.fees - CostBasis(fl, f.symbol, f.qty))
<1> DEFINE g == Append(fl, f)
           N == Len(fl)
           P == Sales(fl)
           Q == Sales(g)
           k == TradePnLs(fl)
           h == TradePnLs(g)
           last == f.qty * f.price - f.fees - CostBasis(fl, f.symbol, f.qty)
<1>1. /\ Len(g) = N + 1 /\ N \in Nat /\ g[N + 1] = f
      /\ \A i \in 1..N : g[i] = fl[i] /\ fl[i] \in Fill
      /\ \A i \in 0..N : SubSeq(g, 1, i) = SubSeq(fl, 1, i)
      /\ SubSeq(fl, 1, N) = fl
  BY Prefix
<1>2. \A i : i \in 1..(N + 1) <=> i \in 1..N \/ i = N + 1  BY <1>1
<1>3. (\A i \in 1..N : i - 1 \in 0..N) /\ (N + 1) - 1 = N /\ N \in 0..N
  BY <1>1
<1>4. P \subseteq 1..N /\ N + 1 \notin P  BY <1>1 DEF Sales
<1>5. Q = IF f.side = "SELL" THEN P \cup {N + 1} ELSE P
  <2> HIDE DEF g, N
  <2>1. Q = {i \in 1..(N + 1) : g[i].side = "SELL"}  BY <1>1 DEF Sales
  <2>2. P = {i \in 1..N : fl[i].side = "SELL"}  BY DEF Sales, N
  <2> QED  BY <1>1, <1>2, <2>1, <2>2
<1>6. \A i \in 0..N : SubSeq(fl, 1, i) \in Seq(Fill)
  BY <1>1, SubSeqProperties
<1>7. \A i \in P : k[i] = SalePnL(fl, i)  BY DEF TradePnLs
<1>8. \A i \in Q : h[i] = SalePnL(g, i)  BY DEF TradePnLs
<1>9. ReportedPnL(fl) = SumFunctionOnSet(k, P) /\ ReportedPnL(g) = SumFunctionOnSet(h, Q)
  BY DEF ReportedPnL
<1> HIDE DEF g, N, P, Q, k, h
<1>10. ASSUME NEW i \in P PROVE k[i] \in Int /\ h[i] = k[i]
  <2> DEFINE c == CostBasis(SubSeq(fl, 1, i - 1), fl[i].symbol, fl[i].qty)
  <2>1. i \in 1..N /\ i \in Q  BY <1>4, <1>5
  <2>2. fl[i] \in Fill /\ g[i] = fl[i] /\ SubSeq(g, 1, i - 1) = SubSeq(fl, 1, i - 1)
    BY <1>1, <1>3, <2>1
  <2>3. SubSeq(fl, 1, i - 1) \in Seq(Fill)  BY <1>3, <1>6, <2>1
  <2>4. fl[i].qty \in Nat /\ fl[i].price \in Nat /\ fl[i].fees \in Nat  BY <2>2, FillParts
  <2>5. c \in Int  BY <2>2, <2>3, <2>4, CostGrows
  <2>6. SalePnL(fl, i) = fl[i].qty * fl[i].price - fl[i].fees - c  BY DEF SalePnL
  <2>7. SalePnL(g, i) = SalePnL(fl, i)  BY <2>2 DEF SalePnL
  <2> HIDE DEF c
  <2>8. SalePnL(fl, i) \in Int  BY <2>4, <2>5, <2>6
  <2> QED  BY <1>7, <1>8, <2>1, <2>7, <2>8
<1>11. SalePnL(g, N + 1) = last /\ last \in Int
  <2>1. SalePnL(g, N + 1) = last  BY <1>1, <1>3 DEF SalePnL
  <2>2. f.qty \in Nat /\ f.price \in Nat /\ f.fees \in Nat  BY FillParts
  <2>3. CostBasis(fl, f.symbol, f.qty) \in Int  BY <2>2, CostGrows
  <2> QED  BY <2>1, <2>2, <2>3
<1>12. N + 1 \in Q => h[N + 1] = last  BY <1>8, <1>11
<1>13. N + 1 \in Q <=> f.side = "SELL"  BY <1>4, <1>5
<1> HIDE DEF last
<1>14. IsFiniteSet(P)
  <2>1. IsFiniteSet(1..N)  BY <1>1, FS_Interval
  <2> QED  BY <1>4, <2>1, FS_Subset
<1>15. /\ SumFunctionOnSet(k, P) \in Int
       /\ N + 1 \notin Q => SumFunctionOnSet(h, Q) = SumFunctionOnSet(k, P)
       /\ N + 1 \in Q => SumFunctionOnSet(h, Q) = SumFunctionOnSet(k, P) + h[N + 1]
  <2> DEFINE m == N + 1
  <2>1. Q = P \/ Q = P \cup {m}  BY <1>5
  <2>2. m \in Q => h[m] \in Int  BY <1>11, <1>12
  <2>3. \A i \in P : k[i] \in Int /\ h[i] = k[i]  BY <1>10
  <2>4. m \notin P  BY <1>4
  <2> HIDE DEF m
  <2>5. SumFunctionOnSet(k, P) \in Int  BY <1>14, <2>3, SumType
  <2>6. m \notin Q => SumFunctionOnSet(h, Q) = SumFunctionOnSet(k, P)
    <3>1. m \notin Q => Q = P  BY <2>1
    <3> QED  BY <1>14, <2>3, <3>1, SumEqual
  <2>7. m \in Q => SumFunctionOnSet(h, Q) = SumFunctionOnSet(k, P) + h[m]
    BY <1>14, <2>1, <2>2, <2>3, <2>4, SumGrows
  <2> QED  BY <2>5, <2>6, <2>7 DEF m
<1>16. f.side = "BUY" => f.side # "SELL"  OBVIOUS
<1> QED  BY <1>9, <1>12, <1>13, <1>15, <1>16 DEF g, last

LEMMA Exact ==
    ASSUME NEW q \in Nat \ {0}, NEW x \in Nat PROVE (q * x) \div q = x
<1> DEFINE a == q * x
           d == a \div q
<1>1. a \in Nat  BY Product
<1>2. d \in Nat /\ d * q <= a /\ \A y \in Nat : y * q <= a => y <= d
  BY <1>1, Division
<1>3. x * q <= a /\ x * q = a  OBVIOUS
<1>4. x <= d  BY <1>2, <1>3
<1>5. q * d <= q * x
  <2>1. d * q = q * d  BY <1>2
  <2> QED  BY <1>2, <2>1
<1> HIDE DEF d
<1>6. d <= x
  <2>1. \A c \in Nat \ {0}, m, n \in Nat : c * m <= c * n => m <= n  OBVIOUS
  <2> QED  BY <1>2, <1>5, <2>1
<1> QED  BY <1>2, <1>4, <1>6 DEF d

(* A long position bought at one price costs that price a share, in parts  *)
(* and as a whole.                                                         *)
LEMMA OnePriceCost ==
    ASSUME NEW p \in Position, p.qty > 0, NEW x \in Nat, p.cost = p.qty * x,
           NEW n \in Nat, n <= p.qty
    PROVE  CostOf(p, n) = n * x
<1>1. p.qty \in Nat \ {0} /\ Abs(p.qty) = p.qty  BY DEF Position, Abs
<1>2. Average(p) = x
  <2>1. Average(p) = p.cost \div p.qty  BY <1>1 DEF Average
  <2>2. (p.qty * x) \div p.qty = x  BY <1>1, Exact
  <2> QED  BY <2>1, <2>2
<1> QED  BY <1>1, <1>2 DEF CostOf

LEMMA BoughtMore ==
    ASSUME NEW p, Held(p), p.qty >= 0, NEW q \in Nat \ {0}, NEW x \in Nat
    PROVE  /\ AfterFill(p, "BUY", q, x).qty = p.qty + q
           /\ AfterFill(p, "BUY", q, x).cost = p.cost + q * x
           /\ AfterFill(p, "BUY", q, x).realized = p.realized
BY DEF AfterFill, Bought, Held, Position

LEMMA SoldPart ==
    ASSUME NEW p, Held(p), NEW x \in Nat, p.cost = p.qty * x,
           NEW q \in Nat \ {0}, q <= p.qty, NEW y \in Nat
    PROVE  /\ AfterFill(p, "SELL", q, y).qty = p.qty - q
           /\ AfterFill(p, "SELL", q, y).cost = p.qty * x - q * x
           /\ AfterFill(p, "SELL", q, y).realized =
                  p.realized + q * y - q * x - Fees("SELL", q, y)
<1> DEFINE c == CostOf(p, q)
           e == Fees("SELL", q, y)
           r == Sold(p, q, y)
<1>1. p \in Position /\ p.qty \in Int /\ p.qty > 0 /\ p.realized \in Int /\ q \in Nat
  BY DEF Held, Position
<1>2. c = q * x  BY <1>1, OnePriceCost
<1>3. r = [p EXCEPT !.qty = p.qty - q, !.cost = p.cost - c,
                    !.realized = p.realized + q * y - c - e]
  BY <1>1 DEF Sold
<1>4. AfterFill(p, "SELL", q, y) = [r EXCEPT !.known = TRUE]  BY DEF AfterFill
<1> HIDE DEF c, e, r
<1>5. r.qty = p.qty - q /\ r.cost = p.cost - c /\ r.realized = p.realized + q * y - c - e
      /\ "qty" \in DOMAIN r /\ "cost" \in DOMAIN r /\ "realized" \in DOMAIN r
  BY <1>1, <1>3 DEF Position
<1>6. LET k == [r EXCEPT !.known = TRUE]
      IN  k.qty = r.qty /\ k.cost = r.cost /\ k.realized = r.realized
  BY <1>5
<1>7. p.cost = p.qty * x  OBVIOUS
<1> QED  BY <1>2, <1>4, <1>5, <1>6, <1>7 DEF e

(* What the fills say of a position, when nothing was bought at two prices *)
(* or sold short: its shares, and at what price any number of them is      *)
(* booked, by the portfolio and by the report.                             *)
Matched(fl, p, s) ==
    /\ p.qty = Shares(fl, s, "BUY") - Shares(fl, s, "SELL") /\ p.qty >= 0
    /\ \A i \in Places(fl, s, "BUY") :
          /\ p.cost = p.qty * fl[i].price
          /\ \A n \in Nat :
                CostBasis(fl, s, n) = Least(n, Shares(fl, s, "BUY")) * fl[i].price

LEMMA PlacesWithin ==
    ASSUME NEW fl \in Seq(Fill), NEW f \in Fill, NEW s, NEW i \in Places(fl, s, "BUY")
    PROVE  /\ i \in 1..Len(fl) /\ Append(fl, f)[i] = fl[i] /\ fl[i].price \in Nat
           /\ fl[i].symbol = s
<1>1. i \in 1..Len(fl) /\ fl[i].symbol = s  BY DEF Places
<1>2. Append(fl, f)[i] = fl[i] /\ fl[i] \in Fill  BY <1>1, Prefix
<1> QED  BY <1>1, <1>2, FillParts

LEMMA OtherMatches ==
    ASSUME NEW fl \in Seq(Fill), NEW f \in Fill, NEW p, NEW s, s # f.symbol, Matched(fl, p, s)
    PROVE  Matched(Append(fl, f), p, s)
<1> DEFINE g == Append(fl, f)
<1>1. /\ Shares(g, s, "BUY") = Shares(fl, s, "BUY") + 0
      /\ Shares(g, s, "SELL") = Shares(fl, s, "SELL") + 0
  BY SharesGrow
<1>2. Shares(fl, s, "BUY") \in Nat /\ Shares(fl, s, "SELL") \in Nat  BY SharesNat
<1>3. Places(g, s, "BUY") = Places(fl, s, "BUY")  BY PlacesGrow
<1>4. ASSUME NEW n \in Nat PROVE CostBasis(g, s, n) = CostBasis(fl, s, n)
  <2>1. CostBasis(g, s, n) = CostBasis(fl, s, n) + 0 /\ CostBasis(fl, s, n) \in Int
    BY CostGrows
  <2> QED  BY <2>1
<1>5. \A i \in Places(fl, s, "BUY") : g[i] = fl[i]  BY PlacesWithin
<1>6. Shares(g, s, "BUY") = Shares(fl, s, "BUY") /\ Shares(g, s, "SELL") = Shares(fl, s, "SELL")
  BY <1>1, <1>2
<1> HIDE DEF g
<1> QED  BY <1>3, <1>4, <1>5, <1>6 DEF Matched, g

LEMMA PurchaseMatches ==
    ASSUME NEW fl \in Seq(Fill), NEW f \in Fill, Plain(Append(fl, f)), f.side = "BUY",
           NEW p, Held(p), Matched(fl, p, f.symbol)
    PROVE  Matched(Append(fl, f), AfterFill(p, "BUY", f.qty, f.price), f.symbol)
<1> DEFINE g == Append(fl, f)
           s == f.symbol
           q == f.qty
           x == f.price
           b == Shares(fl, s, "BUY")
           d == Shares(fl, s, "SELL")
           r == AfterFill(p, "BUY", q, x)
           P == Places(fl, s, "BUY")
           N == Len(fl)
<1>1. q \in Nat \ {0} /\ x \in Nat  BY FillParts
<1>2. b \in Nat /\ d \in Nat /\ (P = {} => b = 0)  BY SharesNat
<1>3. p.qty = b - d /\ p.qty >= 0 /\ p.qty \in Nat /\ p.cost \in Nat
  BY DEF Matched, Held, Position
<1>4. r.qty = p.qty + q /\ r.cost = p.cost + q * x
  <2>1. Held(p) /\ p.qty >= 0 /\ q \in Nat \ {0} /\ x \in Nat  BY <1>1, <1>3
  <2> HIDE DEF q, x
  <2> QED  BY <2>1, BoughtMore DEF r
<1>5. Shares(g, s, "BUY") = b + q /\ Shares(g, s, "SELL") = d
  BY <1>2, SharesGrow
<1>6. \A i \in P : fl[i].price = x  BY PlainGrows
<1>7. Places(g, s, "BUY") = P \cup {N + 1}  BY PlacesGrow
<1>8. ASSUME NEW i \in Places(g, s, "BUY") PROVE g[i].price = x
  <2>1. CASE i \in P  BY <1>6, <2>1, PlacesWithin
  <2>2. CASE i = N + 1  BY <2>2, Prefix
  <2> QED  BY <1>7, <2>1, <2>2
<1>9. p.cost = p.qty * x
  <2>1. CASE P = {}
    <3>1. p.qty = 0  BY <1>2, <1>3, <2>1
    <3>2. p.cost = 0  BY <3>1 DEF Held
    <3> QED  BY <1>1, <3>1, <3>2
  <2>2. CASE P # {}
    <3>1. PICK i \in P : TRUE  BY <2>2
    <3>2. p.cost = p.qty * fl[i].price  BY <3>1 DEF Matched
    <3> QED  BY <1>6, <3>1, <3>2
  <2> QED  BY <2>1, <2>2
<1>10. \A u, v \in Int : u * x + v * x = (u + v) * x  BY <1>1
<1>11. r.cost = r.qty * x
  <2>1. r.cost = p.qty * x + q * x  BY <1>4, <1>9
  <2>2. p.qty \in Int /\ q \in Int  BY <1>1, <1>3
  <2>3. p.qty * x + q * x = (p.qty + q) * x  BY <1>10, <2>2
  <2> QED  BY <1>4, <2>1, <2>3
<1>12. ASSUME NEW n \in Nat PROVE CostBasis(g, s, n) = Least(n, b + q) * x
  <2>1. CostBasis(g, s, n) = CostBasis(fl, s, n) + Used(q, n - b) * x
    BY CostGrows
  <2>2. CostBasis(fl, s, n) = Least(n, b) * x
    <3>1. CASE P = {}
      <4>1. CostBasis(fl, s, n) = 0  BY <3>1, CostGrows
      <4>2. Least(n, b) = 0  BY <1>2, <3>1 DEF Least
      <4> QED  BY <1>1, <4>1, <4>2
    <3>2. CASE P # {}
      <4>1. PICK i \in P : TRUE  BY <3>2
      <4>2. CostBasis(fl, s, n) = Least(n, b) * fl[i].price  BY <4>1 DEF Matched
      <4> QED  BY <1>6, <4>1, <4>2
    <3> QED  BY <3>1, <3>2
  <2>3. Used(q, n - b) = IF n - b <= 0 THEN 0 ELSE IF q <= n - b THEN q ELSE n - b
    BY <1>1, <1>2, UsedIs
  <2>4. /\ Least(n, b) \in Int /\ Used(q, n - b) \in Int
        /\ Least(n, b) + Used(q, n - b) = Least(n, b + q)
    BY <1>1, <1>2, <2>3 DEF Least
  <2> QED  BY <1>10, <2>1, <2>2, <2>4
<1>13. r.qty = (b + q) - d /\ r.qty >= 0  BY <1>1, <1>2, <1>3, <1>4
<1> HIDE DEF g, s, q, x, b, d, r, P
<1>14. Matched(g, r, s)  BY <1>5, <1>8, <1>11, <1>12, <1>13 DEF Matched
<1> QED  BY <1>14 DEF g, s, r, q, x

LEMMA SaleMatches ==
    ASSUME NEW fl \in Seq(Fill), NEW f \in Fill, Plain(Append(fl, f)), f.side = "SELL",
           NEW p, Held(p), Matched(fl, p, f.symbol)
    PROVE  /\ Matched(Append(fl, f), AfterFill(p, "SELL", f.qty, f.price), f.symbol)
           /\ AfterFill(p, "SELL", f.qty, f.price).realized =
                  p.realized + f.qty * f.price
                      - CostBasis(fl, f.symbol, f.qty) - Fees("SELL", f.qty, f.price)
<1> DEFINE g == Append(fl, f)
           s == f.symbol
           q == f.qty
           y == f.price
           b == Shares(fl, s, "BUY")
           d == Shares(fl, s, "SELL")
           r == AfterFill(p, "SELL", q, y)
           P == Places(fl, s, "BUY")
<1>1. q \in Nat \ {0} /\ y \in Nat  BY FillParts
<1>2. b \in Nat /\ d \in Nat /\ (P = {} => b = 0)  BY SharesNat
<1>3. p.qty = b - d /\ p.qty \in Int  BY DEF Matched, Held, Position
<1>4. d + q <= b  BY PlainGrows
<1>5. PICK i \in P : TRUE
  <2>1. P # {}  BY <1>1, <1>2, <1>4
  <2> QED  BY <2>1
<1> DEFINE x == fl[i].price
<1>6. /\ x \in Nat /\ p.cost = p.qty * x
      /\ \A n \in Nat : CostBasis(fl, s, n) = Least(n, b) * x
  BY <1>5, PlacesWithin DEF Matched
<1>7. q <= p.qty /\ q <= b  BY <1>1, <1>2, <1>3, <1>4
<1>8. /\ r.qty = p.qty - q /\ r.cost = p.qty * x - q * x
      /\ r.realized = p.realized + q * y - q * x - Fees("SELL", q, y)
  <2>1. Held(p) /\ p.cost = p.qty * x /\ q <= p.qty /\ x \in Nat /\ y \in Nat
    BY <1>1, <1>6, <1>7
  <2>2. q \in Nat \ {0}  BY <1>1
  <2> HIDE DEF q, x, y
  <2> QED  BY <2>1, <2>2, SoldPart DEF r
<1>9. CostBasis(fl, s, q) = q * x
  <2>1. Least(q, b) = q  BY <1>1, <1>2, <1>7 DEF Least
  <2> QED  BY <1>1, <1>6, <2>1
<1>10. Shares(g, s, "BUY") = b /\ Shares(g, s, "SELL") = d + q
  BY <1>2, SharesGrow
<1>11. Places(g, s, "BUY") = P  BY PlacesGrow
<1>12. r.qty = b - (d + q) /\ r.qty >= 0  BY <1>1, <1>2, <1>3, <1>4, <1>8
<1>13. ASSUME NEW j \in P
       PROVE  /\ r.cost = r.qty * g[j].price
              /\ \A n \in Nat : CostBasis(g, s, n) = Least(n, b) * g[j].price
  <2> DEFINE z == fl[j].price
  <2>1. g[j] = fl[j] /\ z \in Nat  BY PlacesWithin
  <2>2. p.cost = p.qty * z /\ \A n \in Nat : CostBasis(fl, s, n) = Least(n, b) * z
    BY DEF Matched
  <2>3. r.cost = p.qty * z - q * z
    <3>1. q * z = q * x
      <4>1. CostBasis(fl, s, q) = Least(q, b) * z  BY <1>1, <2>2
      <4>2. Least(q, b) = q  BY <1>1, <1>2, <1>7 DEF Least
      <4> QED  BY <1>9, <4>1, <4>2
    <3> QED  BY <1>6, <1>8, <2>2, <3>1
  <2>4. p.qty * z - q * z = (p.qty - q) * z  BY <1>1, <1>3, <2>1
  <2>5. ASSUME NEW n \in Nat PROVE CostBasis(g, s, n) = CostBasis(fl, s, n)
    <3>1. CostBasis(g, s, n) = CostBasis(fl, s, n) + 0 /\ CostBasis(fl, s, n) \in Int
      BY CostGrows
    <3> QED  BY <3>1
  <2> QED  BY <1>8, <2>1, <2>2, <2>3, <2>4, <2>5
<1> HIDE DEF g, s, q, y, b, d, r, P, x
<1>14. Matched(g, r, s)  BY <1>10, <1>11, <1>12, <1>13 DEF Matched
<1>15. r.realized = p.realized + q * y - CostBasis(fl, s, q) - Fees("SELL", q, y)
  BY <1>8, <1>9
<1> QED  BY <1>14, <1>15 DEF g, s, r, q, y

LEMMA TradeInt ==
    ASSUME NEW fl \in Seq(Fill), NEW i \in Sales(fl) PROVE TradePnLs(fl)[i] \in Int
<1> DEFINE h == SubSeq(fl, 1, i - 1)
           c == CostBasis(h, fl[i].symbol, fl[i].qty)
<1>1. i \in 1..Len(fl)  BY DEF Sales
<1>2. fl[i] \in Fill /\ i - 1 \in Int  BY <1>1
<1>3. fl[i].qty \in Nat /\ fl[i].price \in Nat /\ fl[i].fees \in Nat  BY <1>2, FillParts
<1>4. h \in Seq(Fill)
  <2>1. \A j \in 1..(i - 1) : fl[j] \in Fill  BY <1>1
  <2>2. 1 \in Int  OBVIOUS
  <2> QED  BY <1>2, <2>1, <2>2, SubSeqProperties
<1>5. TradePnLs(fl)[i] = fl[i].qty * fl[i].price - fl[i].fees - c  BY DEF TradePnLs, SalePnL
<1> HIDE DEF h
<1>6. c \in Int  BY <1>2, <1>3, <1>4, CostGrows
<1> HIDE DEF c
<1> QED  BY <1>3, <1>5, <1>6

(* A report that passes a gate on the profit factor of at least 1 has at   *)
(* least as much profit as loss.                                           *)
LEMMA GateMeansProfit ==
    ASSUME NEW fl \in Seq(Fill), MinProfitFactor[1] >= MinProfitFactor[2], PassesGates(fl)
    PROVE  ReportedPnL(fl) >= 0
<1> DEFINE k == TradePnLs(fl)
           S == Sales(fl)
           W == Wins(fl)
           L == Losses(fl)
           Z == S \ (W \cup L)
           w == SumFunctionOnSet(k, W)
           l == SumFunctionOnSet(k, L)
           z == SumFunctionOnSet(k, Z)
           n == MinProfitFactor[1]
           d == MinProfitFactor[2]
<1>1. \A i \in S : k[i] \in Int  BY TradeInt
<1>2. IsFiniteSet(S)
  <2>1. IsFiniteSet(1..Len(fl)) /\ S \subseteq 1..Len(fl)  BY FS_Interval DEF Sales
  <2> QED  BY <2>1, FS_Subset
<1>3. /\ W = {i \in S : k[i] > 0} /\ L = {i \in S : k[i] < 0}
  BY DEF Wins, Losses
<1>4. n \in Nat /\ d \in Nat \ {0} /\ n >= d  BY GateAssumption
<1>5. PassesGates(fl) =>
          LET loss == 0 - l
              factor == IF loss > 0 THEN w ELSE 0
              unit == IF loss > 0 THEN loss ELSE 1
          IN  factor * d >= n * unit
  BY DEF PassesGates, GrossProfit, GrossLoss
<1>6. ReportedPnL(fl) = SumFunctionOnSet(k, S)  BY DEF ReportedPnL
<1> HIDE DEF k, S, W, L, n, d
<1>7. IsFiniteSet(W) /\ IsFiniteSet(L) /\ IsFiniteSet(Z) /\ IsFiniteSet(L \cup Z)
  <2>1. W \subseteq S /\ L \subseteq S /\ Z \subseteq S /\ L \cup Z \subseteq S  BY <1>3
  <2> QED  BY <1>2, <2>1, FS_Subset
<1>8. SumFunctionOnSet(k, S) = w + SumFunctionOnSet(k, L \cup Z)
  <2>1. S = W \cup (L \cup Z) /\ W \cap (L \cup Z) = {}  BY <1>1, <1>3
  <2>2. \A i \in W \cup (L \cup Z) : k[i] \in Int  BY <1>1, <2>1
  <2> QED  BY <1>7, <2>1, <2>2, SumUnion
<1>9. SumFunctionOnSet(k, L \cup Z) = l + z
  <2>1. L \cap Z = {}  OBVIOUS
  <2>2. \A i \in L \cup Z : k[i] \in Int  BY <1>1, <1>3
  <2> QED  BY <1>7, <2>1, <2>2, SumUnion
<1>10. z \in Nat
  <2>1. \A i \in Z : k[i] \in Nat
    <3> SUFFICES ASSUME NEW i \in Z PROVE k[i] \in Nat  OBVIOUS
    <3>1. k[i] \in Int /\ ~ (k[i] < 0)  BY <1>1, <1>3
    <3> QED  BY <3>1
  <2> HIDE DEF Z
  <2> QED  BY <1>7, <2>1, SumNat
<1>11. w \in Int /\ l \in Int
  <2>1. (\A i \in W : k[i] \in Int) /\ (\A i \in L : k[i] \in Int)  BY <1>1, <1>3
  <2> QED  BY <1>7, <2>1, SumType
<1> HIDE DEF w, l, z
<1>12. w + l >= 0
  <2>1. CASE 0 - l > 0
    <3> DEFINE loss == 0 - l
    <3>1. loss \in Nat /\ w * d >= n * loss  BY <1>5, <1>11, <2>1
    <3> HIDE DEF loss
    <3>2. d * loss <= n * loss  BY <1>4, <3>1, Share
    <3>3. d * loss \in Int /\ n * loss \in Int /\ w * d = d * w /\ d * w \in Int
      BY <1>4, <1>11, <3>1
    <3>4. d * loss <= d * w  BY <3>1, <3>2, <3>3
    <3>5. loss <= w
      <4>1. \A c \in Nat \ {0}, u, v \in Int : c * u <= c * v => u <= v  OBVIOUS
      <4> QED  BY <1>4, <1>11, <3>1, <3>4, <4>1
    <3> QED  BY <1>11, <3>5 DEF loss
  <2>2. CASE ~ (0 - l > 0)
    <3>1. 0 * d >= n * 1  BY <1>5, <1>11, <2>2
    <3> QED  BY <1>4, <3>1
  <2> QED  BY <2>1, <2>2
<1> QED  BY <1>6, <1>8, <1>9, <1>10, <1>11, <1>12

(* As long as nothing was bought at two prices or sold short, the report   *)
(* books what the portfolio books.                                         *)
Tallied(fl, p) ==
    Plain(fl) => /\ \A s \in Symbols : Matched(fl, p[s], s)
                 /\ ReportedPnL(fl) = BookedAt(p)

LEMMA MatchedKept ==
    ASSUME NEW fl, NEW p, NEW r, NEW s, Held(p), Held(r), r.qty = p.qty, Net(r) = Net(p),
           Matched(fl, p, s)
    PROVE  Matched(fl, r, s)
<1>1. p.qty >= 0 /\ p.qty \in Int  BY DEF Matched, Held, Position
<1>2. r.cost = p.cost  BY <1>1 DEF Net
<1> QED  BY <1>2 DEF Matched

LEMMA NothingTallied == ASSUME IsFiniteSet(Symbols), Init PROVE Tallied(fills, pos)
<1>1. fills = <<>> /\ pos = [s \in Symbols |-> NoPosition]  BY DEF Init
<1> DEFINE none == <<>>
<1>2. none \in Seq(Fill) /\ Len(none) = 0  OBVIOUS
<1> HIDE DEF none
<1>3. \A s, side : Places(none, s, side) = {}  BY <1>2 DEF Places
<1>4. \A s, side : Shares(none, s, side) = 0  BY <1>2, <1>3, SharesNat
<1>5. ReportedPnL(none) = 0
  <2>1. Sales(none) = {}  BY <1>2 DEF Sales
  <2> QED  BY <2>1, SumEmpty DEF ReportedPnL
<1>6. BookedAt(pos) = 0
  <2>1. \A s \in Symbols : pos[s].realized = 0  BY <1>1 DEF NoPosition
  <2>2. [s \in Symbols |-> pos[s].realized] = [s \in Symbols |-> 0]  BY <2>1
  <2> QED  BY <2>2, SumZero DEF BookedAt
<1>7. ASSUME NEW s \in Symbols PROVE Matched(none, pos[s], s)
  <2>1. pos[s].qty = 0  BY <1>1 DEF NoPosition
  <2> QED  BY <1>3, <1>4, <2>1 DEF Matched
<1> QED  BY <1>1, <1>5, <1>6, <1>7 DEF Tallied, none

LEMMA FillTallied ==
    ASSUME IsFiniteSet(Symbols), NEW fl \in Seq(Fill), NEW f \in Fill, NEW p, NEW r,
           \A s \in Symbols : Held(p[s]) /\ Held(r[s]),
           r[f.symbol] = AfterFill(p[f.symbol], f.side, f.qty, f.price),
           \A s \in Symbols \ {f.symbol} : r[s] = p[s],
           f.fees = Fees(f.side, f.qty, f.price),
           Tallied(fl, p)
    PROVE  Tallied(Append(fl, f), r)
<1> SUFFICES ASSUME Plain(Append(fl, f))
             PROVE  /\ \A s \in Symbols : Matched(Append(fl, f), r[s], s)
                    /\ ReportedPnL(Append(fl, f)) = BookedAt(r)
  BY DEF Tallied
<1> DEFINE t == f.symbol
           g == Append(fl, f)
           a == p[t].realized
           c == r[t].realized
<1>1. /\ t \in Symbols /\ f.side \in {"BUY", "SELL"} /\ f.qty \in Nat \ {0}
      /\ f.price \in Nat /\ f.fees \in Nat
  BY FillParts
<1>2. /\ \A s \in Symbols : Matched(fl, p[s], s)
      /\ ReportedPnL(fl) = BookedAt(p)
  BY PlainGrows DEF Tallied
<1>3. Held(p[t]) /\ Matched(fl, p[t], t)  BY <1>1, <1>2
<1>4. BookedAt(r) = BookedAt(p) + (c - a)
  BY <1>1, SumsMove, ZenonT(30)
<1>5. a \in Int /\ c \in Int /\ BookedAt(p) \in Int
  <2>1. a \in Int /\ c \in Int  BY <1>1, HeldInts
  <2> QED  BY <2>1, AllSums
<1>6. ASSUME NEW s \in Symbols \ {t} PROVE Matched(g, r[s], s)
  BY <1>2, <1>6, OtherMatches
<1>7. CASE f.side = "BUY"
  <2>1. Matched(g, r[t], t)  BY <1>3, <1>7, PurchaseMatches
  <2>2. c = a
    <3>1. p[t].qty >= 0  BY <1>3 DEF Matched
    <3>2. c = AfterFill(p[t], "BUY", f.qty, f.price).realized  BY <1>7
    <3> HIDE DEF c, t
    <3>3. AfterFill(p[t], "BUY", f.qty, f.price).realized = p[t].realized
      BY <1>1, <1>3, <3>1, BoughtMore
    <3> QED  BY <3>2, <3>3
  <2>3. ReportedPnL(g) = ReportedPnL(fl)  BY <1>7, ReportGrows
  <2> HIDE DEF t, g, a, c
  <2>4. ReportedPnL(g) = BookedAt(r)  BY <1>2, <1>4, <1>5, <2>2, <2>3
  <2> QED  BY <1>6, <2>1, <2>4 DEF g, t
<1>8. CASE f.side = "SELL"
  <2> DEFINE k == CostBasis(fl, t, f.qty)
             m == f.qty * f.price
             e == f.fees
  <2>1. Matched(g, r[t], t) /\ c = a + m - k - e
    BY <1>3, <1>8, SaleMatches
  <2>2. ReportedPnL(g) = ReportedPnL(fl) + (m - e - k)  BY <1>8, ReportGrows
  <2>3. k \in Int /\ m \in Int /\ e \in Int
    <3>1. k \in Int  BY <1>1, CostGrows
    <3>2. m \in Nat  BY <1>1, Product
    <3> QED  BY <1>1, <3>1, <3>2
  <2> HIDE DEF t, g, a, c, k, m, e
  <2>4. ReportedPnL(g) = BookedAt(r)  BY <1>2, <1>4, <1>5, <2>1, <2>2, <2>3
  <2> QED  BY <1>6, <2>1, <2>4 DEF g, t
<1> QED  BY <1>1, <1>7, <1>8

LEMMA TallyStep ==
    ASSUME TwoLegs, IsFiniteSet(Symbols), Sound, Tallied(fills, pos), [Next]_vars
    PROVE  Tallied(fills', pos')
<1>1. Sound'  BY SoundStep
<1>2. /\ \A s \in Symbols : Held(pos[s]) /\ Held(pos'[s])
      /\ DOMAIN pos = Symbols /\ fills \in Seq(Fill)
  BY <1>1 DEF Sound, Fits, BooksFit
<1>3. ASSUME NEW slot \in Calendar[kind], NEW i \in 1..Len(Universe[kind]),
             NEW close \in Prices, NEW fact \in Facts[kind], NextBar(slot, i, close, fact)
      PROVE  Tallied(fills', pos')
  <2>1. pos' = pos /\ fills' = fills  BY <1>3 DEF NextBar
  <2> QED  BY <2>1
<1>4. CASE Reject \/ Execute
  <2> DEFINE n == Head(pending)
             t == n.symbol
             price == FillPrice(n, bar)
             f == FillOf(n, price)
  <2>1. t \in Symbols  BY <1>4, Handled DEF Sound
  <2>2. Filled \/ Unfilled  BY <1>4, FilledOrNot DEF Sound
  <2>3. CASE Unfilled
    <3>1. pos' = pos /\ fills' = fills  BY <2>3 DEF Unfilled
    <3> QED  BY <3>1
  <2>4. CASE Filled
    <3>1. /\ pos' = [pos EXCEPT ![t] = AfterFill(pos[t], n.side, n.qty, price)]
          /\ f \in Fill /\ fills' = Append(fills, f)
      BY <2>4 DEF Filled
    <3>2. /\ f.symbol = t /\ f.side = n.side /\ f.qty = n.qty /\ f.price = price
          /\ f.fees = Fees(f.side, f.qty, f.price)
      BY DEF FillOf
    <3> HIDE DEF n, t, price, f
    <3>3. /\ pos'[f.symbol] = AfterFill(pos[f.symbol], f.side, f.qty, f.price)
          /\ \A s \in Symbols \ {f.symbol} : pos'[s] = pos[s]
      BY <1>2, <2>1, <3>1, <3>2
    <3> QED  BY <1>2, <3>1, <3>2, <3>3, FillTallied
  <2> QED  BY <2>2, <2>3, <2>4
<1>5. CASE Mark
  <2>1. fills' = fills /\ pos' = [s \in Symbols |-> Marked(pos[s], latest[s])]
    BY <1>5 DEF Mark
  <2>2. ASSUME NEW s \in Symbols
        PROVE  /\ pos'[s].qty = pos[s].qty /\ Net(pos'[s]) = Net(pos[s])
               /\ pos'[s].realized = pos[s].realized
    <3>1. latest[s] \in Nat
      <4>1. latest[s] \in Prices \cup {0}  BY DEF Sound, Fits, EngineFits
      <4>2. Prices \subseteq Nat /\ 0 \in Nat  BY FeedAssumption
      <4>3. Prices \cup {0} \subseteq Nat  BY <4>2, Zenon
      <4> QED  BY <4>1, <4>3, Zenon
    <3>2. pos'[s] = Marked(pos[s], latest[s])  BY <2>1
    <3> QED  BY <1>2, <3>1, <3>2, MarkKeeps
  <2>3. BookedAt(pos') = BookedAt(pos)
    <3>1. [s \in Symbols |-> pos'[s].realized] = [s \in Symbols |-> pos[s].realized]
      BY <2>2
    <3> QED  BY <3>1 DEF BookedAt
  <2>4. ASSUME NEW s \in Symbols, Matched(fills, pos[s], s)
        PROVE  Matched(fills, pos'[s], s)
    BY <1>2, <2>2, <2>4, MatchedKept
  <2> QED  BY <2>1, <2>3, <2>4 DEF Tallied
<1>6. CASE UNCHANGED vars
  <2>1. pos' = pos /\ fills' = fills  BY <1>6 DEF vars
  <2> QED  BY <2>1
<1> QED  BY <1>3, <1>4, <1>5, <1>6 DEF Next

(* The realized P&L of the report, first in first out over a queue that no *)
(* sale consumes, is the portfolio's, at average cost, on every run that   *)
(* bought each symbol at one price only and never sold short: for any      *)
(* number of symbols and fills, rates, and orders.  A report that then     *)
(* passes a gate on a profit factor of at least 1 is one of a run whose    *)
(* closed trades did not lose money.                                       *)
THEOREM ReportIsRight == ASSUME TwoLegs, IsFiniteSet(Symbols) PROVE Spec => []ReportAgrees
<1> DEFINE I == Sound /\ Tallied(fills, pos)
<1>1. Init => I  BY SoundInit, NothingTallied
<1>2. I /\ [Next]_vars => I'
  <2> SUFFICES ASSUME Sound, Tallied(fills, pos), [Next]_vars PROVE I'  OBVIOUS
  <2>1. Sound'  BY SoundStep
  <2>2. Tallied(fills', pos')  BY TallyStep
  <2>3. Tallied(fills, pos)' = Tallied(fills', pos')  OBVIOUS
  <2> QED  BY <2>1, <2>2, <2>3
<1>3. I => ReportAgrees
  <2> SUFFICES ASSUME Sound, Tallied(fills, pos), OnePrice, OnlyCloses
               PROVE  /\ ReportedPnL(fills) = RealizedPnL
                      /\ MinProfitFactor[1] >= MinProfitFactor[2] /\ PassesGates(fills) =>
                            RealizedPnL >= 0
    BY DEF ReportAgrees
  <2>1. Plain(fills)  BY DEF Plain, OnePriceOf, OnlyClosesOf, OnePrice, OnlyCloses
  <2>2. ReportedPnL(fills) = BookedAt(pos)  BY <2>1 DEF Tallied
  <2>3. BookedAt(pos) = RealizedPnL  BY DEF BookedAt, RealizedPnL
  <2>4. fills \in Seq(Fill)  BY DEF Sound, Fits, BooksFit
  <2> QED  BY <2>2, <2>3, <2>4, GateMeansProfit
<1> HIDE DEF I
<1> QED  BY <1>1, <1>2, <1>3, PTL DEF Spec
-----------------------------------------------------------------------------
(* At what price orders fill. *)

(* Orders of a strategy on one symbol are for the symbol of the bar, which *)
(* closed at its last price.                                               *)
AtBar ==
    pending # <<>> => Market(pending, {bar.symbol}) /\ latest[bar.symbol] = bar.close

LEMMA AtBarStep ==
    ASSUME TwoLegs, kind \in Shipped \ Ratio, Sound, AtBar, [Next]_vars PROVE AtBar'
<1>1. ASSUME NEW slot \in Calendar[kind], NEW i \in 1..Len(Universe[kind]),
             NEW close \in Prices, NEW fact \in Facts[kind], NextBar(slot, i, close, fact)
      PROVE  AtBar'
  <2> DEFINE b == BarOf(slot, i, close, fact)
  <2>1. kind \in Kinds /\ DOMAIN latest = Symbols  BY DEF Sound, Fits, EngineFits
  <2>2. /\ b.symbol = Universe[kind][i] /\ b.symbol \in Symbols
        /\ bar'.symbol = b.symbol /\ bar'.close = close
        /\ latest' = [latest EXCEPT ![b.symbol] = close]
    BY <1>1, <2>1, TheBar
  <2>3. Market(pending', {b.symbol})  BY <1>1, <2>1, <2>2, NextBarMarket
  <2> HIDE DEF b
  <2>4. latest'[bar'.symbol] = bar'.close  BY <2>1, <2>2
  <2>5. Market(pending', {bar'.symbol})  BY <2>2, <2>3
  <2>6. Market(pending, {bar.symbol})' = Market(pending', {bar'.symbol})
    BY DEF Market, Marketed
  <2> QED  BY <2>4, <2>5, <2>6 DEF AtBar
<1>2. CASE Reject \/ Execute
  <2>1. pending # <<>> /\ pending' = Tail(pending) /\ bar' = bar /\ latest' = latest
    BY <1>2, Handled DEF Sound
  <2>2. Market(pending', {bar.symbol})  BY <2>1, MarketParts DEF AtBar
  <2>3. Market(pending, {bar.symbol})' = Market(pending', {bar'.symbol})
    BY DEF Market, Marketed
  <2> QED  BY <2>1, <2>2, <2>3 DEF AtBar
<1>3. CASE Mark  BY <1>3 DEF Mark, AtBar
<1>4. CASE UNCHANGED vars
  <2>1. pending' = pending /\ bar' = bar /\ latest' = latest  BY <1>4 DEF vars
  <2>2. Market(pending, {bar.symbol})' = Market(pending', {bar'.symbol})
    BY DEF Market, Marketed
  <2> QED  BY <2>1, <2>2 DEF AtBar
<1> QED  BY <1>1, <1>2, <1>3, <1>4 DEF Next

LEMMA FillIsAtBar ==
    ASSUME TwoLegs, kind \in Shipped \ Ratio, Sound, AtBar, [Next]_vars, fills' # fills,
           NEW f, f = fills'[Len(fills')]
    PROVE  f.price = SlippedPrice(f.side, latest[f.symbol])
<1> DEFINE n == Head(pending)
           price == FillPrice(n, bar)
<1>1. Reject \/ Execute
  <2>1. ASSUME NEW slot, NEW i, NEW close, NEW fact, NextBar(slot, i, close, fact)
        PROVE  fills' = fills
    BY <2>1 DEF NextBar
  <2>2. Mark => fills' = fills  BY DEF Mark
  <2>3. UNCHANGED vars => fills' = fills  BY DEF vars
  <2> QED  BY <2>1, <2>2, <2>3 DEF Next
<1>2. pending # <<>>  BY <1>1, Handled DEF Sound
<1>3. Filled  BY <1>1, FilledOrNot DEF Sound, Unfilled
<1>4. f = FillOf(n, price)
  <2> DEFINE g == FillOf(n, price)
  <2>1. g \in Fill /\ fills' = Append(fills, g)  BY <1>3 DEF Filled
  <2>2. fills \in Seq(Fill)  BY DEF Sound, Fits, BooksFit
  <2> HIDE DEF g
  <2>3. fills'[Len(fills')] = g  BY <2>1, <2>2
  <2> QED  BY <2>3 DEF g
<1>5. n.type = "MARKET" /\ n.symbol = bar.symbol /\ latest[bar.symbol] = bar.close
  <2>1. Marketed(n, {bar.symbol})  BY <1>2, MarketParts DEF AtBar
  <2> QED  BY <1>2, <2>1 DEF AtBar, Marketed
<1>6. price = SlippedPrice(n.side, bar.close)  BY <1>5 DEF FillPrice
<1> HIDE DEF n, price
<1>7. f.symbol = n.symbol /\ f.side = n.side /\ f.price = price  BY <1>4 DEF FillOf
<1> QED  BY <1>5, <1>6, <1>7

(* A market order of a strategy on one symbol fills at the last close of   *)
(* its own symbol: only a strategy on two symbols can have an order filled *)
(* at the close of the other one.                                          *)
THEOREM OwnClose == ASSUME Kinds \cap Ratio = {} PROVE Spec => FillsAtOwnClose
<1> DEFINE I == Sound /\ (kind \in Shipped => AtBar)
           OwnFill == fills' # fills /\ kind \in Shipped =>
                          LET f == fills'[Len(fills')]
                          IN  f.price = SlippedPrice(f.side, latest[f.symbol])
<1>1. TwoLegs  BY DEF TwoLegs
<1>2. Sound => kind \notin Ratio  BY DEF Sound, Fits, EngineFits
<1>3. Init => I  BY SoundInit DEF Init, AtBar
<1>4. I /\ [Next]_vars => I'
  <2> SUFFICES ASSUME Sound, kind \in Shipped => AtBar, [Next]_vars
               PROVE  Sound' /\ (kind' \in Shipped => AtBar')
    OBVIOUS
  <2>1. kind' = kind  BY RiskedStays
  <2> QED  BY <1>1, <1>2, <2>1, SoundStep, AtBarStep
<1>5. I /\ [Next]_vars => OwnFill
  <2> SUFFICES ASSUME Sound, AtBar, [Next]_vars, fills' # fills, kind \in Shipped,
                      NEW f, f = fills'[Len(fills')]
               PROVE  f.price = SlippedPrice(f.side, latest[f.symbol])
    OBVIOUS
  <2> QED  BY <1>1, <1>2, FillIsAtBar
<1>6. FillsAtOwnClose <=> [][OwnFill]_vars  BY DEF FillsAtOwnClose
<1> HIDE DEF I, OwnFill
<1> QED  BY <1>3, <1>4, <1>5, <1>6, PTL DEF Spec
=============================================================================
