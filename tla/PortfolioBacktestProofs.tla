------------------------ MODULE PortfolioBacktestProofs ------------------------
(***************************************************************************)
(* What the portfolio backtests guarantee for every set of keys, every     *)
(* history of trades and every price: the capital adds up, slots close     *)
(* when they can, cash turns negative only for the known reasons, and the  *)
(* breakers release.                                                       *)
(***************************************************************************)
EXTENDS PortfolioBacktest, SumTheorems

(* The experiment's own numbers, and what a phase has not yet touched.     *)
Setup ==
    /\ floor \in Nat \ {0} /\ rank \in [Strategies -> Nat]
    /\ IsFiniteSet(trades) /\ IsFiniteSet(active)
    /\ phase = "collect" =>
          /\ exp = "none" /\ dates = {} /\ active = {} /\ gold = None
          /\ taken = 0 /\ skipped = 0
    /\ phase = "report" => dates = {}
    /\ gold # None => exp = "gold"
    /\ exp \notin Sweeps => floor = Chunk

(* Trades last a day or more, and a key enters at most once a day.         *)
History ==
    /\ \A t \in trades :
          /\ t.entry <= t.exit
          /\ phase = "collect" /\ StrategyOf(t) = "Black Swan" => t.entry < t.exit
    /\ \A t, u \in trades : t.key = u.key /\ t.entry = u.entry => t = u

(* A slot is for a trade entered on a day that is done, and for no other   *)
(* slot's.                                                                 *)
Slots ==
    /\ \A s \in active :
          /\ s.trade \in trades
          /\ \A d \in dates : s.trade.entry < d
    /\ \A r, s \in active : r.trade = s.trade => r = s

(* What is still to be visited of day d.                                   *)
Visited(d) ==
    \/ d \in dates \cup weekend
    \/ exp \in EndWithLastEntry /\ \A e \in dates : e < d

(* The exit of a trade is past, still to come, or never comes.             *)
Exits ==
    /\ \A t \in trades : Visited(t.exit) \/ \A e \in dates : t.exit < e
    /\ \A s \in active : Visited(s.trade.exit) \/ s.trade.exit = s.trade.entry

Books ==
    phase # "report" =>
        /\ cash + Cost(active) + GoldCost = Capital + pnl
        /\ pnl = SumOver(yearly)
        /\ peak >= Capital + pnl

Counts ==
    exp \in Undeduplicated =>
        taken + skipped = Cardinality({t \in trades : t.entry \notin dates})

IInv ==
    /\ TypeOK /\ Setup /\ History /\ Slots /\ Exits /\ Books /\ Counts
    /\ OneSlotPerSymbol /\ HedgeFollowsRegime

-----------------------------------------------------------------------------
(* Least and greatest numbers, and parts of them.                          *)

LEMMA MinFacts ==
    ASSUME NEW S \in SUBSET Int, IsFiniteSet(S), S # {}
    PROVE  Min(S) \in S /\ \A x \in S : Min(S) <= x
<1> DEFINE R == {p \in S \X S : p[1] > p[2]}
<1>1. \A x, y \in S : /\ x \in Int /\ y \in Int
                      /\ <<x, y>> \in R => x > y
                      /\ x > y => <<x, y>> \in R
  OBVIOUS
<1> HIDE DEF R
<1>2. \A x, y \in S : x = y \/ <<x, y>> \in R \/ <<y, x>> \in R
  <2> TAKE x, y \in S
  <2>1. x = y \/ x > y \/ y > x
    OBVIOUS
  <2> QED  BY <1>1, <2>1, Zenon
<1>3. \A x, y, z \in S : <<x, y>> \in R /\ <<y, z>> \in R => <<x, z>> \in R
  <2> TAKE x, y, z \in S
  <2>1. x > y /\ y > z => x > z
    OBVIOUS
  <2> QED  BY <1>1, <2>1, Zenon
<1>4. PICK m \in S : \A x \in S : x = m \/ <<x, m>> \in R
  BY <1>2, <1>3, LastInOrder, Zenon
<1>5. ASSUME NEW x \in S  PROVE m =< x
  <2>1. x \in Int /\ m \in Int
    BY <1>1
  <2>2. x = m \/ x > m
    BY <1>1, <1>4
  <2> QED  BY <2>1, <2>2
<1> QED  BY <1>5 DEF Min

LEMMA MaxFacts ==
    ASSUME NEW S \in SUBSET Int, IsFiniteSet(S), S # {}
    PROVE  Max(S) \in S /\ \A x \in S : x <= Max(S)
<1> DEFINE R == {p \in S \X S : p[1] < p[2]}
<1>1. \A x, y \in S : /\ x \in Int /\ y \in Int
                      /\ <<x, y>> \in R => x < y
                      /\ x < y => <<x, y>> \in R
  OBVIOUS
<1> HIDE DEF R
<1>2. \A x, y \in S : x = y \/ <<x, y>> \in R \/ <<y, x>> \in R
  <2> TAKE x, y \in S
  <2>1. x = y \/ x < y \/ y < x
    OBVIOUS
  <2> QED  BY <1>1, <2>1, Zenon
<1>3. \A x, y, z \in S : <<x, y>> \in R /\ <<y, z>> \in R => <<x, z>> \in R
  <2> TAKE x, y, z \in S
  <2>1. x < y /\ y < z => x < z
    OBVIOUS
  <2> QED  BY <1>1, <2>1, Zenon
<1>4. PICK m \in S : \A x \in S : x = m \/ <<x, m>> \in R
  BY <1>2, <1>3, LastInOrder, Zenon
<1>5. ASSUME NEW x \in S  PROVE m >= x
  <2>1. x \in Int /\ m \in Int
    BY <1>1
  <2>2. x = m \/ x < m
    BY <1>1, <1>4
  <2> QED  BY <2>1, <2>2
<1> QED  BY <1>5 DEF Max

LEMMA MaxOfTwo ==
    ASSUME NEW a \in Int, NEW b \in Int
    PROVE  Max({a, b}) = IF a >= b THEN a ELSE b
<1>1. \A x \in {a, b} : (\A y \in {a, b} : x >= y) => x = IF a >= b THEN a ELSE b
  OBVIOUS
<1>2. \E x \in {a, b} : \A y \in {a, b} : x >= y
  OBVIOUS
<1> QED  BY <1>1, <1>2 DEF Max

LEMMA MinOfTwo ==
    ASSUME NEW a \in Int, NEW b \in Int
    PROVE  Min({a, b}) = IF a <= b THEN a ELSE b
<1>1. \A x \in {a, b} : (\A y \in {a, b} : x =< y) => x = IF a <= b THEN a ELSE b
  OBVIOUS
<1>2. \E x \in {a, b} : \A y \in {a, b} : x =< y
  OBVIOUS
<1> QED  BY <1>1, <1>2 DEF Min

LEMMA TodayFacts ==
    ASSUME TypeOK, dates # {}
    PROVE  /\ today \in dates /\ today \in Days /\ today \in Nat
           /\ \A d \in dates : d \in Nat /\ today <= d
<1>1. dates \in SUBSET Int /\ dates \in SUBSET Days
  BY BacktestAssumption DEF TypeOK, Days
<1>2. IsFiniteSet(dates)
  <2>1. 1 \in Int /\ LastDay \in Int
    BY BacktestAssumption
  <2>2. IsFiniteSet(Days)
    BY <2>1, FS_Interval DEF Days
  <2> QED  BY <1>1, <2>2, FS_Subset
<1>3. today \in dates /\ \A d \in dates : today <= d
  BY <1>1, <1>2, MinFacts DEF today
<1>4. \A d \in dates : d \in Nat
  BY <1>1 DEF Days
<1> QED  BY <1>1, <1>3, <1>4

(* The numbers a day counts with.                                          *)
LEMMA ConstantTypes ==
    /\ LastDay \in Nat \ {0} /\ Capital \in Nat \ {0} /\ Chunk \in Nat \ {0}
    /\ FixedChunk \in Nat \ {0} /\ EntryCap \in Nat \ {0} /\ GoldChunk \in Nat \ {0}
    /\ ResetDays \in Nat \ {0} /\ Trigger \in Nat \ {0} /\ Chunk <= FixedChunk
BY BacktestAssumption

LEMMA PriceTypes ==
    /\ Prices \subseteq Nat \ {0}
    /\ \A t \in Trade : t.price \in Nat \ {0} /\ t.sale \in Nat \ {0}
    /\ \A t \in Trade : t.entry \in Nat /\ t.exit \in Nat /\ t.key \in Nat
    /\ \A t \in Trade : StrategyOf(t) \in Strategies
    /\ \A t \in Trade : t.key \in DOMAIN Portfolio
<1>1. Prices \subseteq Nat \ {0}
  BY BacktestAssumption DEF Prices
<1>2. Days \subseteq Nat
  BY ConstantTypes DEF Days
<1>3. \A k \in DOMAIN Portfolio : k \in Nat /\ Portfolio[k].strategy \in Strategies
  <2> DEFINE Key == [strategy : Strategies, symbol : STRING]
  <2>1. Portfolio \in Seq(Key)
    BY BacktestAssumption
  <2>2. \A x \in Key : x.strategy \in Strategies
    OBVIOUS
  <2> HIDE DEF Key
  <2>3. \A k \in DOMAIN Portfolio : k \in Nat /\ Portfolio[k] \in Key
    BY <2>1
  <2> QED  BY <2>2, <2>3
<1> QED  BY <1>1, <1>2, <1>3 DEF Trade, StrategyOf

-----------------------------------------------------------------------------
(* Sums over slots.                                                        *)

LEMMA SumOverIs == ASSUME NEW f PROVE SumOver(f) = SumFunctionOnSet(f, DOMAIN f)
BY DEF SumOver, FoldFunction, SumFunctionOnSet, FoldFunctionOnSet, MapThenFoldSet

(* The price of a slot's shares and what they are sold for, as functions.  *)
Paid(S) == [s \in S |-> s.trade.price * s.qty]
Sold(S) == [s \in S |-> s.trade.sale * s.qty]

LEMMA PaidTypes ==
    ASSUME NEW S, \A s \in S : s \in Slot
    PROVE  \A s \in S : /\ Paid(S)[s] \in Int /\ Sold(S)[s] \in Int
                        /\ Paid(S)[s] = s.trade.price * s.qty
                        /\ Sold(S)[s] = s.trade.sale * s.qty
                        /\ s.qty \in Int /\ s.trade \in Trade
                        /\ s.trade.price \in Nat \ {0} /\ s.trade.sale \in Nat \ {0}
<1> TAKE s \in S
<1>1. s.qty \in Int /\ s.trade \in Trade
  BY DEF Slot
<1>2. s.trade.price \in Nat \ {0} /\ s.trade.sale \in Nat \ {0}
  BY <1>1, PriceTypes
<1> QED  BY <1>1, <1>2 DEF Paid, Sold

LEMMA CostIs ==
    ASSUME NEW S
    PROVE  Cost(S) = SumFunctionOnSet(Paid(S), S) /\ Value(S) = SumFunctionOnSet(Sold(S), S)
BY SumOverIs DEF Cost, Value, Paid, Sold

LEMMA CostType ==
    ASSUME NEW S, IsFiniteSet(S), \A s \in S : s \in Slot
    PROVE  Cost(S) \in Int /\ Value(S) \in Int
BY PaidTypes, CostIs, SumType

LEMMA CostEmpty == Cost({}) = 0 /\ Value({}) = 0
BY CostIs, SumEmpty

(* The cost of disjoint sets of slots adds up. *)
LEMMA CostUnion ==
    ASSUME NEW S, NEW T, IsFiniteSet(S), IsFiniteSet(T), S \cap T = {},
           \A s \in S \cup T : s \in Slot
    PROVE  Cost(S \cup T) = Cost(S) + Cost(T)
<1> DEFINE f == Paid(S \cup T)
<1>1. \A s \in S \cup T : f[s] \in Int /\ f[s] = s.trade.price * s.qty
  BY PaidTypes
<1>2. \A s \in S : Paid(S)[s] = f[s]
  BY <1>1, PaidTypes
<1>3. \A s \in T : Paid(T)[s] = f[s]
  BY <1>1, PaidTypes
<1> HIDE DEF f
<1>4. SumFunctionOnSet(f, S \cup T) = SumFunctionOnSet(f, S) + SumFunctionOnSet(f, T)
  BY <1>1, SumUnion
<1>5. Cost(S) = SumFunctionOnSet(f, S)
  BY <1>1, <1>2, CostIs, SumEqual
<1>6. Cost(T) = SumFunctionOnSet(f, T)
  BY <1>1, <1>3, CostIs, SumEqual
<1> QED  BY <1>4, <1>5, <1>6, CostIs DEF f

LEMMA CostOne ==
    ASSUME NEW s \in Slot
    PROVE  Cost({s}) = s.trade.price * s.qty /\ Cost({s}) \in Int
<1>1. IsFiniteSet({s})
  BY FS_Singleton
<1>2. Paid({s})[s] = s.trade.price * s.qty /\ Paid({s})[s] \in Int
  BY PaidTypes
<1>3. SumFunctionOnSet(Paid({s}), {s}) = Paid({s})[s] + SumFunctionOnSet(Paid({s}), {s} \ {s})
  BY <1>1, <1>2, SumStep
<1>4. {s} \ {s} = {}
  OBVIOUS
<1> QED  BY <1>2, <1>3, <1>4, SumEmpty, CostIs

(* Shares that are held are worth something. *)
LEMMA ValueNat ==
    ASSUME NEW S, IsFiniteSet(S), \A s \in S : s \in Slot /\ s.qty >= 0
    PROVE  Value(S) \in Nat
<1>1. \A s \in S : Sold(S)[s] \in Nat
  <2> TAKE s \in S
  <2> DEFINE p == s.trade.sale  q == s.qty
  <2>1. Sold(S)[s] = p * q /\ p \in Nat /\ q \in Int /\ q >= 0
    BY PaidTypes
  <2> HIDE DEF p, q
  <2> QED  BY <2>1
<1> QED  BY <1>1, CostIs, SumNat

-----------------------------------------------------------------------------
(* The trades of a day, in order.                                          *)

LEMMA TodayTypes ==
    ASSUME TypeOK, Setup
    PROVE  /\ IsFiniteSet(TodaysTrades)
           /\ TodaysTrades \in SUBSET trades
           /\ \A t \in TodaysTrades : /\ t \in Trade /\ t.entry = today
                                      /\ t.price \in Nat \ {0} /\ t.key \in Nat
                                      /\ rank[StrategyOf(t)] \in Nat
<1>1. TodaysTrades \in SUBSET trades /\ \A t \in TodaysTrades : t.entry = today
  BY DEF TodaysTrades
<1>2. IsFiniteSet(TodaysTrades)
  BY <1>1, FS_Subset DEF Setup
<1>3. \A t \in TodaysTrades : t \in Trade
  BY <1>1 DEF TypeOK
<1>4. \A t \in TodaysTrades :
        t.price \in Nat \ {0} /\ t.key \in Nat /\ StrategyOf(t) \in Strategies
  BY <1>3, PriceTypes
<1>5. \A t \in TodaysTrades : rank[StrategyOf(t)] \in Nat
  BY <1>4 DEF Setup
<1> QED  BY <1>1, <1>2, <1>3, <1>4, <1>5

LEMMA BeforeOrder ==
    ASSUME TypeOK, Setup, History
    PROVE  /\ \A t \in TodaysTrades : ~Before(t, t)
           /\ \A t, u, v \in TodaysTrades :
                Before(t, u) /\ Before(u, v) => Before(t, v)
           /\ \A t, u \in TodaysTrades : t = u \/ Before(t, u) \/ Before(u, t)
<1> DEFINE r(t) == rank[StrategyOf(t)]
<1>1. \A t \in TodaysTrades : r(t) \in Nat /\ t.key \in Nat
  BY TodayTypes
<1>2. \A t, u \in TodaysTrades : t.key = u.key => t = u
  BY TodayTypes DEF History
<1>3. \A t, u \in TodaysTrades :
        Before(t, u) <=> r(t) > r(u) \/ (r(t) = r(u) /\ t.key < u.key)
  BY DEF Before
<1> HIDE DEF r
<1>4. \A t \in TodaysTrades : ~Before(t, t)
  BY <1>1, <1>3
<1>5. \A t, u, v \in TodaysTrades :
        Before(t, u) /\ Before(u, v) => Before(t, v)
  BY <1>1, <1>3
<1>6. \A t, u \in TodaysTrades : t = u \/ Before(t, u) \/ Before(u, t)
  BY <1>1, <1>2, <1>3
<1> QED  BY <1>4, <1>5, <1>6

(* Some trade of a non-empty set comes after all others.                   *)
LEMMA LastTrade ==
    ASSUME TypeOK, Setup, History, NEW T \in SUBSET TodaysTrades, T # {}
    PROVE  \E l \in T : \A t \in T : t = l \/ Before(t, l)
<1> DEFINE R == {p \in T \X T : Before(p[1], p[2])}
<1>1. \A t, u \in T : <<t, u>> \in R <=> Before(t, u)
  OBVIOUS
<1>2. IsFiniteSet(T)
  BY TodayTypes, FS_Subset
<1> HIDE DEF R
<1>3. \A t, u \in T : t = u \/ <<t, u>> \in R \/ <<u, t>> \in R
  BY <1>1, BeforeOrder
<1>4. \A t, u, v \in T : <<t, u>> \in R /\ <<u, v>> \in R => <<t, v>> \in R
  BY <1>1, BeforeOrder
<1>5. \E l \in T : \A t \in T : t = l \/ <<t, l>> \in R
  BY <1>2, <1>3, <1>4, LastInOrder, Zenon
<1> QED  BY <1>1, <1>5

(* signals[:n] has n members at most.                                      *)
LEMMA FirstFacts ==
    ASSUME TypeOK, Setup, History, NEW ts \in SUBSET TodaysTrades, NEW n \in Int
    PROVE  /\ First(ts, n) \in SUBSET ts
           /\ IsFiniteSet(ts) /\ IsFiniteSet(First(ts, n))
           /\ Cardinality(ts) \in Nat /\ Cardinality(First(ts, n)) \in Nat
           /\ Cardinality(First(ts, n)) <= Cardinality(ts)
           /\ n >= 0 => Cardinality(First(ts, n)) <= n
           /\ n <= 0 => First(ts, n) = {}
<1> DEFINE S == First(ts, n)
<1>1. S \in SUBSET ts
  BY DEF First
<1>2. IsFiniteSet(S) /\ IsFiniteSet(ts)
  BY <1>1, TodayTypes, FS_Subset
<1>3. Cardinality(S) \in Nat /\ Cardinality(ts) \in Nat /\ Cardinality(S) <= Cardinality(ts)
  BY <1>1, <1>2, FS_CardinalityType, FS_Subset
<1>4. CASE S = {}
  BY <1>1, <1>2, <1>3, <1>4, FS_EmptySet
<1>5. CASE S # {}
  <2>1. PICK l \in S : \A t \in S : t = l \/ Before(t, l)
    <3> HIDE DEF S
    <3> QED  BY <1>1, <1>5, LastTrade
  <2> DEFINE above == {u \in ts : Before(u, l)}
  <2>2. Cardinality(above) < n
    BY <2>1 DEF First
  <2>3. S \ {l} \in SUBSET above
    BY <1>1, <2>1
  <2>4. IsFiniteSet(above)
    BY <1>2, FS_Subset
  <2>5. Cardinality(S \ {l}) <= Cardinality(above)
    BY <2>3, <2>4, FS_Subset
  <2>6. Cardinality(S \ {l}) = Cardinality(S) - 1
    BY <1>2, <2>1, FS_RemoveElement
  <2>7. Cardinality(above) \in Nat
    BY <2>4, FS_CardinalityType
  <2>8. Cardinality(S) <= n /\ n > 0
    <3> HIDE DEF S, above
    <3> QED  BY <1>3, <2>2, <2>5, <2>6, <2>7
  <2> HIDE DEF S
  <2> QED  BY <1>1, <1>2, <1>3, <2>8 DEF S
<1> QED  BY <1>4, <1>5

-----------------------------------------------------------------------------
(* What a day buys.                                                        *)

(* Slots for trades of today, one for each.                                *)
Purchase(B) ==
    /\ IsFiniteSet(B)
    /\ \A s \in B : s \in Slot /\ s.qty >= 1 /\ s.trade \in TodaysTrades
    /\ \A r, s \in B : r.trade = s.trade => r = s

(* Their symbols differ from each other and from those that are held.      *)
Apart(B) ==
    /\ \A r, s \in B : SymbolOf(r.trade) = SymbolOf(s.trade) => r = s
    /\ \A r \in Kept, s \in B : SymbolOf(r.trade) # SymbolOf(s.trade)

LEMMA SharesType ==
    ASSUME NEW num \in Int, NEW den \in Nat \ {0}, NEW price \in Nat \ {0}
    PROVE  /\ Shares(num, den, price) \in Nat \ {0}
           /\ den * price \in Nat \ {0}
           /\ Shares(num, den, price) =
                IF 1 >= num \div (den * price) THEN 1 ELSE num \div (den * price)
<1> DEFINE d == den * price
<1>1. d \in Nat \ {0}
  OBVIOUS
<1> HIDE DEF d
<1>2. num \div d \in Int
  BY <1>1
<1>3. Shares(num, den, price) = IF 1 >= num \div d THEN 1 ELSE num \div d
  BY <1>2, MaxOfTwo DEF Shares, d
<1> QED  BY <1>1, <1>2, <1>3 DEF d

LEMMA BuyFacts ==
    ASSUME TypeOK, Setup, NEW sel \in SUBSET TodaysTrades,
           NEW num \in Int, NEW den \in Int, sel # {} => den > 0
    PROVE  /\ Purchase(Buy(sel, num, den))
           /\ \A s \in Buy(sel, num, den) :
                s.trade \in sel /\ s.qty = Shares(num, den, s.trade.price)
           /\ Cardinality(Buy(sel, num, den)) \in Nat
           /\ Cardinality(Buy(sel, num, den)) <= Cardinality(sel)
<1> DEFINE slot(t) == [trade |-> t, qty |-> Shares(num, den, t.price)]
           B == {slot(t) : t \in sel}
<1>1. Buy(sel, num, den) = B
  BY DEF Buy
<1>2. IsFiniteSet(sel)
  BY TodayTypes, FS_Subset
<1>3. IsFiniteSet(B) /\ Cardinality(B) <= Cardinality(sel)
  <2> DEFINE f == [t \in sel |-> slot(t)]
  <2>1. f \in [sel -> B] /\ \A s \in B : \E t \in sel : f[t] = s
    <3> HIDE DEF slot
    <3> QED  OBVIOUS
  <2>2. f \in Surjection(sel, B)
    BY <2>1 DEF Surjection
  <2> HIDE DEF f, B
  <2> QED  BY <1>2, <2>2, FS_Surjection
<1>4. Cardinality(B) \in Nat
  BY <1>3, FS_CardinalityType
<1>5. ASSUME NEW t \in sel
      PROVE  slot(t) \in Slot /\ slot(t).qty >= 1
  <2>1. t \in Trade /\ t.price \in Nat \ {0}
    BY TodayTypes
  <2>2. Shares(num, den, t.price) \in Nat \ {0}
    BY <2>1, SharesType
  <2>3. slot(t) \in [trade : Trade, qty : Int]
    BY <2>1, <2>2
  <2>4. slot(t).qty = Shares(num, den, t.price)
    OBVIOUS
  <2> HIDE DEF slot
  <2> QED  BY <2>2, <2>3, <2>4 DEF Slot
<1>6. \A t \in sel : slot(t).trade = t /\ slot(t).qty = Shares(num, den, t.price)
  OBVIOUS
<1> HIDE DEF slot
<1>7. Purchase(B)
  BY <1>3, <1>5, <1>6 DEF Purchase
<1>8. \A s \in B : s.trade \in sel /\ s.qty = Shares(num, den, s.trade.price)
  BY <1>6
<1> HIDE DEF B
<1> QED  BY <1>1, <1>3, <1>4, <1>7, <1>8

LEMMA PurchaseIn ==
    ASSUME NEW B, Purchase(B), NEW C \in SUBSET B
    PROVE  Purchase(C)
BY FS_Subset DEF Purchase

(* Fresh signals are for symbols of their own.                             *)
LEMMA FreshApart ==
    ASSUME TypeOK, Setup, History, NEW ts \in SUBSET TodaysTrades, NEW B, Purchase(B),
           \A s \in B : s.trade \in Fresh(ts)
    PROVE  Apart(B)
<1>1. Fresh(ts) \in SUBSET ts
  BY DEF Fresh
<1>2. ASSUME NEW r \in B, NEW s \in B, SymbolOf(r.trade) = SymbolOf(s.trade)
      PROVE  r = s
  <2>1. ~Before(r.trade, s.trade) /\ ~Before(s.trade, r.trade)
    BY <1>1, <1>2 DEF Fresh
  <2>2. r.trade \in TodaysTrades /\ s.trade \in TodaysTrades
    BY DEF Purchase
  <2>3. r.trade = s.trade
    BY <2>1, <2>2, BeforeOrder
  <2> QED  BY <2>3 DEF Purchase
<1>3. \A r \in Kept, s \in B : SymbolOf(r.trade) # SymbolOf(s.trade)
  BY DEF Fresh
<1> QED  BY <1>2, <1>3 DEF Apart

LEMMA AffordableFacts ==
    ASSUME NEW c \in Int, NEW chunk \in Nat \ {0}, NEW ts, Cardinality(ts) \in Nat
    PROVE  /\ Affordable(c, chunk, ts) \in Nat
           /\ Affordable(c, chunk, ts) # 0 => Affordable(c, chunk, ts) * chunk <= c
<1> DEFINE q == c \div chunk
           k == Cardinality(ts)
           m == IF q <= k THEN q ELSE k
<1>1. q \in Int /\ q * chunk <= c
  OBVIOUS
<1> HIDE DEF q
<1>2. Min({q, k}) = m /\ m \in Int
  BY <1>1, MinOfTwo
<1>3. Affordable(c, chunk, ts) = IF 0 >= m THEN 0 ELSE m
  BY <1>2, MaxOfTwo DEF Affordable, q
<1>4. ASSUME 0 < m  PROVE m * chunk <= c
  <2>1. m \in Nat /\ m <= q
    BY <1>1, <1>2, <1>4
  <2> HIDE DEF m
  <2>2. PICK r \in Nat : q = m + r
    BY <1>1, <2>1
  <2>3. q * chunk = m * chunk + r * chunk /\ r * chunk \in Nat /\ m * chunk \in Nat
    BY <2>1, <2>2
  <2> QED  BY <1>1, <2>3
<1> HIDE DEF m
<1> QED  BY <1>2, <1>3, <1>4

-----------------------------------------------------------------------------
(* Exits.                                                                  *)

LEMMA ClosingFacts ==
    ASSUME TypeOK, Setup, Slots
    PROVE  /\ IsFiniteSet(Closing) /\ IsFiniteSet(Kept)
           /\ Closing \in SUBSET active /\ Kept \in SUBSET active
           /\ \A s \in active : s \in Slot
           /\ Gain \in Int /\ FreeCash \in Int
           /\ FreeCash = cash + Value(Closing)
           /\ Cost(Closing) \in Int /\ Cost(Kept) \in Int
           /\ Cost(active) = Cost(Closing) + Cost(Kept)
<1>1. Closing \in SUBSET active /\ Kept \in SUBSET active
  BY DEF Closing, Kept
<1>2. IsFiniteSet(Closing) /\ IsFiniteSet(Kept)
  BY <1>1, FS_Subset DEF Setup
<1>3. \A s \in active : s \in Slot
  BY DEF TypeOK
<1>4. Cost(Closing) \in Int /\ Value(Closing) \in Int /\ Cost(Kept) \in Int
  BY <1>1, <1>2, <1>3, CostType
<1>5. Closing \cap Kept = {} /\ Closing \cup Kept = active
  BY DEF Closing, Kept
<1>6. Cost(active) = Cost(Closing) + Cost(Kept)
  BY <1>1, <1>2, <1>3, <1>5, CostUnion
<1>7. cash \in Int
  BY DEF TypeOK
<1>8. Gain \in Int /\ FreeCash \in Int /\ FreeCash = cash + Value(Closing)
  BY <1>4, <1>7 DEF Gain, FreeCash
<1> QED  BY <1>1, <1>2, <1>3, <1>4, <1>6, <1>8

(* After the exits of a day the books still balance.                       *)
LEMMA ExitsBalance ==
    ASSUME TypeOK, Setup, Slots, Books, phase = "days", GoldCost \in Int
    PROVE  FreeCash + Cost(Kept) + GoldCost = Capital + (pnl + Gain)
<1>1. cash \in Int /\ pnl \in Int /\ Capital \in Int
  BY ConstantTypes DEF TypeOK
<1>2. cash + Cost(active) + GoldCost = Capital + pnl
  BY DEF Books
<1> QED  BY <1>1, <1>2, ClosingFacts DEF FreeCash

LEMMA GoldTypes ==
    ASSUME TypeOK
    PROVE  /\ GoldCost \in Nat
           /\ gold # None => gold.qty \in Nat \ {0} /\ gold.price \in Nat \ {0}
<1>1. ASSUME gold # None
      PROVE  gold.qty \in Nat \ {0} /\ gold.price \in Nat \ {0}
  BY <1>1, PriceTypes DEF TypeOK
<1>2. ASSUME NEW p \in Nat, NEW q \in Nat PROVE p * q \in Nat
  OBVIOUS
<1> QED  BY <1>1, <1>2 DEF GoldCost

-----------------------------------------------------------------------------
(* The end of a day, whatever was kept and bought.                         *)

(* The slots of Kept, each with as many shares as rebalancing has left.    *)
Holding(kept) ==
    /\ IsFiniteSet(kept)
    /\ \A k \in kept : /\ k \in Slot /\ (exp # "rebalance" => k.qty >= 1)
                       /\ \E s \in Kept : s.trade = k.trade
    /\ \A r, s \in kept : r.trade = s.trade => r = s

LEMMA KeptHolds ==
    ASSUME TypeOK, Setup, Slots
    PROVE  Holding(Kept)
<1>1. IsFiniteSet(Kept) /\ Kept \in SUBSET active
  BY ClosingFacts
<1> QED  BY <1>1 DEF Holding, TypeOK, Slots

LEMMA HoldingFacts ==
    ASSUME TypeOK, Setup, Slots, dates # {}, NEW kept, Holding(kept)
    PROVE  \A k \in kept : /\ k \in Slot /\ k.trade \in trades
                           /\ \A d \in dates : k.trade.entry < d
                           /\ k.trade.exit # today
                           /\ k.trade \notin TodaysTrades
<1> TAKE k \in kept
<1>1. PICK s \in Kept : s.trade = k.trade
  BY DEF Holding
<1>2. s \in active /\ s \notin Closing
  BY DEF Kept
<1>3. k.trade \in trades /\ \A d \in dates : k.trade.entry < d
  BY <1>1, <1>2 DEF Slots
<1>4. k.trade.exit # today
  BY <1>1, <1>2 DEF Closing
<1>5. k.trade.entry # today
  <2>1. today \in dates /\ today \in Nat
    BY TodayFacts
  <2>2. k.trade.entry < today
    BY <1>3, <2>1
  <2>3. k.trade.entry \in Nat
    BY <1>3, PriceTypes DEF TypeOK
  <2> QED  BY <2>1, <2>2, <2>3
<1> QED  BY <1>3, <1>4, <1>5 DEF Holding, TodaysTrades

(* A day of any experiment: what is kept, bought and left, and the hedge.  *)
Day(kept, bought, c, gain, down) ==
    /\ dates # {} /\ Settle(kept, bought, c, gain, down)
    /\ Holding(kept) /\ Purchase(bought)
    /\ c \in Int /\ gain \in Int /\ down \in Nat
    /\ c + Cost(kept) + GoldCost' = Capital + (pnl + gain)
    /\ exp \notin Undeduplicated => Apart(bought)
    /\ exp \in Undeduplicated =>
         down + Cardinality(bought) = Cardinality(TodaysTrades)
    /\ {blocked', triggered', cooldown'} \subseteq Nat
    /\ gold' = None \/ gold' \in [qty : Nat \ {0}, price : Prices]
    /\ bear' \in BOOLEAN
    /\ gold' # None => exp = "gold" /\ bear'

LEMMA DayParts ==
    ASSUME TypeOK, Setup, Slots, NEW kept, NEW bought, NEW c, NEW gain, NEW down,
           Day(kept, bought, c, gain, down)
    PROVE  /\ active' = kept \cup bought /\ kept \cap bought = {}
           /\ IsFiniteSet(active')
           /\ \A s \in active' : s \in Slot /\ s.trade \in trades
           /\ Cost(bought) \in Int /\ Cost(kept) \in Int
           /\ Cost(active') = Cost(kept) + Cost(bought)
           /\ Cardinality(bought) \in Nat
<1>1. active' = kept \cup bought
  BY DEF Day, Settle
<1>2. \A k \in kept : k \in Slot /\ k.trade \in trades /\ k.trade \notin TodaysTrades
  BY HoldingFacts DEF Day
<1>3. \A s \in bought : s \in Slot /\ s.trade \in TodaysTrades /\ s.trade \in trades
  BY TodayTypes DEF Day, Purchase
<1>4. kept \cap bought = {}
  BY <1>2, <1>3
<1>5. IsFiniteSet(kept) /\ IsFiniteSet(bought) /\ IsFiniteSet(active')
  BY <1>1, FS_Union DEF Day, Holding, Purchase
<1>6. \A s \in kept \cup bought : s \in Slot /\ s.trade \in trades
  BY <1>2, <1>3
<1>7. Cost(kept \cup bought) = Cost(kept) + Cost(bought)
  BY <1>4, <1>5, <1>6, CostUnion
<1>8. Cost(kept) \in Int /\ Cost(bought) \in Int
  BY <1>5, <1>6, CostType
<1>9. Cardinality(bought) \in Nat
  BY <1>5, FS_CardinalityType
<1> QED  BY <1>1, <1>4, <1>5, <1>6, <1>7, <1>8, <1>9

LEMMA PeakIs ==
    ASSUME TypeOK, NEW x \in Int
    PROVE  /\ Max({peak, x}) \in Nat /\ Max({peak, x}) >= x
<1>1. peak \in Nat
  BY DEF TypeOK
<1> QED  BY <1>1, MaxOfTwo

LEMMA DayTypes ==
    ASSUME TypeOK, Setup, Slots, NEW kept, NEW bought, NEW c, NEW gain, NEW down,
           Day(kept, bought, c, gain, down)
    PROVE  TypeOK' /\ Setup'
<1>1. /\ phase' = phase /\ phase = "days" /\ exp' = exp /\ trades' = trades
      /\ floor' = floor /\ rank' = rank /\ weekend' = weekend
      /\ dates' = dates \ {today}
  BY DEF Day, Settle, setup
<1>2. cash' \in Int /\ pnl' \in Int /\ Capital + pnl + gain \in Int
  BY DayParts, ConstantTypes DEF Day, Settle, TypeOK
<1>3. \A s \in active' : s \in Slot /\ (exp' # "rebalance" => s.qty >= 1)
  BY <1>1, DayParts DEF Day, Holding, Purchase
<1>4. yearly' \in [Years -> Int]
  <2>1. yearly \in [Years -> Int] /\ gain \in Int
    BY DEF TypeOK, Day
  <2> DEFINE y == Year(today)
  <2>2. yearly' = [yearly EXCEPT ![y] = yearly[y] + gain]
    BY DEF Day, Settle, YearsAfter
  <2> HIDE DEF y
  <2>3. \A x \in Int : [yearly EXCEPT ![y] = x] \in [Years -> Int]
    BY <2>1
  <2>4. y \in Years => yearly[y] + gain \in Int
    BY <2>1
  <2>5. y \in Years
    BY DEF y, Year, Years
  <2> QED  BY <2>2, <2>3, <2>4, <2>5
<1>5. peak' \in Nat
  BY <1>2, PeakIs DEF Day, Settle
<1>6. taken' \in Nat /\ skipped' \in Nat
  <2>1. Cardinality(bought) \in Nat /\ down \in Nat
    BY DayParts DEF Day
  <2>2. taken' = taken + Cardinality(bought) /\ skipped' = skipped + down
    BY DEF Day, Settle
  <2>3. taken \in Nat /\ skipped \in Nat
    BY DEF TypeOK
  <2> QED  BY <2>1, <2>2, <2>3
<1>7. /\ blocked' \in Nat /\ triggered' \in Nat /\ cooldown' \in Nat
      /\ gold' = None \/ gold' \in [qty : Nat \ {0}, price : Prices]
      /\ bear' \in BOOLEAN
  BY DEF Day
<1>8. TypeOK'
  <2>1. {peak', taken', skipped', blocked', triggered', cooldown'} \subseteq Nat
    BY <1>5, <1>6, <1>7
  <2>2. {cash', pnl'} \subseteq Int
    BY <1>2
  <2> QED  BY <1>1, <1>3, <1>4, <1>7, <2>1, <2>2 DEF TypeOK
<1>9. Setup'
  BY <1>1, DayParts DEF Day, Setup
<1> QED  BY <1>8, <1>9

LEMMA DaySlots ==
    ASSUME TypeOK, Setup, History, Slots, Exits,
           NEW kept, NEW bought, NEW c, NEW gain, NEW down,
           Day(kept, bought, c, gain, down)
    PROVE  History' /\ Slots' /\ Exits'
<1>1. /\ phase' = phase /\ exp' = exp /\ trades' = trades /\ weekend' = weekend
      /\ dates' = dates \ {today} /\ dates # {}
  BY DEF Day, Settle, setup
<1>2. /\ today \in dates /\ today \in Nat
      /\ \A d \in dates : d \in Nat /\ today <= d
  BY <1>1, TodayFacts
<1>3. \A s \in bought : s \in Slot /\ s.trade \in trades /\ s.trade.entry = today
  BY TodayTypes DEF Day, Purchase
<1>4. \A k \in kept : /\ k.trade \in trades /\ \A d \in dates : k.trade.entry < d
                      /\ k.trade.exit # today /\ k.trade \notin TodaysTrades
  BY <1>1, HoldingFacts DEF Day
<1>5. active' = kept \cup bought
  BY DayParts
<1>6. \A t \in trades : t.entry \in Nat /\ t.exit \in Nat /\ t.entry <= t.exit
  BY PriceTypes DEF TypeOK, History
<1>7. History'
  BY <1>1 DEF History, StrategyOf
<1>8. Slots'
  <2>1. \A s \in active' : s.trade \in trades' /\ \A d \in dates' : s.trade.entry < d
    <3>1. \A s \in bought, d \in dates' : s.trade.entry < d
      BY <1>1, <1>2, <1>3
    <3> QED  BY <1>1, <1>3, <1>4, <1>5, <3>1
  <2>2. \A r, s \in active' : r.trade = s.trade => r = s
    <3>1. \A r \in kept, s \in bought : r.trade # s.trade
      BY <1>4 DEF Day, Purchase
    <3> QED  BY <1>5, <3>1 DEF Day, Holding, Purchase
  <2> QED  BY <2>1, <2>2 DEF Slots
<1>9. \A t \in trades : Visited(t.exit)' \/ \A e \in dates' : t.exit < e
  <2> TAKE t \in trades
  <2>1. CASE \A e \in dates : t.exit < e
    BY <1>1, <2>1
  <2>2. CASE t.exit = today
    BY <1>1, <1>2, <2>2
  <2>3. CASE Visited(t.exit) /\ t.exit # today
    BY <1>1, <2>3 DEF Visited
  <2> QED  BY <2>1, <2>2, <2>3 DEF Exits
<1>10. \A s \in active' : Visited(s.trade.exit)' \/ s.trade.exit = s.trade.entry
  <2>1. ASSUME NEW k \in kept
        PROVE  Visited(k.trade.exit)' \/ k.trade.exit = k.trade.entry
    <3>1. PICK s \in Kept : s.trade = k.trade
      BY DEF Day, Holding
    <3>2. Visited(k.trade.exit) \/ k.trade.exit = k.trade.entry
      BY <3>1 DEF Exits, Kept
    <3> QED  BY <1>1, <1>4, <3>2 DEF Visited
  <2>2. ASSUME NEW s \in bought
        PROVE  Visited(s.trade.exit)' \/ s.trade.exit = s.trade.entry
    <3> DEFINE t == s.trade
    <3>1. t \in trades /\ t.entry = today /\ t.exit \in Nat /\ today <= t.exit
      BY <1>3, <1>6
    <3> HIDE DEF t
    <3>2. CASE t.exit = today
      BY <3>1, <3>2 DEF t
    <3>3. CASE t.exit # today
      <4>1. Visited(t.exit)
        BY <1>2, <3>1 DEF Exits
      <4> QED  BY <1>1, <3>3, <4>1 DEF Visited, t
    <3> QED  BY <3>2, <3>3
  <2> QED  BY <1>5, <2>1, <2>2
<1>11. Exits'
  BY <1>1, <1>9, <1>10 DEF Exits
<1> QED  BY <1>7, <1>8, <1>11

(* The years of a result, added up.                                        *)
LEMMA YearSum ==
    ASSUME NEW f \in [Years -> Int]
    PROVE  SumOver(f) = f[1] + f[2] /\ f[1] \in Int /\ f[2] \in Int
<1>1. Years = {1, 2}
  BY DEF Years
<1>2. IsFiniteSet({1}) /\ IsFiniteSet({1, 2}) /\ DOMAIN f = {1, 2}
  <2>1. IsFiniteSet({1} \cup {2})
    BY FS_Singleton, FS_Union
  <2>2. {1} \cup {2} = {1, 2}
    OBVIOUS
  <2> QED  BY <1>1, <2>1, <2>2, FS_Singleton
<1>3. f[1] \in Int /\ f[2] \in Int
  BY <1>1
<1>4. \A x \in {1, 2} : f[x] \in Int
  BY <1>3
<1>5. SumFunctionOnSet(f, {1, 2}) = f[2] + SumFunctionOnSet(f, {1, 2} \ {2})
  <2>1. 2 \in {1, 2}
    OBVIOUS
  <2> QED  BY <1>2, <1>4, <2>1, SumStep
<1>6. SumFunctionOnSet(f, {1}) = f[1] + SumFunctionOnSet(f, {1} \ {1})
  <2>1. 1 \in {1} /\ \A x \in {1} : f[x] \in Int
    BY <1>3
  <2> QED  BY <1>2, <2>1, SumStep
<1>7. {1, 2} \ {2} = {1} /\ {1} \ {1} = {}
  OBVIOUS
<1>8. SumFunctionOnSet(f, {}) = 0
  BY SumEmpty
<1>9. SumOver(f) = SumFunctionOnSet(f, {1, 2})
  BY <1>2, SumOverIs
<1> DEFINE a == f[1]  b == f[2]
<1>10. SumOver(f) = b + (a + 0)
  BY <1>5, <1>6, <1>7, <1>8, <1>9, Zenon
<1>11. a \in Int /\ b \in Int
  BY <1>3
<1>12. SumOver(f) = a + b
  <2> HIDE DEF a, b
  <2> QED  BY <1>10, <1>11
<1> QED  BY <1>3, <1>12

LEMMA DayBooks ==
    ASSUME TypeOK, Setup, Slots, Books, NEW kept, NEW bought, NEW c, NEW gain, NEW down,
           Day(kept, bought, c, gain, down)
    PROVE  Books'
<1>1. /\ phase = "days" /\ phase' = phase
      /\ cash' = c - Cost(bought) /\ pnl' = pnl + gain
      /\ yearly' = [yearly EXCEPT ![Year(today)] = @ + gain]
      /\ peak' = Max({peak, Capital + pnl + gain})
      /\ c \in Int /\ gain \in Int
      /\ c + Cost(kept) + GoldCost' = Capital + (pnl + gain)
  BY DEF Day, Settle, YearsAfter
<1>2. pnl \in Int /\ Capital \in Int /\ yearly \in [Years -> Int] /\ pnl = SumOver(yearly)
  BY <1>1, ConstantTypes DEF TypeOK, Books
<1>3. /\ Cost(bought) \in Int /\ Cost(kept) \in Int
      /\ Cost(active') = Cost(kept) + Cost(bought)
  BY DayParts
<1>4. TypeOK'
  BY DayTypes
<1>5. GoldCost' \in Int
  <2>1. CASE gold' = None
    BY <2>1 DEF GoldCost
  <2>2. CASE gold' # None
    <3>1. gold'.qty \in Nat /\ gold'.price \in Nat
      BY <2>2, PriceTypes DEF Day
    <3>2. GoldCost' = gold'.qty * gold'.price
      BY <2>2 DEF GoldCost
    <3> QED  BY <3>1, <3>2
  <2> QED  BY <2>1, <2>2
<1>6. cash' + Cost(active') + GoldCost' = Capital + pnl'
  <2> DEFINE a == Cost(bought)  b == Cost(kept)  g == GoldCost'
  <2>1. a \in Int /\ b \in Int /\ g \in Int
    BY <1>3, <1>5
  <2> HIDE DEF a, b, g
  <2> QED  BY <1>1, <1>2, <1>3, <2>1 DEF a, b, g
<1>7. pnl' = SumOver(yearly')
  <2> DEFINE y == Year(today)
  <2>1. y = 1 \/ y = 2
    BY DEF y, Year
  <2>2. yearly' = [yearly EXCEPT ![y] = yearly[y] + gain]
    BY <1>1 DEF y
  <2> HIDE DEF y
  <2>3. yearly' \in [Years -> Int]
    BY <1>4 DEF TypeOK
  <2>4. 1 \in Years /\ 2 \in Years /\ DOMAIN yearly = Years
    BY <1>2 DEF Years
  <2>5. SumOver(yearly) = yearly[1] + yearly[2] /\ yearly[1] \in Int /\ yearly[2] \in Int
    BY <1>2, YearSum
  <2>6. SumOver(yearly') = yearly'[1] + yearly'[2]
    BY <2>3, YearSum
  <2>7. CASE y = 1
    <3>1. yearly'[1] = yearly[1] + gain /\ yearly'[2] = yearly[2]
      BY <2>2, <2>4, <2>7
    <3> QED  BY <1>1, <1>2, <2>5, <2>6, <3>1
  <2>8. CASE y = 2
    <3>1. yearly'[2] = yearly[2] + gain /\ yearly'[1] = yearly[1]
      BY <2>2, <2>4, <2>8
    <3> QED  BY <1>1, <1>2, <2>5, <2>6, <3>1
  <2> QED  BY <2>1, <2>7, <2>8
<1>8. peak' >= Capital + pnl'
  <2>1. Capital + pnl + gain \in Int /\ Capital + pnl + gain = Capital + (pnl + gain)
    BY <1>1, <1>2
  <2>2. peak' >= Capital + pnl + gain
    BY <1>1, <2>1, PeakIs
  <2> QED  BY <1>1, <2>1, <2>2
<1> QED  BY <1>6, <1>7, <1>8 DEF Books

LEMMA DayCounts ==
    ASSUME TypeOK, Setup, Slots, Counts, NEW kept, NEW bought, NEW c, NEW gain, NEW down,
           Day(kept, bought, c, gain, down)
    PROVE  Counts'
<1>1. SUFFICES ASSUME exp' \in Undeduplicated
               PROVE  taken' + skipped' = Cardinality({t \in trades' : t.entry \notin dates'})
  BY DEF Counts
<1>2. /\ exp' = exp /\ trades' = trades /\ dates' = dates \ {today} /\ dates # {}
      /\ taken' = taken + Cardinality(bought) /\ skipped' = skipped + down /\ down \in Nat
  BY DEF Day, Settle, setup
<1>3. down + Cardinality(bought) = Cardinality(TodaysTrades)
  BY <1>1, <1>2 DEF Day
<1> DEFINE A == {t \in trades : t.entry \notin dates}
           B == {t \in trades' : t.entry \notin dates'}
<1>4. taken + skipped = Cardinality(A)
  BY <1>1, <1>2 DEF Counts
<1>5. B = A \cup TodaysTrades /\ A \cap TodaysTrades = {}
  BY <1>2, TodayFacts DEF TodaysTrades
<1>6. IsFiniteSet(A) /\ IsFiniteSet(TodaysTrades)
  BY TodayTypes, FS_Subset DEF Setup
<1>7. Cardinality(A) \in Nat /\ Cardinality(TodaysTrades) \in Nat /\ Cardinality({}) = 0
  BY <1>6, FS_CardinalityType, FS_EmptySet
<1> HIDE DEF A, B
<1>8. Cardinality(B) = Cardinality(A) + Cardinality(TodaysTrades)
  <2>1. Cardinality(A \cup TodaysTrades) =
          Cardinality(A) + Cardinality(TodaysTrades) - Cardinality(A \cap TodaysTrades)
    BY <1>6, FS_Union
  <2>2. Cardinality(B) = Cardinality(A) + Cardinality(TodaysTrades) - 0
    BY <1>5, <1>7, <2>1, Zenon
  <2> QED  BY <1>7, <2>2
<1>9. taken \in Nat /\ skipped \in Nat /\ Cardinality(bought) \in Nat
  BY DayParts DEF TypeOK
<1> QED  BY <1>2, <1>3, <1>4, <1>7, <1>8, <1>9 DEF B

LEMMA DaySymbols ==
    ASSUME TypeOK, Setup, Slots, OneSlotPerSymbol,
           NEW kept, NEW bought, NEW c, NEW gain, NEW down,
           Day(kept, bought, c, gain, down)
    PROVE  OneSlotPerSymbol'
<1>1. SUFFICES ASSUME exp' \notin Undeduplicated,
                      NEW r \in active', NEW s \in active',
                      SymbolOf(r.trade) = SymbolOf(s.trade)
               PROVE  r = s
  BY DEF OneSlotPerSymbol, SymbolOf
<1>2. exp \notin Undeduplicated /\ Apart(bought)
  BY <1>1 DEF Day, Settle, setup
<1>3. active' = kept \cup bought
  BY DayParts
<1>4. \A k \in kept : \E q \in Kept : q.trade = k.trade
  BY DEF Day, Holding
<1>5. CASE r \in kept /\ s \in kept
  <2>1. PICK q \in Kept : q.trade = r.trade
    BY <1>4, <1>5
  <2>2. PICK p \in Kept : p.trade = s.trade
    BY <1>4, <1>5
  <2>3. p \in active /\ q \in active
    BY DEF Kept
  <2>4. p = q
    BY <1>1, <1>2, <2>1, <2>2, <2>3 DEF OneSlotPerSymbol
  <2> QED  BY <1>5, <2>1, <2>2, <2>4 DEF Day, Holding
<1>6. CASE r \in bought /\ s \in bought
  BY <1>1, <1>2, <1>6 DEF Apart
<1>7. \A k \in kept, b \in bought : SymbolOf(k.trade) # SymbolOf(b.trade)
  BY <1>2, <1>4 DEF Apart
<1> QED  BY <1>1, <1>3, <1>5, <1>6, <1>7

LEMMA DayKeeps ==
    ASSUME IInv, NEW kept, NEW bought, NEW c, NEW gain, NEW down,
           Day(kept, bought, c, gain, down)
    PROVE  IInv'
<1>1. TypeOK' /\ Setup'
  BY DayTypes DEF IInv
<1>2. History' /\ Slots' /\ Exits'
  BY DaySlots DEF IInv
<1>3. Books' /\ Counts' /\ OneSlotPerSymbol'
  BY DayBooks, DayCounts, DaySymbols DEF IInv
<1>4. HedgeFollowsRegime'
  BY DEF Day, HedgeFollowsRegime
<1> QED  BY <1>1, <1>2, <1>3, <1>4 DEF IInv

-----------------------------------------------------------------------------
(* What purchases cost.                                                    *)

(* Shares that are bought for a share of the cash cost no more than it, or *)
(* are a single one.                                                       *)
LEMMA ShareCost ==
    ASSUME NEW num \in Nat, NEW den \in Nat \ {0}, NEW price \in Nat \ {0},
           NEW b \in Nat, price <= b, num \div den <= b
    PROVE  price * Shares(num, den, price) <= b
<1> DEFINE d == den * price
           q == num \div d
           e == num \div den
<1>1. d \in Nat \ {0} /\ Shares(num, den, price) = IF 1 >= q THEN 1 ELSE q
  <2>1. num \in Int
    OBVIOUS
  <2> QED  BY <2>1, SharesType, Zenon
<1> HIDE DEF d
<1>2. q \in Nat /\ q * d <= num
  BY <1>1, Division
<1> HIDE DEF q
<1>3. (q * price) * den = q * d /\ q * price \in Nat
  BY <1>2 DEF d
<1>4. q * price <= e
  BY <1>2, <1>3, Division
<1>5. e \in Nat
  BY Division
<1> HIDE DEF e
<1>6. q * price = price * q
  BY <1>2
<1> QED  BY <1>1, <1>2, <1>3, <1>4, <1>5, <1>6 DEF e

(* n purchases of no more than b each cost no more than n times b.         *)
LEMMA CostBound ==
    ASSUME NEW B, Purchase(B), NEW n \in Nat, NEW b \in Nat, Cardinality(B) <= n,
           \A s \in B : s.trade.price * s.qty <= b
    PROVE  Cost(B) <= n * b
<1> DEFINE f == Paid(B)  k == Cardinality(B)
<1>1. IsFiniteSet(B) /\ \A s \in B : s \in Slot
  BY DEF Purchase
<1>2. \A s \in B : f[s] \in Int /\ f[s] = s.trade.price * s.qty
  BY <1>1, PaidTypes
<1>3. \A s \in B : f[s] <= (IF s \in B THEN b ELSE 0)
  BY <1>2
<1>4. k \in Nat
  BY <1>1, FS_CardinalityType
<1> HIDE DEF f
<1>5. SumFunctionOnSet(f, B) <= Cardinality(B \cap B) * b
  BY <1>1, <1>2, <1>3, SumSpread
<1>6. B \cap B = B
  OBVIOUS
<1>7. Cost(B) <= k * b
  BY <1>5, <1>6, CostIs DEF f
<1>8. Cost(B) \in Int
  BY <1>1, CostType
<1>9. k <= n
  OBVIOUS
<1> HIDE DEF k
<1>10. PICK r \in Nat : n = k + r
  <2>1. n - k \in Nat /\ n = k + (n - k)
    BY <1>4, <1>9
  <2> QED  BY <2>1
<1>11. n * b = k * b + r * b /\ r * b \in Nat /\ k * b \in Nat
  BY <1>4, <1>10
<1> DEFINE y == n * b  x == k * b  z == r * b
<1>12. y = x + z /\ z \in Nat /\ x \in Nat /\ Cost(B) <= x
  BY <1>7, <1>11
<1> HIDE DEF x, y, z
<1>13. Cost(B) <= y
  BY <1>8, <1>12
<1> QED  BY <1>13 DEF y

(* Equal shares of c, or less, for as many signals as c has chunks for:    *)
(* they cost more than c only if one of them is dearer than a chunk.       *)
LEMMA SharesFit ==
    ASSUME TypeOK, Setup, History, NEW ts \in SUBSET TodaysTrades, NEW c \in Nat,
           NEW n \in Nat, NEW num \in Nat, num <= c, n * floor <= c,
           NEW B, B = Buy(First(ts, n), num, n),
           \A s \in B : s.trade.price <= floor
    PROVE  Cost(B) <= c
<1>1. floor \in Nat \ {0}
  BY DEF Setup
<1>2. CASE n = 0
  <2>1. First(ts, n) = {}
    <3>1. n \in Int /\ n <= 0
      BY <1>2
    <3> QED  BY <3>1, FirstFacts
  <2>2. B = {}
    BY <2>1 DEF Buy
  <2> QED  BY <2>2, CostEmpty
<1>3. CASE n # 0
  <2> DEFINE b == c \div n  S == First(ts, n)
  <2>1. S \in SUBSET ts /\ Cardinality(S) <= n /\ Cardinality(S) \in Nat
    <3>1. n \in Int /\ n >= 0
      OBVIOUS
    <3> QED  BY <3>1, FirstFacts
  <2>2. /\ Purchase(B) /\ Cardinality(B) <= Cardinality(S) /\ Cardinality(B) \in Nat
        /\ \A s \in B : s.qty = Shares(num, n, s.trade.price)
    <3>1. S \in SUBSET TodaysTrades /\ (S # {} => n > 0) /\ n \in Int /\ num \in Int
      BY <1>3, <2>1
    <3>2. B = Buy(S, num, n)
      OBVIOUS
    <3> HIDE DEF S
    <3>3. /\ Purchase(Buy(S, num, n))
          /\ \A s \in Buy(S, num, n) :
                s.trade \in S /\ s.qty = Shares(num, n, s.trade.price)
          /\ Cardinality(Buy(S, num, n)) \in Nat
          /\ Cardinality(Buy(S, num, n)) <= Cardinality(S)
      BY <3>1, BuyFacts
    <3> QED  BY <3>2, <3>3, Zenon
  <2> HIDE DEF S
  <2>3. b \in Nat /\ b * n <= c /\ floor <= b
    <3>1. floor * n = n * floor
      BY <1>1
    <3> QED  BY <1>1, <1>3, <3>1, Division
  <2>4. num \div n <= b
    <3>1. num \div n \in Nat /\ (num \div n) * n <= num
      BY <1>3, Division
    <3>2. (num \div n) * n <= c
      <4> DEFINE m == (num \div n) * n
      <4>1. m \in Nat /\ m <= num
        BY <3>1
      <4> HIDE DEF m
      <4> QED  BY <4>1 DEF m
    <3> QED  BY <1>3, <3>1, <3>2, Division
  <2> HIDE DEF b
  <2>5. ASSUME NEW s \in B  PROVE s.trade.price * s.qty <= b
    <3>1. s.trade.price \in Nat \ {0} /\ s.trade.price <= floor
      BY <2>2, TodayTypes DEF Purchase
    <3>2. s.trade.price <= b
      BY <1>1, <2>3, <3>1
    <3>3. s.trade.price * Shares(num, n, s.trade.price) <= b
      BY <1>3, <2>3, <2>4, <3>1, <3>2, ShareCost
    <3> QED  BY <2>2, <3>3
  <2>6. Cost(B) <= n * b
    BY <2>1, <2>2, <2>3, <2>5, CostBound
  <2>7. Cost(B) \in Int
    BY <2>2, CostType DEF Purchase
  <2>8. n * b = b * n /\ n * b \in Nat
    BY <2>3
  <2> QED  BY <2>3, <2>6, <2>7, <2>8
<1> QED  BY <1>2, <1>3

LEMMA DynamicFacts ==
    ASSUME TypeOK, Setup, History, NEW ts \in SUBSET TodaysTrades, NEW c \in Int
    PROVE  /\ Purchase(Dynamic(ts, c))
           /\ \A s \in Dynamic(ts, c) : s.trade \in ts
           /\ Cardinality(ts) - Cardinality(Dynamic(ts, c)) \in Nat
           /\ c >= 0 => \/ Cost(Dynamic(ts, c)) <= c
                        \/ \E s \in Dynamic(ts, c) : s.trade.price > floor
<1> DEFINE n == Affordable(c, floor, ts)
           S == First(ts, n)
           B == Buy(S, c, n)
<1>1. Dynamic(ts, c) = B
  BY DEF Dynamic
<1>2. floor \in Nat \ {0} /\ IsFiniteSet(ts) /\ Cardinality(ts) \in Nat
  BY TodayTypes, FS_Subset, FS_CardinalityType DEF Setup
<1>3. n \in Nat /\ (n # 0 => n * floor <= c)
  BY <1>2, AffordableFacts
<1> HIDE DEF n
<1>4. /\ S \in SUBSET ts /\ Cardinality(S) <= Cardinality(ts) /\ Cardinality(S) \in Nat
      /\ n = 0 => S = {}
  <2>1. n \in Int /\ (n = 0 => n <= 0)
    BY <1>3
  <2> QED  BY <2>1, FirstFacts
<1>5. /\ Purchase(B) /\ \A s \in B : s.trade \in S
      /\ Cardinality(B) \in Nat /\ Cardinality(B) <= Cardinality(S)
  <2>1. S \in SUBSET TodaysTrades /\ (S # {} => n > 0) /\ n \in Int
    BY <1>3, <1>4
  <2> HIDE DEF S
  <2>2. /\ Purchase(Buy(S, c, n))
        /\ \A s \in Buy(S, c, n) :
              s.trade \in S /\ s.qty = Shares(c, n, s.trade.price)
        /\ Cardinality(Buy(S, c, n)) \in Nat
        /\ Cardinality(Buy(S, c, n)) <= Cardinality(S)
    BY <2>1, BuyFacts
  <2> QED  BY <2>2, Zenon
<1>6. Cardinality(ts) - Cardinality(B) \in Nat
  BY <1>2, <1>4, <1>5
<1>7. ASSUME c >= 0, ~ \E s \in B : s.trade.price > floor
      PROVE  Cost(B) <= c
  <2>1. c \in Nat /\ n * floor <= c
    BY <1>2, <1>3, <1>7
  <2>2. \A s \in B : s.trade.price <= floor
    <3> TAKE s \in B
    <3>1. s.trade.price \in Nat
      BY <1>5, TodayTypes DEF Purchase
    <3> HIDE DEF B
    <3> QED  BY <1>2, <1>7, <3>1
  <2>3. c <= c
    BY <2>1
  <2> HIDE DEF B
  <2> QED  BY <1>3, <2>1, <2>2, <2>3, SharesFit DEF B
<1> HIDE DEF B
<1> QED  BY <1>1, <1>4, <1>5, <1>6, <1>7

(* Exits leave cash that was not negative so, unless shares are owed.      *)
LEMMA ExitsPay ==
    ASSUME TypeOK, Setup, Slots, cash >= 0
    PROVE  FreeCash >= 0 \/ (exp = "rebalance" /\ \E s \in active : s.qty < 0)
<1> SUFFICES ASSUME ~(exp = "rebalance" /\ \E s \in active : s.qty < 0)
             PROVE  FreeCash >= 0
  OBVIOUS
<1>1. IsFiniteSet(Closing) /\ Closing \in SUBSET active /\ FreeCash = cash + Value(Closing)
  BY ClosingFacts
<1>2. ASSUME NEW s \in Closing  PROVE s \in Slot /\ s.qty >= 0
  <2>1. s \in active /\ s \in Slot /\ s.qty \in Int /\ (exp # "rebalance" => s.qty >= 1)
    BY <1>1 DEF TypeOK, Slot
  <2> QED  BY <2>1
<1>3. Value(Closing) \in Nat
  BY <1>1, <1>2, ValueNat
<1>4. cash \in Int
  BY DEF TypeOK
<1> QED  BY <1>1, <1>3, <1>4

-----------------------------------------------------------------------------
(* The days of the experiments: each is a Day, and pays for what it buys   *)
(* or has a reason not to.                                                 *)

Pays(bought, c) ==
    cash >= 0 => \/ Cost(bought) <= c
                 \/ \E s \in bought : s.trade.price > floor
                 \/ exp = "rebalance" /\ \E s \in active : s.qty < 0
                 \/ gold' # gold /\ gold'.price > GoldChunk

SomeDay ==
    \E kept, bought, c, gain, down :
        Day(kept, bought, c, gain, down) /\ Pays(bought, c)

(* A day that only closes and buys.                                        *)
LEMMA Ordinary ==
    ASSUME IInv, dates # {}, NEW B, NEW down \in Nat,
           Settle(Kept, B, FreeCash, Gain, down), Purchase(B), UNCHANGED hedge,
           blocked' \in Nat, triggered' \in Nat, cooldown' \in Nat,
           exp \notin Undeduplicated => Apart(B),
           exp \in Undeduplicated => down + Cardinality(B) = Cardinality(TodaysTrades),
           FreeCash >= 0 => Cost(B) <= FreeCash \/ \E s \in B : s.trade.price > floor
    PROVE  SomeDay
<1>1. TypeOK /\ Setup /\ Slots /\ Books /\ HedgeFollowsRegime /\ phase = "days"
  BY DEF IInv, Settle
<1>2. gold' = gold /\ bear' = bear
  BY DEF hedge
<1>3. GoldCost' = GoldCost /\ GoldCost \in Int
  <2>1. GoldCost \in Nat
    BY <1>1, GoldTypes
  <2> QED  BY <1>2, <2>1 DEF GoldCost
<1>4. FreeCash + Cost(Kept) + GoldCost' = Capital + (pnl + Gain)
  BY <1>1, <1>3, ExitsBalance
<1>5. Holding(Kept) /\ FreeCash \in Int /\ Gain \in Int
  BY <1>1, KeptHolds, ClosingFacts
<1>6. /\ gold' = None \/ gold' \in [qty : Nat \ {0}, price : Prices]
      /\ bear' \in BOOLEAN
      /\ gold' # None => exp = "gold" /\ bear'
  BY <1>1, <1>2 DEF TypeOK, Setup, HedgeFollowsRegime
<1>7. {blocked', triggered', cooldown'} \subseteq Nat
  OBVIOUS
<1>8. Day(Kept, B, FreeCash, Gain, down)
  BY <1>4, <1>5, <1>6, <1>7 DEF Day
<1>9. Pays(B, FreeCash)
  BY <1>1, ExitsPay DEF Pays
<1> QED  BY <1>8, <1>9 DEF SomeDay

LEMMA GatesStay ==
    ASSUME TypeOK, UNCHANGED gates
    PROVE  blocked' \in Nat /\ triggered' \in Nat /\ cooldown' \in Nat
BY DEF TypeOK, gates

(* Every signal is counted as taken or skipped.                            *)
LEMMA PlainIsDay ==
    ASSUME IInv, dates # {}, NEW B, NEW ts, PlainDay(ts, B), Purchase(B),
           Cardinality(ts) - Cardinality(B) \in Nat,
           exp \notin Undeduplicated => Apart(B),
           exp \in Undeduplicated => ts = TodaysTrades,
           FreeCash >= 0 => Cost(B) <= FreeCash \/ \E s \in B : s.trade.price > floor
    PROVE  SomeDay
<1> DEFINE down == Cardinality(ts) - Cardinality(B)
<1>1. Settle(Kept, B, FreeCash, Gain, down) /\ UNCHANGED hedge /\ UNCHANGED gates
  BY DEF PlainDay, hedge, gates
<1>2. TypeOK /\ Setup
  BY DEF IInv
<1>3. blocked' \in Nat /\ triggered' \in Nat /\ cooldown' \in Nat
  BY <1>1, <1>2, GatesStay
<1>4. exp \in Undeduplicated => down + Cardinality(B) = Cardinality(TodaysTrades)
  <2> SUFFICES ASSUME exp \in Undeduplicated
               PROVE  down + Cardinality(B) = Cardinality(TodaysTrades)
    OBVIOUS
  <2> DEFINE m == Cardinality(TodaysTrades)  k == Cardinality(B)
  <2>1. m \in Nat /\ k \in Nat
    BY <1>2, TodayTypes, FS_CardinalityType DEF Purchase
  <2>2. down = m - k
    OBVIOUS
  <2> HIDE DEF down, m, k
  <2>3. down + k = m
    BY <2>1, <2>2
  <2> QED  BY <2>3 DEF m, k
<1>5. down \in Nat
  OBVIOUS
<1> HIDE DEF down
<1> QED  BY <1>1, <1>3, <1>4, <1>5, Ordinary

LEMMA UndeduplicatedDay ==
    ASSUME IInv, CombosDay \/ MasterDay
    PROVE  SomeDay
<1> DEFINE B == Dynamic(TodaysTrades, FreeCash)
<1>1. dates # {} /\ exp \in Undeduplicated /\ PlainDay(TodaysTrades, B)
  BY DEF CombosDay, MasterDay, Loop, Undeduplicated
<1>2. FreeCash \in Int
  BY ClosingFacts DEF IInv
<1>3. /\ Purchase(B) /\ Cardinality(TodaysTrades) - Cardinality(B) \in Nat
      /\ FreeCash >= 0 => Cost(B) <= FreeCash \/ \E s \in B : s.trade.price > floor
  BY <1>2, DynamicFacts DEF IInv
<1> HIDE DEF B
<1> QED  BY <1>1, <1>3, PlainIsDay

LEMMA FreshFacts ==
    ASSUME IInv, NEW us \in SUBSET TodaysTrades, NEW c \in Int
    PROVE  /\ Purchase(Dynamic(Fresh(us), c)) /\ Apart(Dynamic(Fresh(us), c))
           /\ Cardinality(Fresh(us)) - Cardinality(Dynamic(Fresh(us), c)) \in Nat
           /\ c >= 0 => \/ Cost(Dynamic(Fresh(us), c)) <= c
                        \/ \E s \in Dynamic(Fresh(us), c) : s.trade.price > floor
<1> DEFINE ts == Fresh(us)  B == Dynamic(ts, c)
<1>1. TypeOK /\ Setup /\ History
  BY DEF IInv
<1>2. ts \in SUBSET TodaysTrades
  BY DEF Fresh
<1>3. /\ Purchase(B) /\ \A s \in B : s.trade \in ts
      /\ Cardinality(ts) - Cardinality(B) \in Nat
      /\ c >= 0 => Cost(B) <= c \/ \E s \in B : s.trade.price > floor
  <2> HIDE DEF ts
  <2> QED  BY <1>1, <1>2, DynamicFacts
<1>4. Apart(B)
  <2> HIDE DEF B
  <2> QED  BY <1>1, <1>3, FreshApart
<1> QED  BY <1>3, <1>4

LEMMA DeduplicatedDay ==
    ASSUME IInv, TenYearDay \/ WalkForwardDay \/ SensitivityDay \/ TrainTestDay
    PROVE  SomeDay
<1> DEFINE ts == Fresh(TodaysTrades)  B == Dynamic(ts, FreeCash)
<1>1. dates # {} /\ exp \notin Undeduplicated /\ PlainDay(ts, B)
  BY DEF TenYearDay, WalkForwardDay, SensitivityDay, TrainTestDay, Loop, Undeduplicated
<1>2. FreeCash \in Int
  BY ClosingFacts DEF IInv
<1>3. /\ Purchase(B) /\ Apart(B) /\ Cardinality(ts) - Cardinality(B) \in Nat
      /\ FreeCash >= 0 => Cost(B) <= FreeCash \/ \E s \in B : s.trade.price > floor
  BY <1>2, FreshFacts
<1> HIDE DEF B, ts
<1> QED  BY <1>1, <1>3, PlainIsDay

(* What is bought out of the first n fresh signals.                        *)
LEMMA SelectionFacts ==
    ASSUME IInv, NEW n \in Int, NEW num \in Int, NEW den \in Int,
           n > 0 => den > 0,
           NEW S, S = First(Fresh(TodaysTrades), n)
    PROVE  /\ Purchase(Buy(S, num, den)) /\ Apart(Buy(S, num, den))
           /\ Cardinality(Fresh(TodaysTrades)) - Cardinality(Buy(S, num, den)) \in Nat
           /\ \A s \in Buy(S, num, den) : s.qty = Shares(num, den, s.trade.price)
           /\ n >= 0 => Cardinality(Buy(S, num, den)) <= n
           /\ n <= 0 => Buy(S, num, den) = {}
<1> DEFINE ts == Fresh(TodaysTrades)  B == Buy(S, num, den)
<1>1. TypeOK /\ Setup /\ History
  BY DEF IInv
<1>2. ts \in SUBSET TodaysTrades
  BY DEF Fresh
<1>3. /\ S \in SUBSET ts /\ Cardinality(S) \in Nat /\ Cardinality(ts) \in Nat
      /\ Cardinality(S) <= Cardinality(ts)
      /\ n >= 0 => Cardinality(S) <= n
      /\ n <= 0 => S = {}
  <2> HIDE DEF ts
  <2> QED  BY <1>1, <1>2, FirstFacts DEF ts
<1>4. S \in SUBSET TodaysTrades /\ (S # {} => den > 0)
  BY <1>2, <1>3
<1>5. /\ Purchase(B) /\ \A s \in B : s.trade \in S /\ s.qty = Shares(num, den, s.trade.price)
      /\ Cardinality(B) \in Nat /\ Cardinality(B) <= Cardinality(S)
  BY <1>1, <1>4, BuyFacts
<1>6. n <= 0 => B = {}
  BY <1>3 DEF Buy
<1> HIDE DEF B
<1>7. Apart(B)
  BY <1>1, <1>3, <1>5, FreshApart
<1>8. Cardinality(ts) - Cardinality(B) \in Nat
  BY <1>3, <1>5
<1>9. n >= 0 => Cardinality(B) <= n
  BY <1>3, <1>5
<1> QED  BY <1>5, <1>6, <1>7, <1>8, <1>9 DEF B

LEMMA CappedDay ==
    ASSUME IInv, EntryCapDay
    PROVE  SomeDay
<1> DEFINE ts == Fresh(TodaysTrades)
           n == Affordable(FreeCash, floor, ts)
           num == Min({FreeCash, EntryCap * n})
           S == First(ts, n)
           B == Buy(S, num, n)
<1>1. dates # {} /\ exp \notin Undeduplicated /\ PlainDay(ts, B)
  BY DEF EntryCapDay, Loop, Undeduplicated
<1>2. TypeOK /\ Setup /\ History /\ Slots
  BY DEF IInv
<1>3. FreeCash \in Int
  BY <1>2, ClosingFacts
<1>4. ts \in SUBSET TodaysTrades
  BY DEF Fresh
<1>5. floor \in Nat \ {0} /\ Cardinality(ts) \in Nat
  BY <1>2, <1>4, TodayTypes, FS_Subset, FS_CardinalityType DEF Setup
<1>6. n \in Nat /\ (n # 0 => n * floor <= FreeCash)
  BY <1>3, <1>5, AffordableFacts
<1> HIDE DEF n, ts
<1>7. EntryCap * n \in Nat
  BY <1>6, ConstantTypes
<1>8. num \in Int /\ num <= FreeCash /\ (FreeCash >= 0 => num >= 0)
  <2> DEFINE m == EntryCap * n
  <2> HIDE DEF m
  <2>1. Min({FreeCash, m}) = IF FreeCash <= m THEN FreeCash ELSE m
    BY <1>3, <1>7, MinOfTwo DEF m
  <2>2. num = Min({FreeCash, m})
    BY DEF m
  <2>3. m \in Nat
    BY <1>7 DEF m
  <2> QED  BY <1>3, <2>1, <2>2, <2>3
<1> HIDE DEF num
<1>9. n \in Int /\ (n > 0 => n > 0)
  BY <1>6
<1>10. Purchase(B) /\ Apart(B) /\ Cardinality(ts) - Cardinality(B) \in Nat
  <2> HIDE DEF S
  <2> QED  BY <1>8, <1>9, SelectionFacts DEF S, ts
<1>11. ASSUME FreeCash >= 0, ~ \E s \in B : s.trade.price > floor
       PROVE  Cost(B) <= FreeCash
  <2>1. FreeCash \in Nat /\ num \in Nat /\ n * floor <= FreeCash
    <3>1. n = 0 => n * floor = 0
      BY <1>5
    <3> QED  BY <1>3, <1>5, <1>6, <1>8, <1>11, <3>1
  <2>2. \A s \in B : s.trade.price <= floor
    <3> TAKE s \in B
    <3>1. s.trade.price \in Nat
      BY <1>2, <1>10, TodayTypes DEF Purchase
    <3> HIDE DEF B
    <3> QED  BY <1>5, <1>11, <3>1
  <2> HIDE DEF B
  <2> QED  BY <1>2, <1>4, <1>6, <1>8, <2>1, <2>2, SharesFit DEF B
<1> HIDE DEF B
<1> QED  BY <1>1, <1>10, <1>11, PlainIsDay

LEMMA FixedIsDay ==
    ASSUME IInv, FixedDay
    PROVE  SomeDay
<1> DEFINE ts == Fresh(TodaysTrades)
           slots == FreeCash \div FixedChunk
           n == IF slots >= 0 THEN slots ELSE Cardinality(ts) + slots
           S == First(ts, n)
           B == Buy(S, FixedChunk, 1)
<1>1. dates # {} /\ exp = "fixed" /\ PlainDay(ts, B)
  BY DEF FixedDay, Loop
<1>2. TypeOK /\ Setup /\ History /\ Slots
  BY DEF IInv
<1>3. FreeCash \in Int
  BY <1>2, ClosingFacts
<1>4. ts \in SUBSET TodaysTrades
  BY DEF Fresh
<1>5. floor \in Nat \ {0} /\ Cardinality(ts) \in Nat /\ floor = Chunk
  BY <1>1, <1>2, <1>4, TodayTypes, FS_Subset, FS_CardinalityType DEF Setup, Sweeps
<1>6. FixedChunk \in Nat \ {0} /\ Chunk <= FixedChunk
  BY ConstantTypes
<1> HIDE DEF ts
<1>7. slots \in Int /\ slots * FixedChunk <= FreeCash /\ (FreeCash >= 0 => slots >= 0)
  BY <1>3, <1>6
<1> HIDE DEF slots
<1>8. n \in Int
  BY <1>5, <1>7
<1> HIDE DEF n
<1>9. /\ Purchase(B) /\ Apart(B) /\ Cardinality(ts) - Cardinality(B) \in Nat
      /\ \A s \in B : s.qty = Shares(FixedChunk, 1, s.trade.price)
      /\ n >= 0 => Cardinality(B) <= n
  <2>1. FixedChunk \in Int /\ 1 \in Int /\ (n > 0 => 1 > 0)
    BY <1>6
  <2> HIDE DEF S
  <2> QED  BY <1>8, <2>1, SelectionFacts DEF S, ts
<1>10. ASSUME FreeCash >= 0, ~ \E s \in B : s.trade.price > floor
       PROVE  Cost(B) <= FreeCash
  <2>1. n \in Nat /\ n * FixedChunk <= FreeCash
    BY <1>7, <1>8, <1>10 DEF n
  <2>2. ASSUME NEW s \in B  PROVE s.trade.price * s.qty <= FixedChunk
    <3>1. s.trade.price \in Nat \ {0}
      BY <1>2, <1>9, TodayTypes DEF Purchase
    <3>2. s.trade.price <= FixedChunk
      <4> DEFINE p == s.trade.price
      <4>1. p \in Nat /\ ~(p > floor)
        BY <1>10, <3>1
      <4> HIDE DEF p
      <4> QED  BY <1>5, <1>6, <4>1 DEF p
    <3>3. FixedChunk \div 1 <= FixedChunk
      BY <1>6
    <3>4. s.trade.price * Shares(FixedChunk, 1, s.trade.price) <= FixedChunk
      BY <1>6, <3>1, <3>2, <3>3, ShareCost
    <3> QED  BY <1>9, <3>4
  <2> HIDE DEF B
  <2>3. Cost(B) <= n * FixedChunk
    BY <1>6, <1>9, <2>1, <2>2, CostBound
  <2>4. Cost(B) \in Int /\ n * FixedChunk \in Int
    BY <1>6, <1>9, <2>1, CostType DEF Purchase
  <2> QED  BY <1>3, <2>1, <2>3, <2>4
<1>11. exp \notin Undeduplicated
  BY <1>1 DEF Undeduplicated
<1> HIDE DEF B
<1> QED  BY <1>1, <1>9, <1>10, <1>11, PlainIsDay

(* A gate that is shut leaves nothing to buy.                              *)
LEMMA GatedIsDay ==
    ASSUME IInv, dates # {}, exp \notin Undeduplicated, NEW shut \in BOOLEAN,
           GatedDay(shut), triggered' \in Nat, cooldown' \in Nat
    PROVE  SomeDay
<1> DEFINE ts == IF shut THEN {} ELSE Fresh(TodaysTrades)
           B == Dynamic(ts, FreeCash)
<1>1. /\ Settle(Kept, B, FreeCash, Gain, 0) /\ UNCHANGED hedge
      /\ blocked' = blocked + (IF shut THEN 1 ELSE 0)
  BY DEF GatedDay
<1>2. TypeOK /\ Setup /\ History /\ Slots
  BY DEF IInv
<1>3. FreeCash \in Int
  BY <1>2, ClosingFacts
<1>4. ts \in SUBSET TodaysTrades
  BY DEF Fresh
<1>5. ts = Fresh(ts)
  <2>1. CASE shut
    BY <2>1 DEF Fresh
  <2>2. CASE ~shut
    BY <2>2 DEF Fresh
  <2> QED  BY <2>1, <2>2
<1> HIDE DEF ts
<1>6. /\ Purchase(B) /\ Apart(B)
      /\ FreeCash >= 0 => Cost(B) <= FreeCash \/ \E s \in B : s.trade.price > floor
  BY <1>3, <1>4, <1>5, FreshFacts
<1>7. blocked' \in Nat
  BY <1>1, <1>2 DEF TypeOK
<1>8. 0 \in Nat
  OBVIOUS
<1> HIDE DEF B
<1> QED  BY <1>1, <1>6, <1>7, <1>8, Ordinary

LEMMA VixIsDay ==
    ASSUME IInv, VixDay \/ RegimeDay \/ BreakerDay
    PROVE  SomeDay
<1>1. /\ dates # {} /\ exp \notin Undeduplicated /\ UNCHANGED <<triggered, cooldown>>
      /\ \E shut \in BOOLEAN : GatedDay(shut)
  BY DEF VixDay, RegimeDay, BreakerDay, Loop, Undeduplicated
<1>2. triggered' \in Nat /\ cooldown' \in Nat
  BY <1>1 DEF IInv, TypeOK
<1> QED  BY <1>1, <1>2, GatedIsDay

LEMMA MomentumIsDay ==
    ASSUME IInv, MomentumDay
    PROVE  SomeDay
<1>1. /\ dates # {} /\ exp \notin Undeduplicated
      /\ UNCHANGED gates /\ UNCHANGED hedge
  BY DEF MomentumDay, Loop, Undeduplicated, gates, hedge
<1>2. PICK weak \in SUBSET TodaysTrades :
        LET ts == Fresh(TodaysTrades \ weak) IN
        Settle(Kept, Dynamic(ts, FreeCash), FreeCash, Gain, 0)
  BY DEF MomentumDay
<1> DEFINE us == TodaysTrades \ weak
           B == Dynamic(Fresh(us), FreeCash)
<1>3. Settle(Kept, B, FreeCash, Gain, 0) /\ us \in SUBSET TodaysTrades
  BY <1>2
<1> HIDE DEF us
<1>4. FreeCash \in Int
  BY ClosingFacts DEF IInv
<1>5. /\ Purchase(B) /\ Apart(B)
      /\ FreeCash >= 0 => Cost(B) <= FreeCash \/ \E s \in B : s.trade.price > floor
  BY <1>3, <1>4, FreshFacts
<1>6. blocked' \in Nat /\ triggered' \in Nat /\ cooldown' \in Nat /\ 0 \in Nat
  BY <1>1, GatesStay DEF IInv
<1> HIDE DEF B
<1> QED  BY <1>1, <1>3, <1>5, <1>6, Ordinary

(* The business days after d run out of weekend sessions.                  *)
LEMMA BusinessDayType ==
    ASSUME TypeOK, NEW d \in Nat, NEW n \in Nat
    PROVE  BusinessDayAfter(d, n) \in Nat
<1> DEFINE R == (d + n)..(d + n + LastDay)
           S == {x \in R : Cardinality(BusinessDays(d + 1, x, weekend)) >= n}
           z == d + n + LastDay
<1>1. LastDay \in Nat
  BY ConstantTypes
<1>2. R \in SUBSET Int /\ IsFiniteSet(R) /\ z \in R
  BY <1>1, FS_Interval
<1>3. Cardinality(BusinessDays(d + 1, z, weekend)) >= n
  <2> DEFINE I == (d + 1)..z
  <2>1. IsFiniteSet(I) /\ Cardinality(I) = n + LastDay
    <3>1. d + 1 \in Int /\ z \in Int /\ z - (d + 1) + 1 = n + LastDay
      BY <1>1
    <3>2. n + LastDay >= 0 /\ n + LastDay \in Nat
      BY <1>1
    <3>3. IsFiniteSet(I) /\ Cardinality(I) = IF d + 1 > z THEN 0 ELSE z - (d + 1) + 1
      BY <3>1, FS_Interval
    <3>4. d + 1 > z => n + LastDay = 0
      BY <1>1
    <3> HIDE DEF I, z
    <3> QED  BY <3>1, <3>2, <3>3, <3>4
  <2>2. IsFiniteSet(Days) /\ Cardinality(Days) = LastDay
    <3>1. 1 \in Int /\ LastDay \in Int
      BY <1>1
    <3>2. IsFiniteSet(Days) /\ Cardinality(Days) = IF 1 > LastDay THEN 0 ELSE LastDay - 1 + 1
      BY <3>1, FS_Interval DEF Days
    <3> QED  BY <1>1, <3>2
  <2>3. I \cap weekend \in SUBSET Days
    BY DEF TypeOK
  <2> DEFINE J == I \cap weekend
  <2>4. IsFiniteSet(J) /\ Cardinality(J) <= LastDay
    BY <2>2, <2>3, FS_Subset
  <2>5. Cardinality(J) \in Nat
    BY <2>4, FS_CardinalityType
  <2>6. Cardinality(I \ weekend) = Cardinality(I) - Cardinality(J)
    BY <2>1, FS_Difference
  <2>7. BusinessDays(d + 1, z, weekend) = I \ weekend
    BY DEF BusinessDays
  <2> DEFINE a == Cardinality(I)  j == Cardinality(J)
  <2>8. a = n + LastDay /\ j \in Nat /\ j <= LastDay
    BY <2>1, <2>4, <2>5
  <2>9. Cardinality(BusinessDays(d + 1, z, weekend)) = a - j
    BY <2>6, <2>7, Zenon
  <2> HIDE DEF a, j
  <2>10. a - j >= n
    BY <1>1, <2>8
  <2> HIDE DEF I, J, z
  <2> QED  BY <2>9, <2>10
<1>4. S \in SUBSET Int /\ IsFiniteSet(S) /\ S # {}
  <2>1. S \in SUBSET R /\ z \in S
    BY <1>2, <1>3
  <2> HIDE DEF R, S
  <2> QED  BY <1>2, <2>1, FS_Subset
<1>5. Min(S) \in S
  <2> HIDE DEF S
  <2> QED  BY <1>4, MinFacts
<1>6. Min(S) \in R
  BY <1>5
<1>7. BusinessDayAfter(d, n) = Min(S)
  BY DEF BusinessDayAfter
<1> HIDE DEF S
<1> QED  BY <1>1, <1>6, <1>7

LEMMA TimedIsDay ==
    ASSUME IInv, TimedDay
    PROVE  SomeDay
<1> DEFINE tripped == TodaysTrades # {} /\ cooldown = 0 /\ DeepDrawdown
           until == IF tripped THEN BusinessDayAfter(today, ResetDays) ELSE cooldown
           shut == TodaysTrades # {} /\ Cooling(until)
<1>1. /\ dates # {} /\ exp \notin Undeduplicated /\ GatedDay(shut)
      /\ triggered' = triggered + (IF tripped THEN 1 ELSE 0)
      /\ cooldown' = IF TodaysTrades = {} \/ shut THEN until ELSE 0
  BY DEF TimedDay, Loop, Undeduplicated
<1>2. TypeOK /\ triggered \in Nat /\ cooldown \in Nat
  BY DEF IInv, TypeOK
<1>3. until \in Nat
  <2>1. today \in Nat /\ ResetDays \in Nat
    BY <1>1, <1>2, TodayFacts, ConstantTypes
  <2>2. BusinessDayAfter(today, ResetDays) \in Nat
    BY <1>2, <2>1, BusinessDayType
  <2> HIDE DEF tripped
  <2> QED  BY <1>2, <2>2
<1>4. shut \in BOOLEAN
  BY DEF Cooling
<1> HIDE DEF tripped, until, shut
<1>5. triggered' \in Nat /\ cooldown' \in Nat
  BY <1>1, <1>2, <1>3
<1> QED  BY <1>1, <1>4, <1>5, GatedIsDay

LEMMA GoldIsDay ==
    ASSUME IInv, GoldDay
    PROVE  SomeDay
<1>1. /\ dates # {} /\ exp = "gold" /\ phase = "days" /\ UNCHANGED gates
      /\ TypeOK /\ Setup /\ Slots /\ Books /\ HedgeFollowsRegime
  BY DEF GoldDay, Loop, IInv, gates
<1>2. PICK today_bear \in (IF today \in FlipDays THEN BOOLEAN ELSE {bear}) :
      \E open \in (IF today_bear = bear THEN {0} ELSE Prices \cup {0}) :
          LET sold == HedgeSold(today_bear, open)
              price == IF open = 0 THEN gold.price ELSE open
              gained == IF sold THEN gold.qty * (price - gold.price) ELSE 0
              c == FreeCash + (IF sold THEN GoldCost + gained ELSE 0)
              buys == /\ today_bear /\ ~bear /\ gold = None
                      /\ c >= GoldChunk /\ open # 0
              qty == Shares(GoldChunk, 1, open)
              left == c - (IF buys THEN qty * open ELSE 0)
              ts == Fresh(TodaysTrades)
              bought == Dynamic(ts, left)
          IN /\ Settle(Kept, bought, left, Gain + gained,
                       Cardinality(ts) - Cardinality(bought))
             /\ gold' = CASE buys -> [qty |-> qty, price |-> open]
                          [] sold -> None
                          [] OTHER -> gold
             /\ bear' = today_bear
  BY DEF GoldDay
<1>3. PICK open \in (IF today_bear = bear THEN {0} ELSE Prices \cup {0}) :
          LET sold == HedgeSold(today_bear, open)
              price == IF open = 0 THEN gold.price ELSE open
              gained == IF sold THEN gold.qty * (price - gold.price) ELSE 0
              c == FreeCash + (IF sold THEN GoldCost + gained ELSE 0)
              buys == /\ today_bear /\ ~bear /\ gold = None
                      /\ c >= GoldChunk /\ open # 0
              qty == Shares(GoldChunk, 1, open)
              left == c - (IF buys THEN qty * open ELSE 0)
              ts == Fresh(TodaysTrades)
              bought == Dynamic(ts, left)
          IN /\ Settle(Kept, bought, left, Gain + gained,
                       Cardinality(ts) - Cardinality(bought))
             /\ gold' = CASE buys -> [qty |-> qty, price |-> open]
                          [] sold -> None
                          [] OTHER -> gold
             /\ bear' = today_bear
  BY <1>2
<1> DEFINE sold == HedgeSold(today_bear, open)
           price == IF open = 0 THEN gold.price ELSE open
           gained == IF sold THEN gold.qty * (price - gold.price) ELSE 0
           c == FreeCash + (IF sold THEN GoldCost + gained ELSE 0)
           buys == /\ today_bear /\ ~bear /\ gold = None
                   /\ c >= GoldChunk /\ open # 0
           qty == Shares(GoldChunk, 1, open)
           left == c - (IF buys THEN qty * open ELSE 0)
           ts == Fresh(TodaysTrades)
           B == Dynamic(ts, left)
           down == Cardinality(ts) - Cardinality(B)
<1>4. /\ Settle(Kept, B, left, Gain + gained, down)
      /\ gold' = CASE buys -> [qty |-> qty, price |-> open]
                   [] sold -> None
                   [] OTHER -> gold
      /\ bear' = today_bear
  BY <1>3
<1>5. /\ bear \in BOOLEAN /\ today_bear \in BOOLEAN
      /\ open = 0 \/ open \in Prices
  BY <1>1 DEF TypeOK
<1>6. open \in Nat /\ (open # 0 => open \in Nat \ {0})
  BY <1>5, PriceTypes
<1>7. /\ FreeCash \in Int /\ Gain \in Int /\ Cost(Kept) \in Int /\ GoldCost \in Nat
      /\ pnl \in Int /\ Capital \in Nat /\ GoldChunk \in Nat \ {0}
  BY <1>1, ClosingFacts, GoldTypes, ConstantTypes DEF TypeOK
<1>8. FreeCash + Cost(Kept) + GoldCost = Capital + (pnl + Gain)
  BY <1>1, <1>7, ExitsBalance
<1>9. sold => /\ gold.qty \in Nat \ {0} /\ gold.price \in Nat \ {0} /\ price \in Nat
              /\ GoldCost = gold.qty * gold.price
              /\ gold # None /\ bear /\ ~today_bear
  BY <1>1, <1>6, GoldTypes DEF HedgeSold, GoldCost
<1>10. /\ gained \in Int /\ c \in Int
       /\ sold => GoldCost + gained \in Nat
       /\ FreeCash >= 0 => c >= 0
       /\ ~sold => c = FreeCash /\ gained = 0
       /\ sold => c = FreeCash + GoldCost + gained
  <2>1. CASE ~sold
    BY <1>7, <2>1
  <2>2. CASE sold
    <3> DEFINE q == gold.qty  p == gold.price
    <3>1. q \in Nat /\ p \in Nat /\ price \in Nat /\ GoldCost = q * p
      BY <1>9, <2>2
    <3>2. gained = q * (price - p) /\ c = FreeCash + (GoldCost + gained)
      BY <2>2
    <3> HIDE DEF q, p, gained, price, c, sold
    <3>3. q * (price - p) = q * price - q * p /\ q * price \in Nat /\ q * p \in Nat
      BY <3>1
    <3>4. GoldCost + gained = q * price
      BY <3>1, <3>2, <3>3
    <3> QED  BY <1>7, <2>2, <3>1, <3>2, <3>3, <3>4
  <2> QED  BY <2>1, <2>2
<1>11. buys => /\ ~sold /\ gold = None /\ GoldCost = 0 /\ c >= GoldChunk /\ open # 0
               /\ today_bear
  BY DEF HedgeSold, GoldCost
<1>12. open # 0 => /\ qty \in Nat \ {0} /\ qty * open \in Nat
                   /\ open <= GoldChunk => qty * open <= GoldChunk
  <2> SUFFICES ASSUME open # 0
               PROVE  /\ qty \in Nat \ {0} /\ qty * open \in Nat
                      /\ open <= GoldChunk => qty * open <= GoldChunk
    OBVIOUS
  <2>1. open \in Nat \ {0} /\ 1 \in Nat \ {0} /\ GoldChunk \in Int /\ GoldChunk \in Nat
    BY <1>6, <1>7
  <2>2. qty \in Nat \ {0}
    BY <2>1, SharesType
  <2>3. GoldChunk \div 1 <= GoldChunk
    BY <2>1
  <2>4. open <= GoldChunk => open * qty <= GoldChunk
    BY <2>1, <2>3, ShareCost
  <2> HIDE DEF qty
  <2>5. open * qty = qty * open /\ qty * open \in Nat
    BY <2>1, <2>2
  <2> QED  BY <2>2, <2>4, <2>5
<1> HIDE DEF qty, sold, price, gained
<1>13. /\ left \in Int
       /\ buys => left = FreeCash - qty * open /\ gained = 0
       /\ ~buys => left = c
  <2> DEFINE m == qty * open
  <2>1. buys => m \in Nat /\ c = FreeCash /\ gained = 0
    BY <1>10, <1>11, <1>12
  <2>2. left = c - (IF buys THEN m ELSE 0)
    OBVIOUS
  <2>3. left \in Int /\ (buys => left = FreeCash - m) /\ (~buys => left = c)
    <3> HIDE DEF m, c, left, buys
    <3> QED  BY <1>7, <1>10, <2>1, <2>2
  <2> QED  BY <2>1, <2>3
<1> HIDE DEF left
<1>14. /\ Purchase(B) /\ Apart(B) /\ down \in Nat
       /\ left >= 0 => Cost(B) <= left \/ \E s \in B : s.trade.price > floor
  <2>1. TodaysTrades \in SUBSET TodaysTrades
    OBVIOUS
  <2> QED  BY <1>13, <2>1, FreshFacts
<1> HIDE DEF c, buys, down, B, ts
<1>15. /\ buys => gold' = [qty |-> qty, price |-> open]
       /\ sold => gold' = None
       /\ ~buys /\ ~sold => gold' = gold
  BY <1>4, <1>11
<1>16. buys => /\ gold' \in [qty : Nat \ {0}, price : Prices]
               /\ gold'.qty = qty /\ gold'.price = open
  BY <1>5, <1>11, <1>12, <1>15
<1>17. gold' = None \/ gold' \in [qty : Nat \ {0}, price : Prices]
  <2>1. CASE buys
    BY <1>16, <2>1
  <2>2. CASE ~buys
    BY <1>1, <1>15, <2>2 DEF TypeOK
  <2> QED  BY <2>1, <2>2
<1>18. ASSUME NEW r \in [qty : Nat \ {0}, price : Prices]
       PROVE  r # None
  <2>1. DOMAIN r = {"qty", "price"} /\ DOMAIN None = {"nothing"}
    BY DEF None
  <2>2. "qty" \notin {"nothing"}
    OBVIOUS
  <2> QED  BY <2>1, <2>2
<1>19. /\ bear' \in BOOLEAN
       /\ gold' # None => exp = "gold" /\ bear'
  <2>1. ASSUME gold' # None, ~buys  PROVE bear'
    <3>1. ~sold /\ gold' = gold
      BY <1>15, <2>1
    <3>2. bear
      BY <1>1, <2>1, <3>1 DEF HedgeFollowsRegime
    <3> QED  BY <1>4, <1>5, <2>1, <3>1, <3>2 DEF sold, HedgeSold
  <2> QED  BY <1>1, <1>4, <1>5, <1>11, <2>1
<1>20. left + Cost(Kept) + GoldCost' = Capital + (pnl + (Gain + gained))
  <2> DEFINE k == Cost(Kept)  g == GoldCost  h == GoldCost'  m == qty * open
  <2>1. CASE buys
    <3>1. h = m
      BY <1>16, <1>18, <2>1 DEF GoldCost
    <3>2. g = 0 /\ left = FreeCash - m /\ gained = 0 /\ m \in Nat
      BY <1>11, <1>12, <1>13, <2>1
    <3> HIDE DEF g, h, k, m
    <3> QED  BY <1>7, <1>8, <3>1, <3>2 DEF g, h, k
  <2>2. CASE sold
    <3>1. h = 0
      BY <1>15, <2>2 DEF GoldCost
    <3>2. left = FreeCash + g + gained
      BY <1>10, <1>11, <1>13, <2>2
    <3> HIDE DEF g, h, k, m
    <3> QED  BY <1>7, <1>8, <1>10, <3>1, <3>2 DEF g, h, k
  <2>3. CASE ~buys /\ ~sold
    <3>1. h = g
      BY <1>15, <2>3 DEF GoldCost
    <3>2. left = FreeCash /\ gained = 0
      BY <1>10, <1>13, <2>3
    <3> HIDE DEF g, h, k, m
    <3> QED  BY <1>7, <1>8, <3>1, <3>2 DEF g, h, k
  <2> QED  BY <2>1, <2>2, <2>3
<1>21. {blocked', triggered', cooldown'} \subseteq Nat
  BY <1>1, GatesStay
<1>22. Day(Kept, B, left, Gain + gained, down)
  <2>1. Gain + gained \in Int /\ Holding(Kept) /\ exp \notin Undeduplicated
    BY <1>1, <1>7, <1>10, KeptHolds DEF Undeduplicated
  <2> QED  BY <1>1, <1>4, <1>13, <1>14, <1>17, <1>19, <1>20, <1>21, <2>1 DEF Day
<1>23. Pays(B, left)
  <2> SUFFICES ASSUME cash >= 0, ~(gold' # gold /\ gold'.price > GoldChunk)
               PROVE  left >= 0
    BY <1>14 DEF Pays
  <2>1. FreeCash >= 0
    BY <1>1, ExitsPay
  <2>2. CASE ~buys
    BY <1>10, <1>13, <2>1, <2>2
  <2>3. CASE buys
    <3>1. gold' # gold /\ gold'.price = open
      BY <1>11, <1>16, <1>18, <2>3
    <3> DEFINE m == qty * open
    <3>2. open <= GoldChunk
      BY <1>6, <1>7, <3>1
    <3>3. m \in Nat /\ m <= GoldChunk /\ c >= GoldChunk /\ c = FreeCash /\ left = FreeCash - m
      BY <1>10, <1>11, <1>12, <1>13, <2>3, <3>2
    <3> HIDE DEF m
    <3> QED  BY <1>7, <3>3
  <2> QED  BY <2>2, <2>3
<1> QED  BY <1>22, <1>23 DEF SomeDay

-----------------------------------------------------------------------------
(* Rebalancing.                                                            *)

LEMMA TrimType ==
    ASSUME NEW s \in Slot, NEW q \in Nat \ {0}, NEW n \in Nat \ {0}
    PROVE  Trim(s, q, n) \in Nat
<1> DEFINE cost == s.trade.price * s.qty
           x == cost * n - Capital
           d == n * q
<1>1. Capital \in Nat
  BY ConstantTypes
<1>2. cost \in Int
  <2>1. s.trade.price \in Int /\ s.qty \in Int
    BY PriceTypes DEF Slot
  <2> QED  BY <2>1
<1>3. d \in Nat \ {0}
  OBVIOUS
<1>4. Trim(s, q, n) = 0 \/ (~(cost * n <= Capital) /\ Trim(s, q, n) = x \div d)
  BY DEF Trim
<1>5. ~(cost * n <= Capital) => x \in Nat
  <2> DEFINE m == cost * n
  <2>1. m \in Int
    BY <1>2
  <2> HIDE DEF m
  <2> QED  BY <1>1, <2>1 DEF m
<1> HIDE DEF x, d, cost
<1>6. x \in Nat => x \div d \in Nat
  BY <1>3, Division
<1> QED  BY <1>4, <1>5, <1>6

(* The slots T after sold[s] shares of each were sold.                     *)
Trimmed(T, sold) == {[s EXCEPT !.qty = @ - sold[s]] : s \in T}
Bought(T, sold) == [s \in T |-> sold[s] * s.trade.price]

(* Selling shares lowers the cost of the slots by what these had cost.     *)
LEMMA TrimmedFacts ==
    ASSUME NEW K, IsFiniteSet(K), \A s \in K : s \in Slot,
           \A r, s \in K : r.trade = s.trade => r = s,
           NEW sold \in [K -> Int]
    PROVE  /\ IsFiniteSet(Trimmed(K, sold))
           /\ \A k \in Trimmed(K, sold) : k \in Slot /\ \E s \in K : s.trade = k.trade
           /\ \A r, s \in Trimmed(K, sold) : r.trade = s.trade => r = s
           /\ SumOver(Bought(K, sold)) \in Int
           /\ Cost(Trimmed(K, sold)) = Cost(K) - SumOver(Bought(K, sold))
<1> DEFINE trim(s) == [s EXCEPT !.qty = @ - sold[s]]
           g == Bought(K, sold)
           Sum(T) == SumFunctionOnSet(g, T)
           Bad == {T \in SUBSET K : Cost(Trimmed(T, sold)) # Cost(T) - Sum(T)}
<1>1. ASSUME NEW s \in K
      PROVE  /\ trim(s) \in Slot /\ trim(s).trade = s.trade
             /\ trim(s).qty = s.qty - sold[s]
             /\ g[s] \in Int /\ g[s] = sold[s] * s.trade.price
             /\ s.trade.price \in Int /\ s.qty \in Int /\ sold[s] \in Int
  <2>1. s \in [trade : Trade, qty : Int] /\ s.trade \in Trade /\ sold[s] \in Int
        /\ s.qty \in Int
    BY DEF Slot
  <2>2. s.trade.price \in Int
    BY <2>1, PriceTypes
  <2>3. g[s] = sold[s] * s.trade.price
    BY DEF Bought
  <2>4. g[s] \in Int
    BY <2>1, <2>2, <2>3
  <2>5. \A q \in Int : [s EXCEPT !.qty = q] \in [trade : Trade, qty : Int]
    BY <2>1
  <2>6. s.qty - sold[s] \in Int
    BY <2>1
  <2>7. trim(s) = [s EXCEPT !.qty = s.qty - sold[s]]
    OBVIOUS
  <2>8. trim(s) \in Slot
    BY <2>5, <2>6, <2>7 DEF Slot
  <2>9. trim(s).trade = s.trade /\ trim(s).qty = s.qty - sold[s]
    BY <2>1
  <2> QED  BY <2>1, <2>2, <2>3, <2>4, <2>8, <2>9
<1>2. \A T \in SUBSET K : Trimmed(T, sold) = {trim(s) : s \in T}
  BY DEF Trimmed
<1> HIDE DEF trim
<1>3. ASSUME NEW T \in SUBSET K
      PROVE  /\ IsFiniteSet(Trimmed(T, sold)) /\ IsFiniteSet(T)
             /\ \A k \in Trimmed(T, sold) : k \in Slot /\ \E s \in T : s.trade = k.trade
             /\ \A s \in T : s \in Slot
  <2> DEFINE f == [s \in T |-> trim(s)]
             U == {trim(s) : s \in T}
  <2>1. f \in [T -> U] /\ \A k \in U : \E s \in T : f[s] = k
    OBVIOUS
  <2>2. f \in Surjection(T, U)
    BY <2>1 DEF Surjection
  <2>3. IsFiniteSet(T)
    BY FS_Subset
  <2>4. IsFiniteSet(U)
    <3> HIDE DEF f, U
    <3> QED  BY <2>2, <2>3, FS_Surjection
  <2>5. \A k \in U : k \in Slot /\ \E s \in T : s.trade = k.trade
    BY <1>1
  <2> QED  BY <1>2, <2>3, <2>4, <2>5
<1>4. \A r, s \in Trimmed(K, sold) : r.trade = s.trade => r = s
  <2>1. K \in SUBSET K
    OBVIOUS
  <2>2. \A r, s \in K : trim(r).trade = trim(s).trade => r = s
    BY <1>1
  <2> QED  BY <1>2, <2>1, <2>2
<1>5. \A T \in SUBSET K : Sum(T) \in Int /\ Cost(T) \in Int
  <2> TAKE T \in SUBSET K
  <2>1. IsFiniteSet(T) /\ \A s \in T : g[s] \in Int
    BY <1>1, <1>3
  <2> HIDE DEF g
  <2> QED  BY <1>3, <2>1, SumType, CostType
<1>6. Bad = {}
  <2> SUFFICES ASSUME Bad # {}  PROVE FALSE
    OBVIOUS
  <2>1. Bad \subseteq SUBSET K
    OBVIOUS
  <2>2. PICK T \in Bad : \A U \in SUBSET T : U # T => U \notin Bad
    <3> HIDE DEF Bad
    <3> QED  BY <2>1, MinimalSubset
  <2>3. T \in SUBSET K /\ IsFiniteSet(T)
    BY <1>3, <2>2
  <2>4. T # {}
    <3> SUFFICES ASSUME T = {}  PROVE FALSE
      OBVIOUS
    <3>1. Trimmed(T, sold) = {}
      BY DEF Trimmed
    <3>2. Cost(Trimmed(T, sold)) = 0 /\ Cost(T) = 0 /\ Sum(T) = 0
      BY <3>1, CostEmpty, SumEmpty
    <3> QED  BY <2>2, <3>2
  <2>5. PICK s \in T : TRUE
    BY <2>4
  <2> DEFINE U == T \ {s}
             V == Trimmed(U, sold)
             W == Trimmed(T, sold)
  <2>6. U \in SUBSET T /\ U # T /\ U \in SUBSET K /\ s \in K
    BY <2>3
  <2>7. Cost(V) = Cost(U) - Sum(U)
    BY <2>2, <2>6
  <2>8. /\ W = V \cup {trim(s)} /\ V \cap {trim(s)} = {}
        /\ T = U \cup {s} /\ U \cap {s} = {}
    <3>1. trim(s) \notin V
      <4>1. \A k \in V : \E r \in U : r.trade = k.trade
        BY <1>3, <2>6
      <4>2. \A r \in U : r.trade # trim(s).trade
        BY <1>1, <2>6
      <4> QED  BY <4>1, <4>2
    <3>2. W = V \cup {trim(s)}
      BY <1>2, <2>3, <2>6
    <3> QED  BY <3>1, <3>2
  <2>9. /\ IsFiniteSet(U) /\ IsFiniteSet(V) /\ IsFiniteSet({s}) /\ IsFiniteSet({trim(s)})
        /\ \A k \in V \cup {trim(s)} : k \in Slot
        /\ \A k \in U \cup {s} : k \in Slot
    <3>1. /\ IsFiniteSet(U) /\ IsFiniteSet(V) /\ \A k \in V : k \in Slot
          /\ \A k \in U : k \in Slot
      <4> HIDE DEF U
      <4> QED  BY <1>3, <2>6
    <3>2. trim(s) \in Slot /\ s \in Slot
      BY <1>1, <2>6
    <3>3. IsFiniteSet({s}) /\ IsFiniteSet({trim(s)})
      BY FS_Singleton
    <3> HIDE DEF U, V
    <3> QED  BY <3>1, <3>2, <3>3
  <2> HIDE DEF U, V, W
  <2>10. Cost(W) = Cost(V) + Cost({trim(s)})
    BY <2>8, <2>9, CostUnion
  <2>11. Cost(T) = Cost(U) + Cost({s})
    BY <2>8, <2>9, CostUnion
  <2>12. Sum(T) = g[s] + Sum(U)
    <3>1. \A r \in T : g[r] \in Int
      BY <1>1, <2>3
    <3> HIDE DEF g
    <3> QED  BY <2>3, <3>1, SumStep DEF U
  <2> DEFINE p == s.trade.price  q == s.qty  n == sold[s]
  <2>13. Cost({s}) = p * q /\ Cost({trim(s)}) = p * (q - n) /\ g[s] = n * p
    <3>1. s \in Slot /\ trim(s) \in Slot
      BY <1>1, <2>6, <2>9
    <3>2. Cost({s}) = s.trade.price * s.qty
      BY <3>1, CostOne
    <3>3. Cost({trim(s)}) = trim(s).trade.price * trim(s).qty
      BY <3>1, CostOne
    <3> QED  BY <1>1, <2>6, <3>2, <3>3
  <2>14. p \in Int /\ q \in Int /\ n \in Int
    BY <1>1, <2>6
  <2> HIDE DEF p, q, n
  <2>15. p * (q - n) = p * q - n * p /\ p * q \in Int /\ n * p \in Int
    BY <2>14
  <2>16. Sum(U) \in Int /\ Cost(U) \in Int
    BY <1>5, <2>6
  <2> DEFINE a == Cost(U)  b == Sum(U)  e == p * q  h == n * p
  <2>17. Cost(W) = (a - b) + (e - h)
    BY <2>7, <2>10, <2>13, <2>15, Zenon
  <2>18. Cost(T) = a + e /\ Sum(T) = h + b
    BY <2>11, <2>12, <2>13, Zenon
  <2>19. (a - b) + (e - h) = (a + e) - (h + b)
    <3> HIDE DEF a, b, e, h
    <3>1. a \in Int /\ b \in Int /\ e \in Int /\ h \in Int
      BY <2>15, <2>16 DEF a, b, e, h
    <3> QED  BY <3>1
  <2>20. Cost(W) = Cost(T) - Sum(T)
    BY <2>17, <2>18, <2>19, Zenon
  <2> QED  BY <2>2, <2>20 DEF W
<1>7. K \in SUBSET K
  OBVIOUS
<1>8. Cost(Trimmed(K, sold)) = Cost(K) - Sum(K)
  BY <1>6, <1>7
<1>9. SumOver(Bought(K, sold)) = Sum(K)
  <2>1. DOMAIN g = K
    BY DEF Bought
  <2> QED  BY <2>1, SumOverIs
<1> QED  BY <1>3, <1>4, <1>5, <1>7, <1>8, <1>9

(* What is bought in turn is paid for: the last signal bought was.         *)
LEMMA InTurnPays ==
    ASSUME TypeOK, Setup, History, NEW slots, NEW B \in SUBSET slots, Purchase(B),
           NEW c \in Int, c >= 0, InTurn(B, slots, c)
    PROVE  Cost(B) <= c
<1>1. CASE B = {}
  BY <1>1, CostEmpty
<1>2. CASE B # {}
  <2> DEFINE T == {s.trade : s \in B}
  <2>1. T \in SUBSET TodaysTrades /\ T # {}
    BY <1>2 DEF Purchase
  <2>2. PICK t \in T : \A u \in T : u = t \/ Before(u, t)
    <3> HIDE DEF T
    <3> QED  BY <2>1, LastTrade
  <2>3. PICK l \in B : l.trade = t
    OBVIOUS
  <2> DEFINE R == {r \in B : Before(r.trade, l.trade)}
  <2>4. R = B \ {l}
    <3>1. ~Before(t, t)
      BY <2>1, BeforeOrder
    <3>2. \A r \in B : r = l \/ Before(r.trade, l.trade)
      BY <2>2, <2>3 DEF Purchase
    <3> QED  BY <2>3, <3>1, <3>2
  <2>5. Cost({l}) <= c - Cost(R)
    BY DEF InTurn
  <2>6. R \cup {l} = B /\ R \cap {l} = {}
    BY <2>4
  <2>7. IsFiniteSet(R) /\ IsFiniteSet({l}) /\ \A s \in B : s \in Slot
    BY FS_Subset, FS_Singleton DEF Purchase
  <2> HIDE DEF R, T
  <2>8. Cost(B) = Cost(R) + Cost({l})
    BY <2>6, <2>7, CostUnion
  <2>9. Cost(R) \in Int /\ Cost({l}) \in Int
    BY <2>6, <2>7, CostType
  <2> QED  BY <2>5, <2>8, <2>9
<1> QED  BY <1>1, <1>2

LEMMA RebalanceIsDay ==
    ASSUME IInv, RebalanceDay
    PROVE  SomeDay
<1> DEFINE ts == Fresh(TodaysTrades)
<1>1. /\ dates # {} /\ exp = "rebalance" /\ exp \notin Undeduplicated /\ phase = "days"
      /\ UNCHANGED gates /\ UNCHANGED hedge
      /\ TypeOK /\ Setup /\ History /\ Slots /\ Books
  BY DEF RebalanceDay, Loop, Undeduplicated, IInv, gates, hedge
<1>2. blocked' \in Nat /\ triggered' \in Nat /\ cooldown' \in Nat
  BY <1>1, GatesStay
<1>3. FreeCash \in Int /\ IsFiniteSet(Kept) /\ Kept \in SUBSET active
      /\ Gain \in Int /\ Cost(Kept) \in Int
  BY <1>1, ClosingFacts
<1>4. ts \in SUBSET TodaysTrades
  BY DEF Fresh
<1>5. floor \in Nat \ {0} /\ IsFiniteSet(ts) /\ Cardinality(ts) \in Nat
  BY <1>1, <1>4, TodayTypes, FS_Subset, FS_CardinalityType DEF Setup
<1>6. CASE LET bought == Dynamic(ts, FreeCash) IN
             Settle(Kept, bought, FreeCash, Gain, Cardinality(ts) - Cardinality(bought))
  <2> DEFINE B == Dynamic(ts, FreeCash)
             down == Cardinality(ts) - Cardinality(B)
  <2>1. Settle(Kept, B, FreeCash, Gain, down)
    BY <1>6
  <2>2. /\ Purchase(B) /\ Apart(B) /\ down \in Nat
        /\ FreeCash >= 0 => Cost(B) <= FreeCash \/ \E s \in B : s.trade.price > floor
    <3>1. TodaysTrades \in SUBSET TodaysTrades
      OBVIOUS
    <3> QED  BY <1>3, <3>1, FreshFacts
  <2> HIDE DEF B, down
  <2> QED  BY <1>1, <1>2, <2>1, <2>2, Ordinary
<1>7. CASE \E quote \in [{SymbolOf(s.trade) : s \in Kept} -> Prices] :
              Rebalance(ts, quote)
  <2>1. PICK quote \in [{SymbolOf(s.trade) : s \in Kept} -> Prices] :
          Rebalance(ts, quote)
    BY <1>7
  <2> DEFINE held == Cardinality(Kept)
             m == Capital \div floor - held
             new == IF Capital < floor * (held + Cardinality(ts)) THEN First(ts, m) ELSE ts
             n == held + Cardinality(new)
             sold == [s \in Kept |-> Trim(s, quote[SymbolOf(s.trade)], n)]
             f == [s \in Kept |-> sold[s] * quote[SymbolOf(s.trade)]]
             freed == SumOver(f)
             gained == freed - SumOver(Bought(Kept, sold))
             c == FreeCash + freed
             slots == IF c < floor THEN {} ELSE Buy(new, Capital, n)
  <2>2. IF new = {}
        THEN Settle(Kept, {}, FreeCash, Gain, Cardinality(ts))
        ELSE \E bought \in SUBSET slots :
               /\ InTurn(bought, slots, c)
               /\ Settle(Trimmed(Kept, sold), bought, c,
                         Gain + gained, Cardinality(new) - Cardinality(bought))
    BY <2>1, Zenon DEF Rebalance, Trimmed, Bought
  <2>3. CASE new = {}
    <3>1. Settle(Kept, {}, FreeCash, Gain, Cardinality(ts))
      BY <2>2, <2>3
    <3>2. Purchase({}) /\ Apart({})
      BY FS_EmptySet DEF Purchase, Apart
    <3>3. FreeCash >= 0 => Cost({}) <= FreeCash
      BY CostEmpty
    <3> HIDE DEF ts
    <3> QED  BY <1>1, <1>2, <1>5, <3>1, <3>2, <3>3, Ordinary
  <2>4. CASE new # {}
    <3>1. PICK B \in SUBSET slots :
               /\ InTurn(B, slots, c)
               /\ Settle(Trimmed(Kept, sold), B, c,
                         Gain + gained, Cardinality(new) - Cardinality(B))
      BY <2>2, <2>4
    <3>2. held \in Nat /\ Capital \in Nat
      BY <1>3, FS_CardinalityType, ConstantTypes
    <3>3. m \in Int
      BY <1>5, <3>2
    <3>4. new \in SUBSET ts /\ IsFiniteSet(new) /\ Cardinality(new) \in Nat
      <4> HIDE DEF ts, m
      <4>1. First(ts, m) \in SUBSET ts
        BY <1>1, <1>4, <3>3, FirstFacts
      <4>2. new \in SUBSET ts
        BY <4>1
      <4> HIDE DEF new
      <4> QED  BY <1>5, <4>2, FS_Subset, FS_CardinalityType
    <3> HIDE DEF new
    <3>5. n \in Nat \ {0}
      <4>1. Cardinality(new) # 0
        BY <2>4, <3>4, FS_EmptySet
      <4> HIDE DEF held
      <4> QED  BY <3>2, <3>4, <4>1
    <3> HIDE DEF n, held
    <3>6. \A s \in Kept : /\ s \in Slot /\ quote[SymbolOf(s.trade)] \in Nat \ {0}
                          /\ sold[s] \in Nat /\ f[s] \in Nat
      <4> TAKE s \in Kept
      <4>1. s \in Slot
        BY <1>1, <1>3, ClosingFacts
      <4>2. quote[SymbolOf(s.trade)] \in Prices
        OBVIOUS
      <4>3. quote[SymbolOf(s.trade)] \in Nat \ {0}
        BY <4>2, PriceTypes
      <4>4. sold[s] \in Nat
        BY <3>5, <4>1, <4>3, TrimType
      <4>5. f[s] = sold[s] * quote[SymbolOf(s.trade)]
        OBVIOUS
      <4> HIDE DEF sold, f
      <4>6. f[s] \in Nat
        BY <4>3, <4>4, <4>5
      <4> QED  BY <4>1, <4>3, <4>4, <4>6
    <3>7. sold \in [Kept -> Int]
      <4>1. \A s \in Kept : Trim(s, quote[SymbolOf(s.trade)], n) \in Int
        BY <3>6
      <4> QED  BY <4>1
    <3>8. freed \in Nat
      <4>1. DOMAIN f = Kept
        OBVIOUS
      <4> HIDE DEF f
      <4> QED  BY <1>3, <3>6, <4>1, SumOverIs, SumNat
    <3> HIDE DEF sold
    <3> DEFINE kept == Trimmed(Kept, sold)
               spent == SumOver(Bought(Kept, sold))
    <3>9. /\ Holding(kept) /\ spent \in Int /\ Cost(kept) = Cost(Kept) - spent
      <4>1. \A r, s \in Kept : r.trade = s.trade => r = s
        BY <1>1, <1>3 DEF Slots
      <4>2. \A s \in Kept : s \in Slot
        BY <3>6
      <4>3. /\ IsFiniteSet(kept)
            /\ \A k \in kept : k \in Slot /\ \E s \in Kept : s.trade = k.trade
            /\ \A r, s \in kept : r.trade = s.trade => r = s
            /\ spent \in Int /\ Cost(kept) = Cost(Kept) - spent
        BY <1>3, <3>7, <4>1, <4>2, TrimmedFacts
      <4> HIDE DEF kept, spent
      <4> QED  BY <1>1, <4>3 DEF Holding
    <3>10. /\ Purchase(B) /\ Apart(B) /\ Cardinality(new) - Cardinality(B) \in Nat
      <4>1. /\ Purchase(slots) /\ \A s \in slots : s.trade \in new
            /\ Cardinality(slots) <= Cardinality(new)
        <5>1. CASE c < floor
          <6>1. slots = {}
            BY <5>1
          <6>2. Purchase({}) /\ Cardinality({}) = 0
            BY FS_EmptySet DEF Purchase
          <6> HIDE DEF slots
          <6> QED  BY <3>4, <6>1, <6>2
        <5>2. CASE ~(c < floor)
          <6>1. slots = Buy(new, Capital, n)
            BY <5>2
          <6>2. new \in SUBSET TodaysTrades /\ n \in Int /\ n > 0 /\ Capital \in Int
            BY <1>4, <3>2, <3>4, <3>5
          <6> HIDE DEF slots, c
          <6> QED  BY <1>1, <6>1, <6>2, BuyFacts
        <5> QED  BY <5>1, <5>2
      <4> HIDE DEF slots, ts
      <4>2. Purchase(B)
        BY <4>1, PurchaseIn
      <4>3. \A s \in B : s.trade \in ts
        BY <3>4, <4>1
      <4>4. Apart(B)
        BY <1>1, <4>2, <4>3, FreshApart DEF ts
      <4>5. Cardinality(B) \in Nat /\ Cardinality(slots) \in Nat
            /\ Cardinality(B) <= Cardinality(slots)
        BY <4>1, <4>2, FS_Subset, FS_CardinalityType DEF Purchase
      <4>6. Cardinality(new) - Cardinality(B) \in Nat
        BY <3>4, <4>1, <4>5
      <4> QED  BY <4>2, <4>4, <4>6
    <3> DEFINE down == Cardinality(new) - Cardinality(B)
    <3>11. Settle(kept, B, c, Gain + gained, down)
      BY <3>1
    <3>12. c \in Int /\ Gain + gained \in Int /\ gained = freed - spent
      <4> HIDE DEF freed, spent
      <4> QED  BY <1>3, <3>8, <3>9 DEF spent
    <3>13. gold' = gold /\ bear' = bear /\ GoldCost' = GoldCost /\ GoldCost \in Int
      <4>1. gold' = gold /\ bear' = bear
        BY <1>1 DEF hedge
      <4>2. GoldCost \in Nat
        BY <1>1, GoldTypes
      <4> QED  BY <4>1, <4>2 DEF GoldCost
    <3>14. c + Cost(kept) + GoldCost' = Capital + (pnl + (Gain + gained))
      <4>1. FreeCash + Cost(Kept) + GoldCost = Capital + (pnl + Gain)
        BY <1>1, <3>13, ExitsBalance
      <4>2. pnl \in Int
        BY <1>1 DEF TypeOK
      <4>3. c = FreeCash + freed
        OBVIOUS
      <4> DEFINE a == Cost(Kept)  b == Cost(kept)  g == GoldCost
      <4>4. b = a - spent /\ a \in Int /\ g \in Int /\ spent \in Int
            /\ FreeCash + a + g = Capital + (pnl + Gain)
        BY <1>3, <3>9, <3>13, <4>1
      <4> HIDE DEF kept, spent, freed, gained, c, a, b, g
      <4>5. c + b + g = Capital + (pnl + (Gain + gained))
        BY <1>3, <3>2, <3>8, <3>12, <4>2, <4>3, <4>4
      <4> QED  BY <3>13, <4>5 DEF b, g
    <3>15. /\ gold' = None \/ gold' \in [qty : Nat \ {0}, price : Prices]
           /\ bear' \in BOOLEAN
           /\ gold' # None => exp = "gold" /\ bear'
      BY <1>1, <3>13 DEF TypeOK, Setup, IInv, HedgeFollowsRegime
    <3>16. {blocked', triggered', cooldown'} \subseteq Nat
      BY <1>2
    <3>17. Pays(B, c)
      <4> SUFFICES ASSUME cash >= 0, ~ \E s \in active : s.qty < 0
                   PROVE  Cost(B) <= c
        BY <1>1 DEF Pays
      <4>1. FreeCash >= 0
        BY <1>1, ExitsPay
      <4>2. c >= 0
        <5> HIDE DEF freed
        <5> QED  BY <1>3, <3>8, <4>1
      <4>3. InTurn(B, slots, c)
        BY <3>1
      <4> HIDE DEF c, slots
      <4> QED  BY <1>1, <3>10, <3>12, <4>2, <4>3, InTurnPays
    <3> HIDE DEF kept, c, gained, down
    <3>18. Day(kept, B, c, Gain + gained, down)
      BY <1>1, <3>9, <3>10, <3>11, <3>12, <3>14, <3>15, <3>16 DEF Day, down
    <3> QED  BY <3>17, <3>18 DEF SomeDay
  <2> QED  BY <2>3, <2>4
<1> QED  BY <1>6, <1>7 DEF RebalanceDay

-----------------------------------------------------------------------------
(* The trades that are collected, and the dates they are walked through.   *)

LEMMA InitHolds == Init => IInv
<1> SUFFICES ASSUME Init  PROVE IInv
  OBVIOUS
<1>1. Capital \in Nat \ {0} /\ Chunk \in Nat \ {0}
  BY ConstantTypes
<1>2. yearly \in [Years -> Int] /\ SumOver(yearly) = 0
  <2>1. yearly \in [Years -> Int] /\ yearly[1] = 0 /\ yearly[2] = 0
    BY DEF Init, Years
  <2> QED  BY <2>1, YearSum
<1>3. TypeOK
  <2>1. {cash, pnl} \subseteq Int
    BY <1>1 DEF Init
  <2>2. {peak, taken, skipped, blocked, triggered, cooldown} \subseteq Nat
    BY <1>1 DEF Init
  <2>3. /\ phase \in {"collect", "days", "report"} /\ exp \in Experiments \cup {"none"}
        /\ trades = {} /\ weekend = {} /\ dates = {} /\ active = {}
        /\ gold = None /\ bear \in BOOLEAN
    BY DEF Init
  <2> QED  BY <1>2, <2>1, <2>2, <2>3 DEF TypeOK
<1>4. Setup
  BY <1>1, FS_EmptySet DEF Init, Setup, Sweeps
<1>5. History /\ Slots /\ Exits /\ OneSlotPerSymbol /\ HedgeFollowsRegime
  BY DEF Init, History, Slots, Exits, OneSlotPerSymbol, HedgeFollowsRegime
<1>6. Books
  <2>1. Cost(active) = 0 /\ GoldCost = 0
    BY CostEmpty DEF Init, GoldCost
  <2> QED  BY <1>1, <1>2, <2>1 DEF Init, Books
<1>7. Counts
  BY DEF Init, Counts, Undeduplicated
<1> QED  BY <1>3, <1>4, <1>5, <1>6, <1>7 DEF IInv

(* While trades are collected nothing is held.                             *)
LEMMA NothingHeld ==
    ASSUME IInv, phase = "collect"
    PROVE  /\ exp = "none" /\ dates = {} /\ active = {} /\ gold = None
           /\ taken = 0 /\ skipped = 0
BY DEF IInv, Setup

(* A key that left on day q enters again later than on p, where it had.     *)
LEMMA GapFacts ==
    \A x, p, q, gap \in Nat : p <= q /\ q + gap <= x /\ (gap = 0 => p < q) => p # x
OBVIOUS

LEMMA CloseKeeps ==
    ASSUME IInv, NEW k \in DOMAIN Portfolio, NEW gap \in Nat,
           NEW stays \in SUBSET Stays, Close(k, gap, stays),
           \A stay \in stays :
                /\ stay[1] <= stay[2]
                /\ Portfolio[k].strategy = "Black Swan" => stay[1] < stay[2],
           gap = 0 => Portfolio[k].strategy = "Black Swan"
    PROVE  IInv'
<1>1. PICK stay \in stays :
        /\ \A t \in trades : t.key = k => t.exit + gap <= stay[1]
        /\ trades' = trades \cup {[key |-> k, entry |-> stay[1], exit |-> stay[2],
                                   price |-> stay[3].price, sale |-> stay[3].sale]}
  BY DEF Close
<1>2. /\ phase = "collect" /\ phase' = phase /\ exp' = exp /\ floor' = floor /\ rank' = rank
      /\ weekend' = weekend /\ dates' = dates
      /\ cash' = cash /\ active' = active /\ pnl' = pnl /\ yearly' = yearly
      /\ peak' = peak /\ taken' = taken /\ skipped' = skipped
      /\ blocked' = blocked /\ triggered' = triggered /\ cooldown' = cooldown
      /\ gold' = gold /\ bear' = bear
  BY DEF Close, account, gates, hedge
<1>3. /\ exp = "none" /\ dates = {} /\ active = {} /\ gold = None
      /\ TypeOK /\ Setup /\ History /\ Books
  BY <1>2, NothingHeld DEF IInv
<1> DEFINE new == [key |-> k, entry |-> stay[1], exit |-> stay[2],
                   price |-> stay[3].price, sale |-> stay[3].sale]
<1>4. /\ new \in Trade /\ new.key = k /\ new.entry = stay[1] /\ new.exit = stay[2]
      /\ StrategyOf(new) = Portfolio[k].strategy
  <2>1. stay[1] \in Days /\ stay[2] \in Days /\ stay[3] \in Moves
    BY DEF Stays
  <2>2. stay[3].price \in Prices /\ stay[3].sale \in Prices
    BY <2>1 DEF Prices
  <2> QED  BY <2>1, <2>2 DEF Trade, StrategyOf
<1>5. new.entry <= new.exit /\ (StrategyOf(new) = "Black Swan" => new.entry < new.exit)
  BY <1>4
<1>6. trades' = trades \cup {new}
  BY <1>1
<1>7. ASSUME NEW t \in trades, t.key = k  PROVE t.entry # stay[1]
  <2>1. /\ t.entry \in Nat /\ t.exit \in Nat /\ t.entry <= t.exit
        /\ t.exit + gap <= stay[1] /\ StrategyOf(t) = Portfolio[k].strategy
    BY <1>1, <1>3, <1>7, PriceTypes DEF TypeOK, History, StrategyOf
  <2>2. gap = 0 => t.entry < t.exit
    BY <1>2, <1>3, <2>1 DEF History
  <2>3. stay[1] \in Nat
    BY <1>4, PriceTypes
  <2> DEFINE x == stay[1]  p == t.entry  q == t.exit
  <2>4. x \in Nat /\ p \in Nat /\ q \in Nat /\ p <= q /\ q + gap <= x /\ (gap = 0 => p < q)
    BY <2>1, <2>2, <2>3
  <2> HIDE DEF x, p, q
  <2>5. p # x
    BY <2>4, GapFacts, Zenon
  <2> QED  BY <2>5 DEF p, x
<1> HIDE DEF new
<1>8. TypeOK'
  BY <1>2, <1>3, <1>4, <1>6 DEF TypeOK
<1>9. Setup'
  BY <1>2, <1>3, <1>6, FS_AddElement DEF Setup
<1>10. History'
  <2>1. \A t \in trades' :
          /\ t.entry <= t.exit
          /\ StrategyOf(t) = "Black Swan" => t.entry < t.exit
    BY <1>2, <1>3, <1>5, <1>6 DEF History
  <2>2. \A t, u \in trades' : t.key = u.key /\ t.entry = u.entry => t = u
    <3>1. \A t, u \in trades : t.key = u.key /\ t.entry = u.entry => t = u
      BY <1>3 DEF History
    <3>2. \A t \in trades : ~(t.key = new.key /\ t.entry = new.entry)
      BY <1>4, <1>7
    <3> QED  BY <1>6, <3>1, <3>2
  <2> QED  BY <2>1, <2>2 DEF History, StrategyOf
<1>11. Slots' /\ Exits' /\ OneSlotPerSymbol' /\ HedgeFollowsRegime'
  BY <1>2, <1>3 DEF Slots, Exits, OneSlotPerSymbol, HedgeFollowsRegime
<1>12. Books' /\ Counts'
  BY <1>2, <1>3 DEF Books, Counts, Undeduplicated, GoldCost
<1> QED  BY <1>8, <1>9, <1>10, <1>11, <1>12 DEF IInv

LEMMA CollectKeeps == ASSUME IInv, Collect PROVE IInv'
<1>1. PICK k \in DOMAIN Portfolio :
        \/ ReplayPullback(k) \/ ReplaySupertrend(k)
        \/ ReplaySqueeze(k) \/ ReplaySwan(k)
  BY DEF Collect
<1>2. \A t \in Stays : t[1] \in Nat /\ t[2] \in Nat
  BY DEF Stays, Days
<1>3. CASE ReplayPullback(k) \/ ReplaySupertrend(k)
  <2>1. Close(k, 1, NextOpen) /\ Portfolio[k].strategy # "Black Swan"
    BY <1>3 DEF ReplayPullback, ReplaySupertrend
  <2>2. NextOpen \in SUBSET Stays /\ \A t \in NextOpen : t[1] <= t[2]
    BY <1>2 DEF NextOpen
  <2>3. 1 \in Nat /\ 1 # 0
    OBVIOUS
  <2> HIDE DEF NextOpen
  <2> QED  BY <2>1, <2>2, <2>3, CloseKeeps
<1>4. CASE ReplaySqueeze(k)
  <2> DEFINE stays == {t \in Stays :
                         t[1] < t[2] \/ (t[1] = t[2] /\ t[3].sale < t[3].price)}
  <2>1. Close(k, 1, stays) /\ Portfolio[k].strategy # "Black Swan"
    BY <1>4 DEF ReplaySqueeze
  <2>2. stays \in SUBSET Stays /\ \A t \in stays : t[1] <= t[2]
    BY <1>2
  <2>3. 1 \in Nat /\ 1 # 0
    OBVIOUS
  <2> HIDE DEF stays
  <2> QED  BY <2>1, <2>2, <2>3, CloseKeeps
<1>5. CASE ReplaySwan(k)
  <2> DEFINE stays == {t \in Stays : t[1] < t[2]}
  <2>1. Close(k, 0, stays) /\ Portfolio[k].strategy = "Black Swan"
    BY <1>5 DEF ReplaySwan
  <2>2. stays \in SUBSET Stays /\ \A t \in stays : t[1] <= t[2] /\ t[1] < t[2]
    BY <1>2
  <2>3. 0 \in Nat
    OBVIOUS
  <2> HIDE DEF stays
  <2> QED  BY <2>1, <2>2, <2>3, CloseKeeps
<1> QED  BY <1>1, <1>3, <1>4, <1>5

(* The trade entered last, and the dates from the first entry on.          *)
LEMMA LastEnteredFacts ==
    ASSUME TypeOK, Setup, History, NEW ts \in SUBSET trades, ts # {}
    PROVE  LastEntered(ts) \in ts
<1> DEFINE Later(u, t) == u.entry < t.entry \/ (u.entry = t.entry /\ u.key < t.key)
           R == {p \in ts \X ts : Later(p[1], p[2])}
<1>1. \A t \in ts : t.entry \in Nat /\ t.key \in Nat
  BY PriceTypes DEF TypeOK
<1>2. \A t, u \in ts : t.key = u.key /\ t.entry = u.entry => t = u
  BY DEF History
<1>3. \A t, u \in ts : t = u \/ Later(t, u) \/ Later(u, t)
  BY <1>1, <1>2
<1>4. \A t, u, v \in ts : Later(t, u) /\ Later(u, v) => Later(t, v)
  BY <1>1
<1>5. IsFiniteSet(ts)
  BY FS_Subset DEF Setup
<1>6. \A t, u \in ts : Later(u, t) => u.entry < t.entry \/ (u.entry = t.entry /\ u.key <= t.key)
  BY <1>1
<1> HIDE DEF Later
<1>7. \A t, u \in ts : <<t, u>> \in R <=> Later(t, u)
  OBVIOUS
<1> HIDE DEF R
<1>8. \A t, u \in ts : t = u \/ <<t, u>> \in R \/ <<u, t>> \in R
  BY <1>3, <1>7
<1>9. \A t, u, v \in ts : <<t, u>> \in R /\ <<u, v>> \in R => <<t, v>> \in R
  BY <1>4, <1>7
<1>10. PICK l \in ts : \A t \in ts : t = l \/ <<t, l>> \in R
  BY <1>5, <1>8, <1>9, LastInOrder, Zenon
<1>11. \A u \in ts : u.entry < l.entry \/ (u.entry = l.entry /\ u.key <= l.key)
  <2> TAKE u \in ts
  <2>1. CASE u = l
    BY <1>1, <2>1
  <2>2. CASE u # l
    BY <1>6, <1>7, <1>10, <2>2
  <2> QED  BY <2>1, <2>2
<1> QED  BY <1>11 DEF LastEntered

(* Every exit is among the dates, a weekend session, or after the end.     *)
LEMMA LoopDatesFacts ==
    ASSUME TypeOK, Setup, History, NEW e, NEW ts \in SUBSET trades, NEW off,
           NEW w, e = "traintest" => /\ w \in [from : Days, to : Days]
                                     /\ \A t \in ts : t.entry >= w.from /\ t.exit <= w.to
    PROVE  LET D == LoopDates(e, ts, w, off) IN
           /\ D \in SUBSET Days
           /\ e \in OnTradeDates => \A t \in ts : t.entry \in D
           /\ \A t \in ts : \/ t.exit \in D \cup off
                            \/ e \in EndWithLastEntry /\ \A d \in D : d < t.exit
<1> DEFINE D == LoopDates(e, ts, w, off)
           entries == {t.entry : t \in ts}
           exits == {t.exit : t \in ts}
<1>1. \A t \in ts : /\ t.entry \in Days /\ t.exit \in Days
                    /\ t.entry \in Nat /\ t.exit \in Nat /\ t.entry <= t.exit
  <2> TAKE t \in ts
  <2>1. t \in trades /\ t \in Trade
    BY DEF TypeOK
  <2>2. t.entry \in Days /\ t.exit \in Days
    BY <2>1 DEF Trade
  <2> QED  BY <2>1, <2>2, PriceTypes DEF History
<1>2. \A d \in Days : d \in Nat /\ 1 <= d /\ d <= LastDay
  BY ConstantTypes DEF Days
<1>3. \A d \in Nat : 1 <= d /\ d <= LastDay => d \in Days
  BY ConstantTypes DEF Days
<1>4. \A a, b \in Days : BusinessDays(a, b, off) \in SUBSET Days
  <2> TAKE a, b \in Days
  <2>1. a \in Nat /\ b \in Nat /\ 1 <= a /\ b <= LastDay
    BY <1>2
  <2>2. \A d \in a..b : d \in Nat /\ 1 <= d /\ d <= LastDay
    BY <2>1, ConstantTypes
  <2> QED  BY <1>3, <2>2 DEF BusinessDays
<1>5. \A a, b \in Days, x \in Nat :
        a <= x /\ x <= b => x \in BusinessDays(a, b, off) \cup off
  BY <1>2 DEF BusinessDays
<1>6. \A a, b \in Days : \A d \in BusinessDays(a, b, off) : d \in Nat /\ d <= b
  BY <1>2 DEF BusinessDays
<1>7. CASE ts = {}
  <2>1. D = {}
    BY <1>7 DEF LoopDates
  <2> QED  BY <1>7, <2>1
<1>8. CASE ts # {} /\ e = "traintest"
  <2>1. D = BusinessDays(w.from, w.to, off)
    BY <1>8 DEF LoopDates, OnTradeDates, EndWithLastEntry
  <2>2. w.from \in Days /\ w.to \in Days
    BY <1>8
  <2>3. \A t \in ts : w.from <= t.exit /\ t.exit <= w.to
    <3> TAKE t \in ts
    <3>1. t.entry >= w.from /\ t.exit <= w.to /\ t.entry \in Nat /\ t.exit \in Nat
          /\ t.entry <= t.exit /\ w.from \in Nat
      BY <1>1, <1>2, <1>8, <2>2
    <3> QED  BY <3>1
  <2>4. e \notin OnTradeDates
    BY <1>8 DEF OnTradeDates
  <2> QED  BY <1>1, <1>4, <1>5, <2>1, <2>2, <2>3, <2>4
<1>9. CASE ts # {} /\ e \in OnTradeDates
  <2>1. D = entries \cup exits
    BY <1>9 DEF LoopDates, OnTradeDates, EndWithLastEntry
  <2> QED  BY <1>1, <2>1
<1>10. CASE ts # {} /\ e # "traintest" /\ e \notin OnTradeDates
  <2>1. Min(entries) \in Days /\ \A t \in ts : Min(entries) <= t.exit
    <3>1. entries \in SUBSET Days /\ entries \in SUBSET Int /\ entries # {}
      BY <1>1, <1>10
    <3>2. IsFiniteSet(Days)
      <4>1. 1 \in Int /\ LastDay \in Int
        BY ConstantTypes
      <4> QED  BY <4>1, FS_Interval DEF Days
    <3>3. Min(entries) \in entries /\ \A x \in entries : Min(entries) <= x
      <4> HIDE DEF entries
      <4> QED  BY <3>1, <3>2, FS_Subset, MinFacts
    <3>4. Min(entries) \in Days /\ Min(entries) \in Nat
      BY <1>2, <3>1, <3>3
    <3>5. \A t \in ts : Min(entries) <= t.entry
      BY <3>3
    <3> DEFINE m == Min(entries)
    <3> HIDE DEF m
    <3>6. \A t \in ts : m <= t.exit
      BY <1>1, <3>4, <3>5 DEF m
    <3> QED  BY <3>4, <3>6 DEF m
  <2>2. CASE e \in EndWithLastEntry
    <3> DEFINE x == LastEntered(ts).exit
    <3>1. D = BusinessDays(Min(entries), x, off)
      BY <1>10, <2>2 DEF LoopDates
    <3>2. x \in Days /\ x \in Nat
      BY <1>1, <1>10, LastEnteredFacts
    <3> HIDE DEF x, entries
    <3>3. \A t \in ts : t.exit <= x \/ x < t.exit
      BY <1>1, <3>2
    <3>4. ASSUME NEW t \in ts, x < t.exit
          PROVE  \A d \in D : d < t.exit
      <4> TAKE d \in D
      <4>1. d \in Nat /\ d <= x /\ t.exit \in Nat
        BY <1>1, <1>6, <2>1, <3>1, <3>2
      <4> QED  BY <3>2, <3>4, <4>1
    <3>5. ASSUME NEW t \in ts, t.exit <= x
          PROVE  t.exit \in D \cup off
      BY <1>1, <1>5, <2>1, <3>1, <3>2, <3>5
    <3>6. D \in SUBSET Days
      BY <1>4, <2>1, <3>1, <3>2
    <3> HIDE DEF D
    <3> QED  BY <1>10, <2>2, <3>3, <3>4, <3>5, <3>6 DEF D
  <2>3. CASE e \notin EndWithLastEntry
    <3>1. D = BusinessDays(Min(entries), Max(exits), off)
      BY <1>10, <2>3 DEF LoopDates
    <3>2. Max(exits) \in Days /\ \A t \in ts : t.exit <= Max(exits)
      <4>1. exits \in SUBSET Days /\ exits \in SUBSET Int /\ exits # {}
        BY <1>1, <1>10
      <4>2. IsFiniteSet(Days)
        <5>1. 1 \in Int /\ LastDay \in Int
          BY ConstantTypes
        <5> QED  BY <5>1, FS_Interval DEF Days
      <4>3. Max(exits) \in exits /\ \A x \in exits : x <= Max(exits)
        <5> HIDE DEF exits
        <5> QED  BY <4>1, <4>2, FS_Subset, MaxFacts
      <4> QED  BY <4>1, <4>3
    <3>3. \A t \in ts : t.exit \in D \cup off
      BY <1>1, <1>5, <2>1, <3>1, <3>2
    <3>4. D \in SUBSET Days
      BY <1>4, <2>1, <3>1, <3>2
    <3> QED  BY <1>10, <3>3, <3>4
  <2> QED  BY <2>2, <2>3
<1> QED  BY <1>7, <1>8, <1>9, <1>10

(* What an experiment sets out with.                                       *)
LEMMA Chosen ==
    /\ \A e \in Experiments : \A f \in Floors(e) :
          f \in Nat \ {0} /\ (e \notin Sweeps => f = Chunk)
    /\ \A e \in Experiments : \A r \in Ranks(e) : r \in [Strategies -> Nat]
<1>1. ASSUME NEW e \in Experiments, NEW f \in Floors(e)
      PROVE  f \in Nat \ {0} /\ (e \notin Sweeps => f = Chunk)
  BY BacktestAssumption DEF Floors
<1>2. EngineRank \in [Strategies -> Nat] /\ CombosRank \in [Strategies -> Nat]
  <2>1. EngineRank \in [Strategies -> Nat]
    BY DEF EngineRank, Strategies
  <2>2. [EngineRank EXCEPT !["MA Pullback"] = 3] \in [Strategies -> Nat]
    BY <2>1
  <2> QED  BY <2>1, <2>2 DEF CombosRank
<1>3. ASSUME NEW e \in Experiments, NEW r \in Ranks(e)
      PROVE  r \in [Strategies -> Nat]
  <2>1. SweptRanks \subseteq [Strategies -> Nat]
    BY BacktestAssumption
  <2>2. CASE e \in {"combos", "walkforward"}
    <3>1. Ranks(e) = {CombosRank}
      BY <2>2 DEF Ranks, Sweeps
    <3> QED  BY <1>2, <3>1
  <2>3. CASE e \in Sweeps
    <3>1. Ranks(e) = SweptRanks
      BY <2>3 DEF Ranks, Sweeps
    <3> QED  BY <2>1, <3>1
  <2>4. CASE e \notin {"combos", "walkforward"} \cup Sweeps
    <3>1. Ranks(e) = {EngineRank}
      BY <2>4 DEF Ranks
    <3> QED  BY <1>2, <3>1
  <2> QED  BY <2>2, <2>3, <2>4
<1> QED  BY <1>1, <1>3

LEMMA BeginKeeps == ASSUME IInv, Begin PROVE IInv'
<1>1. /\ phase = "collect" /\ phase' = "days"
      /\ cash' = cash /\ active' = active /\ pnl' = pnl /\ yearly' = yearly
      /\ peak' = peak /\ taken' = taken /\ skipped' = skipped
      /\ blocked' = blocked /\ triggered' = triggered /\ cooldown' = cooldown
      /\ gold' = gold /\ bear' = bear
  BY DEF Begin, account, gates, hedge
<1>2. PICK e \in Experiments :
       \E f \in Floors(e), r \in Ranks(e),
          off \in (IF e \in OnTradeDates THEN {{}} ELSE Weekends),
          w \in (IF e \in {"traintest", "walkforward"} THEN Splits
                 ELSE {[from |-> 1, to |-> LastDay]}) :
          LET ts == {t \in trades : InWindow(e, t, w)} IN
          /\ exp' = e /\ floor' = f /\ rank' = r
          /\ trades' = ts /\ weekend' = off
          /\ dates' = LoopDates(e, ts, w, off)
  BY DEF Begin
<1>3. PICK f \in Floors(e), r \in Ranks(e),
           off \in (IF e \in OnTradeDates THEN {{}} ELSE Weekends),
           w \in (IF e \in {"traintest", "walkforward"} THEN Splits
                  ELSE {[from |-> 1, to |-> LastDay]}) :
          LET ts == {t \in trades : InWindow(e, t, w)} IN
          /\ exp' = e /\ floor' = f /\ rank' = r
          /\ trades' = ts /\ weekend' = off
          /\ dates' = LoopDates(e, ts, w, off)
  BY <1>2
<1> DEFINE ts == {t \in trades : InWindow(e, t, w)}
           D == LoopDates(e, ts, w, off)
<1>4. /\ exp' = e /\ floor' = f /\ rank' = r /\ trades' = ts /\ weekend' = off /\ dates' = D
  BY <1>3
<1>5. /\ dates = {} /\ active = {} /\ gold = None /\ taken = 0 /\ skipped = 0
      /\ TypeOK /\ Setup /\ History /\ Books
  BY <1>1, NothingHeld DEF IInv
<1>6. ts \in SUBSET trades /\ IsFiniteSet(ts)
  <2>1. ts \in SUBSET trades
    OBVIOUS
  <2> HIDE DEF ts
  <2> QED  BY <1>5, <2>1, FS_Subset DEF Setup
<1>7. e = "traintest" => /\ w \in [from : Days, to : Days]
                         /\ \A t \in ts : t.entry >= w.from /\ t.exit <= w.to
  <2> SUFFICES ASSUME e = "traintest"
               PROVE  /\ w \in [from : Days, to : Days]
                      /\ \A t \in ts : t.entry >= w.from /\ t.exit <= w.to
    OBVIOUS
  <2>1. w \in [from : Days, to : Days]
    BY BacktestAssumption
  <2>2. \A t \in trades : InWindow(e, t, w) => t.entry >= w.from /\ t.exit <= w.to
    BY DEF InWindow
  <2> QED  BY <2>1, <2>2
<1> HIDE DEF ts
<1>8. /\ D \in SUBSET Days
      /\ e \in OnTradeDates => \A t \in ts : t.entry \in D
      /\ \A t \in ts : \/ t.exit \in D \cup off
                       \/ e \in EndWithLastEntry /\ \A d \in D : d < t.exit
  BY <1>5, <1>6, <1>7, LoopDatesFacts
<1> HIDE DEF D
<1>9. off \in SUBSET Days
  BY BacktestAssumption
<1>10. f \in Nat \ {0} /\ (e \notin Sweeps => f = Chunk) /\ r \in [Strategies -> Nat]
  BY Chosen
<1>11. TypeOK'
  <2>1. trades' \subseteq Trade /\ weekend' \subseteq Days /\ dates' \subseteq Days
        /\ exp' \in Experiments
    BY <1>4, <1>5, <1>6, <1>8, <1>9 DEF TypeOK
  <2> QED  BY <1>1, <1>5, <2>1 DEF TypeOK
<1>12. Setup'
  BY <1>1, <1>4, <1>5, <1>6, <1>10 DEF Setup
<1>13. History'
  BY <1>1, <1>4, <1>5, <1>6 DEF History
<1>14. Exits'
  BY <1>1, <1>4, <1>5, <1>8 DEF Exits, Visited
<1>15. Slots' /\ OneSlotPerSymbol' /\ HedgeFollowsRegime'
  BY <1>1, <1>5 DEF Slots, OneSlotPerSymbol, HedgeFollowsRegime
<1>16. Books'
  BY <1>1, <1>5 DEF Books, GoldCost
<1>17. Counts'
  <2> SUFFICES ASSUME exp' \in Undeduplicated
               PROVE  taken' + skipped' = Cardinality({t \in trades' : t.entry \notin dates'})
    BY DEF Counts
  <2>1. e \in OnTradeDates
    BY <1>4 DEF Undeduplicated, OnTradeDates
  <2>2. {t \in trades' : t.entry \notin dates'} = {}
    BY <1>4, <1>8, <2>1
  <2>3. taken' + skipped' = 0
    BY <1>1, <1>5
  <2> QED  BY <2>2, <2>3, FS_EmptySet
<1> QED  BY <1>11, <1>12, <1>13, <1>14, <1>15, <1>16, <1>17 DEF IInv

LEMMA SellHedgeKeeps == ASSUME IInv, SellHedge PROVE IInv'
<1>1. /\ phase = "days" /\ dates = {} /\ gold # None /\ phase' = "report"
      /\ exp' = exp /\ trades' = trades /\ floor' = floor /\ rank' = rank
      /\ weekend' = weekend /\ dates' = dates
      /\ cash' = cash /\ active' = active /\ yearly' = yearly
      /\ peak' = peak /\ taken' = taken /\ skipped' = skipped
      /\ blocked' = blocked /\ triggered' = triggered /\ cooldown' = cooldown
      /\ gold' = gold /\ bear' = bear
  BY DEF SellHedge, setup, gates, hedge
<1>2. PICK close \in Prices : pnl' = pnl + gold.qty * (close - gold.price)
  BY DEF SellHedge
<1>3. TypeOK /\ Setup /\ exp = "gold"
  BY <1>1 DEF IInv, Setup
<1>4. pnl' \in Int
  <2>1. /\ gold.qty \in Int /\ gold.price \in Int /\ close \in Int /\ pnl \in Int
    BY <1>1, <1>3, GoldTypes, PriceTypes DEF TypeOK
  <2> QED  BY <1>2, <2>1
<1>5. TypeOK'
  BY <1>1, <1>3, <1>4 DEF TypeOK
<1>6. Setup'
  BY <1>1, <1>3 DEF Setup
<1>7. History' /\ Slots' /\ Exits'
  BY <1>1 DEF IInv, History, Slots, Exits, Visited
<1>8. Books' /\ Counts' /\ OneSlotPerSymbol' /\ HedgeFollowsRegime'
  BY <1>1, <1>3 DEF IInv, Books, Counts, Undeduplicated, OneSlotPerSymbol, HedgeFollowsRegime
<1> QED  BY <1>5, <1>6, <1>7, <1>8 DEF IInv

LEMMA Stutters == ASSUME IInv, UNCHANGED vars PROVE IInv'
<1>1. /\ phase' = phase /\ exp' = exp /\ trades' = trades /\ floor' = floor
      /\ rank' = rank /\ weekend' = weekend /\ dates' = dates
      /\ cash' = cash /\ active' = active /\ pnl' = pnl /\ yearly' = yearly
      /\ peak' = peak /\ taken' = taken /\ skipped' = skipped
      /\ blocked' = blocked /\ triggered' = triggered /\ cooldown' = cooldown
      /\ gold' = gold /\ bear' = bear
  BY DEF vars
<1>2. TypeOK' /\ Setup' /\ History' /\ Slots'
  BY <1>1 DEF IInv, TypeOK, Setup, History, Slots
<1>3. Exits' /\ Books' /\ Counts' /\ OneSlotPerSymbol' /\ HedgeFollowsRegime'
  BY <1>1
     DEF IInv, Exits, Visited, Books, GoldCost, Counts, OneSlotPerSymbol, HedgeFollowsRegime
<1> QED  BY <1>2, <1>3 DEF IInv

(* Every step collects a trade, begins, sells the hedge or is a day.       *)
LEMMA Steps ==
    ASSUME IInv, Next
    PROVE  Collect \/ Begin \/ SellHedge \/ SomeDay
BY UndeduplicatedDay, DeduplicatedDay, CappedDay, FixedIsDay, VixIsDay, MomentumIsDay,
   TimedIsDay, RebalanceIsDay, GoldIsDay DEF Next

LEMMA StepKeeps == ASSUME IInv, [Next]_vars PROVE IInv'
<1>1. CASE UNCHANGED vars
  BY <1>1, Stutters
<1>2. CASE Next
  <2>1. CASE Collect
    BY <2>1, CollectKeeps
  <2>2. CASE Begin
    BY <2>2, BeginKeeps
  <2>3. CASE SellHedge
    BY <2>3, SellHedgeKeeps
  <2>4. CASE SomeDay
    BY <2>4, DayKeeps DEF SomeDay
  <2> QED  BY <1>2, <2>1, <2>2, <2>3, <2>4, Steps
<1> QED  BY <1>1, <1>2

-----------------------------------------------------------------------------
(* What follows from the invariant.                                        *)

LEMMA ConservedHolds == IInv => CapitalConserved
<1> SUFFICES ASSUME IInv  PROVE CapitalConserved
  OBVIOUS
<1>1. ASSUME exp \in Undeduplicated /\ dates = {}
      PROVE  taken + skipped = Cardinality(trades)
  <2>1. {t \in trades : t.entry \notin dates} = trades
    BY <1>1
  <2> QED  BY <1>1, <2>1 DEF IInv, Counts
<1> QED  BY <1>1 DEF IInv, Books, CapitalConserved

LEMMA SlotsCloseHolds == IInv => SlotsClose
<1> SUFFICES ASSUME IInv  PROVE SlotsClose
  OBVIOUS
<1>1. ASSUME NEW s \in active,
             IF dates # {} THEN s.trade.exit < today ELSE exp \notin EndWithLastEntry
      PROVE  s.trade.exit = s.trade.entry \/ s.trade.exit \in weekend
  <2> DEFINE d == s.trade.exit
  <2>1. Visited(d) \/ d = s.trade.entry
    BY DEF IInv, Exits
  <2>2. d \in Nat
    BY PriceTypes DEF IInv, TypeOK, Slots
  <2>3. CASE dates # {}
    <3>1. /\ today \in dates /\ today \in Nat
          /\ \A e \in dates : e \in Nat /\ today <= e
      BY <2>3, TodayFacts DEF IInv
    <3>2. d < today
      BY <1>1, <2>3
    <3> HIDE DEF d
    <3>3. d \notin dates /\ ~ \A e \in dates : e < d
      BY <2>2, <3>1, <3>2
    <3> QED  BY <2>1, <3>3 DEF Visited, d
  <2>4. CASE dates = {}
    BY <1>1, <2>1, <2>4 DEF Visited
  <2> QED  BY <2>3, <2>4
<1>2. OnlyStrandedStay
  BY <1>1 DEF OnlyStrandedStay
<1> QED  BY <1>2 DEF IInv, SlotsClose

(* A step that overdraws the account: the body of OverdrawnByDearShare.    *)
Overdraws ==
    cash >= 0 /\ cash' < 0 =>
        \/ \E s \in active' \ active : s.trade.price > floor
        \/ exp = "rebalance" /\ \E s \in active : s.qty < 0
        \/ gold' # gold /\ gold'.price > GoldChunk

LEMMA StepOverdraws == ASSUME IInv, [Next]_vars PROVE Overdraws
<1> SUFFICES ASSUME cash >= 0, cash' < 0
             PROVE  \/ \E s \in active' \ active : s.trade.price > floor
                    \/ exp = "rebalance" /\ \E s \in active : s.qty < 0
                    \/ gold' # gold /\ gold'.price > GoldChunk
  BY DEF Overdraws
<1>1. cash \in Int
  BY DEF IInv, TypeOK
<1>2. cash' # cash
  BY <1>1
<1>3. ~ UNCHANGED vars
  BY <1>2 DEF vars
<1>4. ~Collect /\ ~Begin /\ ~SellHedge
  BY <1>2 DEF Collect, ReplayPullback, ReplaySupertrend, ReplaySqueeze, ReplaySwan,
              Close, Begin, SellHedge, account
<1>5. SomeDay
  BY <1>3, <1>4, Steps
<1>6. PICK kept, bought, c, gain, down :
        Day(kept, bought, c, gain, down) /\ Pays(bought, c)
  BY <1>5 DEF SomeDay
<1>7. TypeOK /\ Setup /\ Slots /\ dates # {}
  BY <1>6 DEF IInv, Day
<1>8. cash' = c - Cost(bought) /\ c \in Int /\ Purchase(bought)
  BY <1>6 DEF Day, Settle
<1>9. Cost(bought) \in Int /\ active' = kept \cup bought
  BY <1>6, <1>7, DayParts
<1>10. ~(Cost(bought) <= c)
  BY <1>8, <1>9
<1>11. \A s \in bought : s \notin active
  <2>1. today \in dates /\ today \in Nat
    BY <1>7, TodayFacts
  <2>2. \A s \in bought : s.trade.entry = today
    BY <1>7, <1>8, TodayTypes DEF Purchase
  <2>3. \A s \in active : s.trade.entry < today
    BY <1>7, <2>1 DEF Slots
  <2> QED  BY <2>1, <2>2, <2>3
<1> QED  BY <1>6, <1>9, <1>10, <1>11 DEF Pays

(* A step of a breaker: the body of BreakersRelease.                       *)
Releases ==
    /\ LockedOut => active' = {} /\ pnl' = pnl
    /\ exp = "timed" /\ cooldown # 0 /\ dates # {} /\ today > cooldown
       /\ TodaysTrades # {} => blocked' = blocked /\ cooldown' = 0

LEMMA StaysLocked ==
    ASSUME IInv, LockedOut, BreakerDay
    PROVE  active' = {} /\ pnl' = pnl
<1> DEFINE shut == DeepDrawdown /\ TodaysTrades # {}
           ts == IF shut THEN {} ELSE Fresh(TodaysTrades)
           B == Dynamic(ts, FreeCash)
<1>1. Settle(Kept, B, FreeCash, Gain, 0)
  BY DEF BreakerDay, GatedDay
<1>2. active = {} /\ (peak - (Capital + pnl)) * 100 >= Trigger * peak
  BY DEF LockedOut
<1>3. Closing = {} /\ Kept = {}
  BY <1>2 DEF Closing, Kept
<1>4. Gain = 0
  BY <1>3, CostEmpty DEF Gain
<1>5. pnl \in Int /\ peak \in Nat /\ Capital \in Nat /\ peak >= Capital + pnl
  BY ConstantTypes DEF IInv, TypeOK, Books, LockedOut
<1>6. DeepDrawdown
  <2>1. Equity = Capital + pnl
    BY <1>4, <1>5 DEF Equity
  <2>2. Peak = peak
    BY <1>5, <2>1, MaxOfTwo DEF Peak
  <2> QED  BY <1>2, <2>1, <2>2 DEF DeepDrawdown
<1>7. ts = {}
  BY <1>6 DEF Fresh
<1> HIDE DEF ts
<1>8. B = {}
  BY <1>7 DEF Dynamic, First, Buy
<1> HIDE DEF B
<1> QED  BY <1>1, <1>3, <1>4, <1>5, <1>8 DEF Settle

LEMMA StepReleases == ASSUME IInv, Next PROVE Releases
<1>1. ASSUME LockedOut  PROVE active' = {} /\ pnl' = pnl
  <2>1. /\ active = {} /\ phase = "days" /\ exp = "breaker" /\ gold = None
    BY <1>1 DEF LockedOut, IInv, Setup
  <2>2. CASE BreakerDay
    BY <1>1, <2>2, StaysLocked
  <2>3. ~Collect /\ ~Begin /\ ~SellHedge
    BY <2>1 DEF Collect, ReplayPullback, ReplaySupertrend, ReplaySqueeze, ReplaySwan,
                Close, Begin, SellHedge
  <2>4. /\ ~CombosDay /\ ~MasterDay /\ ~TenYearDay /\ ~WalkForwardDay
        /\ ~SensitivityDay /\ ~TrainTestDay /\ ~EntryCapDay /\ ~FixedDay
        /\ ~VixDay /\ ~RegimeDay /\ ~MomentumDay /\ ~TimedDay
        /\ ~RebalanceDay /\ ~GoldDay
    BY <2>1 DEF Loop, CombosDay, MasterDay, TenYearDay, WalkForwardDay, SensitivityDay,
                TrainTestDay, EntryCapDay, FixedDay, VixDay, RegimeDay, MomentumDay,
                TimedDay, RebalanceDay, GoldDay
  <2> QED  BY <2>2, <2>3, <2>4 DEF Next
<1>2. ASSUME exp = "timed", cooldown # 0, dates # {}, today > cooldown, TodaysTrades # {}
      PROVE  blocked' = blocked /\ cooldown' = 0
  <2>1. phase # "collect"
    BY <1>2 DEF IInv, Setup
  <2>2. today \in Nat /\ cooldown \in Nat /\ blocked \in Nat
    BY <1>2, TodayFacts DEF IInv, TypeOK
  <2>3. CASE TimedDay
    <3>1. ~Cooling(cooldown)
      BY <1>2, <2>2 DEF Cooling
    <3>2. GatedDay(FALSE) /\ cooldown' = 0
      BY <1>2, <2>3, <3>1 DEF TimedDay
    <3> QED  BY <2>2, <3>2 DEF GatedDay
  <2>4. ~Collect /\ ~Begin /\ ~SellHedge
    BY <1>2, <2>1 DEF Collect, ReplayPullback, ReplaySupertrend, ReplaySqueeze, ReplaySwan,
                Close, Begin, SellHedge
  <2>5. /\ ~CombosDay /\ ~MasterDay /\ ~TenYearDay /\ ~WalkForwardDay
        /\ ~SensitivityDay /\ ~TrainTestDay /\ ~EntryCapDay /\ ~FixedDay
        /\ ~VixDay /\ ~RegimeDay /\ ~MomentumDay /\ ~BreakerDay
        /\ ~RebalanceDay /\ ~GoldDay
    BY <1>2 DEF Loop, CombosDay, MasterDay, TenYearDay, WalkForwardDay, SensitivityDay,
                TrainTestDay, EntryCapDay, FixedDay, VixDay, RegimeDay, MomentumDay,
                BreakerDay, RebalanceDay, GoldDay
  <2> QED  BY <2>3, <2>4, <2>5 DEF Next
<1> QED  BY <1>1, <1>2 DEF Releases

-----------------------------------------------------------------------------
(* For any keys, prices, weekend sessions and splits, any history of       *)
(* trades and every experiment: free cash, open slots and the hedge at     *)
(* cost are the capital plus what was realized, the years add up to the    *)
(* total, and the experiments that visit every entry count each trade as   *)
(* taken or skipped (the day loops of the backtest scripts).               *)
THEOREM Conserved == Spec => []CapitalConserved
<1>1. IInv /\ [Next]_vars => IInv'
  BY StepKeeps
<1> QED  BY <1>1, InitHolds, ConservedHolds, PTL DEF Spec

(* No experiment that deduplicates holds a symbol twice, a slot that is    *)
(* still open after its exit day was entered on that day or has its exit   *)
(* on a weekend session, and gold is held in bear regimes only (the        *)
(* exits and duplicate checks of the day loops).                           *)
THEOREM Closes == Spec => []SlotsClose
<1>1. IInv /\ [Next]_vars => IInv'
  BY StepKeeps
<1> QED  BY <1>1, InitHolds, SlotsCloseHolds, PTL DEF Spec

(* Whatever is bought and sold, cash turns negative only where max(1, ...) *)
(* buys a share dearer than a chunk, or where rebalancing had sold more    *)
(* shares than were held (the buying loops, backtest_rebalancing.py).      *)
THEOREM Overdrawn == Spec => OverdrawnByDearShare
<1>1. IInv /\ [Next]_vars => IInv'
  BY StepKeeps
<1>2. IInv /\ [Next]_vars => [Overdraws]_vars
  BY StepOverdraws
<1>3. Spec => [][Overdraws]_vars
  BY <1>1, <1>2, InitHolds, PTL DEF Spec
<1> QED  BY <1>3 DEF OverdrawnByDearShare, Overdraws

(* A breaker that waits for a recovery, once tripped without positions, is *)
(* locked for good; the timed one trades on the first day with signals     *)
(* after its cooldown, whatever the equity (backtest_circuit_breaker.py,   *)
(* backtest_circuit_breaker_timed.py).                                     *)
THEOREM Release == Spec => BreakersRelease
<1>1. IInv /\ [Next]_vars => IInv'
  BY StepKeeps
<1>2. IInv /\ [Next]_vars => [Releases]_vars
  BY StepReleases
<1>3. Spec => [][Releases]_vars
  BY <1>1, <1>2, InitHolds, PTL DEF Spec
<1> QED  BY <1>3 DEF BreakersRelease, Releases
=============================================================================
