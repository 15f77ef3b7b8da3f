------------------------- MODULE DailyTraderProofs -------------------------
(***************************************************************************)
(* What the deployed system guarantees for every portfolio and every       *)
(* number of overlapping jobs: what one run of the master engine selects   *)
(* and spends, for any ledger; then the safety of the whole system,        *)
(* whatever fails around it; then what holds under its schedule, including *)
(* that the ledger implements CapitalAccount.                              *)
(***************************************************************************)
EXTENDS DailyTrader, SumTheorems

Books == [Keys -> Entries]

-----------------------------------------------------------------------------
(* The rank order of the keys.                                             *)

LEMMA OutranksOrder ==
    /\ \A j \in Keys : ~Outranks(j, j)
    /\ \A i, j, k \in Keys : Outranks(i, j) /\ Outranks(j, k) => Outranks(i, k)
    /\ \A j, k \in Keys : j # k => Outranks(j, k) \/ Outranks(k, j)
<1>1. \A k \in Keys : Priority[StrategyOf[k]] \in Int
  <2>1. \A k \in Keys : StrategyOf[k] \in Strategies
    BY StrategyAssumption
  <2>2. \A s \in Strategies : Priority[s] \in {0, 1, 2, 3, 4}
    BY DEF Priority
  <2>3. {0, 1, 2, 3, 4} \subseteq Int
    OBVIOUS
  <2> QED  BY <2>1, <2>2, <2>3
<1>2. /\ \A k \in Keys : Place[k] \in Nat
      /\ \A j, k \in Keys : Place[j] = Place[k] => j = k
  BY KeyAssumption
<1> DEFINE P(k) == Priority[StrategyOf[k]]
<1>3. \A j, k \in Keys : Outranks(j, k) <=>
        P(j) > P(k) \/ (P(j) = P(k) /\ Place[j] < Place[k])
  BY DEF Outranks
<1>4. \A k \in Keys : P(k) \in Int
  BY <1>1
<1> HIDE DEF P
<1> QED  BY <1>2, <1>3, <1>4

(* A non-empty set of keys has one that all the others outrank. *)
LEMMA LastRanked ==
    ASSUME NEW S \in SUBSET Keys, S # {}
    PROVE  \E l \in S : \A k \in S : k # l => Outranks(k, l)
<1> DEFINE Below(k) == {j \in S : Outranks(k, j)}
           Bad == {Below(k) : k \in S}
<1>1. IsFiniteSet(S)
  BY KeyAssumption, FS_Subset
<1>2. PICK T \in Bad : \A U \in SUBSET T : U # T => U \notin Bad
  <2>1. Bad \subseteq SUBSET S /\ Bad # {}  OBVIOUS
  <2> HIDE DEF Bad
  <2> QED  BY <1>1, <2>1, MinimalSubset
<1>3. PICK l \in S : T = Below(l)
  OBVIOUS
<1>4. ASSUME NEW j \in S, Outranks(l, j)  PROVE FALSE
  <2>1. Below(j) \in SUBSET Below(l)
    BY <1>4, OutranksOrder
  <2>2. j \in Below(l) /\ j \notin Below(j)
    BY <1>4, OutranksOrder
  <2>3. Below(j) \in Bad
    OBVIOUS
  <2> QED  BY <1>2, <1>3, <2>1, <2>2, <2>3
<1>5. \A k \in S : k # l => Outranks(k, l)
  BY <1>4, OutranksOrder
<1> QED  BY <1>5

(* No more candidates are selected than there are slots. *)
LEMMA SelectedAtMost ==
    ASSUME NEW cands \in SUBSET Keys, NEW slots \in Nat
    PROVE  /\ IsFiniteSet(Selected(cands, slots))
           /\ Cardinality(Selected(cands, slots)) <= slots
<1> DEFINE S == Selected(cands, slots)
<1>1. S \in SUBSET cands /\ S \in SUBSET Keys
  BY DEF Selected
<1>2. IsFiniteSet(S) /\ IsFiniteSet(cands)
  BY <1>1, KeyAssumption, FS_Subset
<1>3. CASE S = {}
  BY <1>2, <1>3, FS_EmptySet
<1>4. CASE S # {}
  <2>1. PICK l \in S : \A k \in S : k # l => Outranks(k, l)
    <3> HIDE DEF S
    <3> QED  BY <1>1, <1>4, LastRanked
  <2> DEFINE above == {j \in cands : Outranks(j, l)}
  <2>2. Cardinality(above) < slots
    BY <2>1 DEF Selected
  <2>3. S \ {l} \in SUBSET above
    BY <1>1, <2>1
  <2>4. IsFiniteSet(above)
    BY <1>2, FS_Subset
  <2>5. Cardinality(S \ {l}) <= Cardinality(above)
    BY <2>3, <2>4, FS_Subset
  <2>6. Cardinality(S \ {l}) = Cardinality(S) - 1
    BY <1>2, <2>1, FS_RemoveElement
  <2>7. Cardinality(S) \in Nat /\ Cardinality(above) \in Nat
    BY <1>2, <2>4, FS_CardinalityType
  <2>8. Cardinality(S) <= slots
    <3> HIDE DEF S, above
    <3> QED  BY <2>2, <2>5, <2>6, <2>7
  <2> QED  BY <1>2, <2>8
<1> QED  BY <1>3, <1>4

-----------------------------------------------------------------------------
(* Equal shares of the free cash, in whole shares.                         *)

(* If the free cash holds n chunks and a share costs no more than a chunk, *)
(* n equal shares in whole shares are at least one share each and cost no  *)
(* more than the free cash.                                                *)
LEMMA ShareFits ==
    ASSUME NEW free \in Nat, NEW n \in Nat \ {0}, n <= MaxSlots(free),
           NEW price \in Nat \ {0}, price <= MinChunk
    PROVE  /\ Qty(free, n, price) \in Nat \ {0}
           /\ Qty(free, n, price) * price <= free \div n
<1>1. MinChunk \in Nat \ {0}
  BY CapitalAssumption
<1>2. n * MinChunk <= free
  <2> DEFINE s == free \div MinChunk
  <2>1. s \in Nat /\ s * MinChunk <= free  BY <1>1, Division
  <2>2. n <= s  BY DEF MaxSlots
  <2> HIDE DEF s
  <2>3. PICK r \in Nat : s = n + r  BY <2>1, <2>2
  <2>4. s * MinChunk = n * MinChunk + r * MinChunk  BY <1>1, <2>3
  <2>5. r * MinChunk \in Nat /\ n * MinChunk \in Nat  BY <1>1
  <2> QED  BY <2>1, <2>4, <2>5
<1> DEFINE d == n * price
<1>3. d \in Nat \ {0} /\ d <= free
  <2>1. PICK r \in Nat : MinChunk = price + r  BY <1>1
  <2>2. n * MinChunk = n * price + n * r  BY <2>1
  <2>3. n * r \in Nat /\ n * price \in Nat \ {0}  OBVIOUS
  <2> QED  BY <1>2, <2>2, <2>3
<1> DEFINE q == free \div d
<1>4. Qty(free, n, price) = q
  BY <1>3 DEF Qty
<1> HIDE DEF d
<1>5. q \in Nat /\ q * d <= free
  BY <1>3, Division
<1>6. q # 0
  <2>1. 1 * d <= free  BY <1>3
  <2>2. 1 <= q  BY <1>3, <2>1, Division
  <2> QED  BY <1>5, <2>2
<1> HIDE DEF q
<1>7. (q * price) * n <= free
  <2>1. q * d = (q * price) * n  BY <1>5 DEF d
  <2> QED  BY <1>5, <2>1
<1>8. q * price <= free \div n
  <2>1. q * price \in Nat  BY <1>5
  <2> QED  BY <1>7, <2>1, Division
<1> QED  BY <1>4, <1>5, <1>6, <1>8

-----------------------------------------------------------------------------
(* The capital a run commits.                                              *)

LEMMA CostType ==
    ASSUME NEW book \in Books
    PROVE  /\ \A k \in Keys : Cost(book[k]) \in Nat
           /\ BookValue(book) \in Nat
<1>1. ASSUME NEW k \in Keys  PROVE Cost(book[k]) \in Nat
  <2>1. book[k].qty \in Nat /\ book[k].entry_price \in Nat
    BY DEF Books, Entries
  <2> QED  BY <2>1 DEF Cost
<1> DEFINE f == [k \in Keys |-> Cost(book[k])]
<1>2. \A k \in Keys : f[k] \in Nat
  BY <1>1
<1>3. BookValue(book) = SumFunctionOnSet(f, Keys)
  BY DEF BookValue
<1> HIDE DEF f
<1>4. BookValue(book) \in Nat
  BY <1>2, <1>3, KeyAssumption, SumNat
<1> QED  BY <1>1, <1>4

LEMMA NoEntryType == NoEntry \in Entries /\ Cost(NoEntry) = 0
BY BoundAssumption DEF NoEntry, Entries, Cost

LEMMA AfterExitsType ==
    ASSUME NEW book \in Books, NEW errs
    PROVE  AfterExits(book, errs) \in Books
BY NoEntryType DEF AfterExits, Books

(* Booking exits only releases capital. *)
LEMMA ExitsRelease ==
    ASSUME NEW book \in Books, NEW errs
    PROVE  BookValue(AfterExits(book, errs)) <= BookValue(book)
<1> DEFINE left == AfterExits(book, errs)
           f == [k \in Keys |-> Cost(book[k])]
           h == [k \in Keys |-> Cost(left[k])]
<1>1. \A k \in Keys : left[k] = book[k] \/ left[k] = NoEntry
  BY DEF AfterExits
<1>2. ASSUME NEW k \in Keys
      PROVE  f[k] \in Int /\ h[k] \in Int /\ h[k] <= f[k]
  <2> HIDE DEF left
  <2>1. Cost(book[k]) \in Nat  BY CostType
  <2>2. Cost(left[k]) = Cost(book[k]) \/ Cost(left[k]) = 0
    BY <1>1, NoEntryType
  <2> HIDE DEF Cost
  <2> QED  BY <2>1, <2>2
<1>3. BookValue(book) = SumFunctionOnSet(f, Keys)
      /\ BookValue(left) = SumFunctionOnSet(h, Keys)
  BY DEF BookValue
<1> HIDE DEF f, h
<1>4. SumFunctionOnSet(h, Keys) <= SumFunctionOnSet(f, Keys)
  BY <1>2, KeyAssumption, SumMonotone
<1> QED  BY <1>3, <1>4

LEMMA PositionFacts ==
    ASSUME ReplayTypeOK, NEW k \in Keys, pos[k] # None
    PROVE  /\ pos[k].price \in EntryPrices
           /\ pos[k].price \in Nat \ {0}
           /\ pos[k].trade \in 0..MaxTrades
           /\ pos[k].age \in 0..MaxHold
BY PriceAssumption DEF ReplayTypeOK, Position

LEMMA OwnCostType ==
    ASSUME NEW price \in Nat \ {0}
    PROVE  OwnCost(price) \in Nat
<1> DEFINE q == IF price <= OwnCapital THEN OwnCapital \div price ELSE 1
<1>1. q \in Nat
  BY CapitalAssumption, Division
<1>2. OwnCost(price) = price * q
  BY DEF OwnCost
<1> HIDE DEF q
<1> QED  BY <1>1, <1>2

(* Every position counts with a natural cost, so free cash is what the     *)
(* locked capital leaves.                                                  *)
LEMMA LockedType ==
    ASSUME ReplayTypeOK, NEW book \in Books, NEW errs
    PROVE  /\ \A k \in Keys : LockedCost(book, errs)[k] \in Nat
           /\ TotalLocked(book, errs) \in Nat
           /\ FreeCash(book, errs) \in Nat
           /\ FreeCash(book, errs) # 0 =>
                FreeCash(book, errs) = TotalCapital - TotalLocked(book, errs)
<1> DEFINE f == LockedCost(book, errs)
<1>1. ASSUME NEW k \in Keys  PROVE f[k] \in Nat
  <2>1. Cost(book[k]) \in Nat
    BY CostType
  <2>2. k \in OpenPositions(book, errs) => OwnCost(pos[k].price) \in Nat
    <3>1. k \in OpenPositions(book, errs) => pos[k] # None
      BY DEF OpenPositions
    <3> QED  BY <3>1, PositionFacts, OwnCostType
  <2> QED  BY <2>1, <2>2 DEF LockedCost
<1>2. TotalLocked(book, errs) = SumFunctionOnSet(f, Keys)
  BY DEF TotalLocked
<1> HIDE DEF f
<1>3. TotalLocked(book, errs) \in Nat
  BY <1>1, <1>2, KeyAssumption, SumNat
<1>4. /\ FreeCash(book, errs) \in Nat
      /\ FreeCash(book, errs) # 0 =>
            FreeCash(book, errs) = TotalCapital - TotalLocked(book, errs)
  BY <1>3, CapitalAssumption DEF FreeCash
<1> QED  BY <1>1, <1>3, <1>4 DEF f

(* Whatever the ledger still holds after the exits is locked, by the       *)
(* position of its strategy or as an orphan.                               *)
LEMMA HeldIsLocked ==
    ASSUME ReplayTypeOK, NEW book \in Books, NEW errs, NEW k \in Keys
    PROVE  Cost(AfterExits(book, errs)[k]) <= LockedCost(book, errs)[k]
<1> DEFINE left == AfterExits(book, errs)
<1>1. left \in Books
  BY AfterExitsType
<1>2. LockedCost(book, errs)[k] \in Nat
  BY LockedType
<1>3. CASE ~Held(left, k)
  <2>1. left[k].qty = 0 /\ left[k].entry_price \in Nat
    BY <1>1, <1>3 DEF Held, Books, Entries
  <2>2. Cost(left[k]) = 0
    BY <2>1 DEF Cost
  <2> QED  BY <1>2, <2>2
<1>4. CASE Held(left, k)
  <2>1. k \notin BookedExits(book, errs) /\ left[k] = book[k]
    <3>1. k \in BookedExits(book, errs) => left[k] = NoEntry
      BY DEF AfterExits
    <3> QED  BY <1>4, <3>1 DEF Held, NoEntry, AfterExits
  <2>2. k \in OpenPositions(book, errs) \/ k \in Orphans(book, errs)
    BY <1>4, <2>1 DEF Orphans, HeldKeys
  <2>3. LockedCost(book, errs)[k] = Cost(book[k])
    BY <1>4, <2>2 DEF LockedCost
  <2>4. Cost(book[k]) \in Nat
    BY CostType
  <2> QED  BY <2>1, <2>3, <2>4
<1> QED  BY <1>3, <1>4

-----------------------------------------------------------------------------
(* The deduplication is well defined: the kept set that Deduped chooses    *)
(* exists for every set of entries, whatever their tickers.                *)
THEOREM DedupedKeeps ==
    ASSUME NEW raw \in SUBSET Keys
    PROVE  /\ Deduped(raw) \in SUBSET raw
           /\ \A k \in raw : k \in Deduped(raw) <=>
                ~ \E j \in Deduped(raw) : Outranks(j, k) /\ Conflict(j, k)
<1> DEFINE Keeps(K, T) == \A k \in T :
               k \in K <=> ~ \E j \in K : Outranks(j, k) /\ Conflict(j, k)
           Bad == {T \in SUBSET raw : ~ \E K \in SUBSET T : Keeps(K, T)}
<1>1. SUFFICES ASSUME Bad # {} PROVE FALSE
  <2>1. SUFFICES ASSUME Bad = {}
                 PROVE Deduped(raw) \in SUBSET raw /\ Keeps(Deduped(raw), raw)
    OBVIOUS
  <2>2. \E K \in SUBSET raw : Keeps(K, raw)
    BY <2>1
  <2>3. Deduped(raw) = CHOOSE K \in SUBSET raw : Keeps(K, raw)
    BY DEF Deduped
  <2> HIDE DEF Keeps
  <2> QED  BY <2>2, <2>3
<1>2. PICK T \in Bad : \A U \in SUBSET T : U # T => U \notin Bad
  <2>1. Bad \subseteq SUBSET raw  OBVIOUS
  <2>2. IsFiniteSet(raw)  BY KeyAssumption, FS_Subset
  <2> HIDE DEF Bad
  <2> QED  BY <1>1, <2>1, <2>2, MinimalSubset
<1>3. T \in SUBSET Keys /\ T \in SUBSET raw /\ ~ \E K \in SUBSET T : Keeps(K, T)
  OBVIOUS
<1>4. T # {}
  <2>1. Keeps({}, {})  OBVIOUS
  <2> QED  BY <1>3, <2>1
<1>5. PICK l \in T : \A k \in T : k # l => Outranks(k, l)
  BY <1>3, <1>4, LastRanked
<1>6. PICK K \in SUBSET (T \ {l}) : Keeps(K, T \ {l})
  <2> DEFINE U == T \ {l}
  <2>1. U \in SUBSET T /\ U # T /\ U \in SUBSET raw
    BY <1>3
  <2>2. U \notin Bad
    <3> HIDE DEF U, Bad
    <3> QED  BY <1>2, <2>1
  <2> HIDE DEF Keeps, U
  <2>3. \E K \in SUBSET U : Keeps(K, U)  BY <2>1, <2>2
  <2> QED  BY <2>3 DEF U
<1>7. \A k \in T : k # l => Outranks(k, l) /\ ~Outranks(l, k)
  BY <1>3, <1>5, OutranksOrder
<1>8. ~Outranks(l, l)
  BY <1>3, OutranksOrder
<1> HIDE DEF Bad
<1>9. CASE \E j \in K : Conflict(j, l)
  <2>1. Keeps(K, T)
    BY <1>6, <1>7, <1>9
  <2> QED  BY <1>3, <2>1
<1>10. CASE ~ \E j \in K : Conflict(j, l)
  <2>1. Keeps(K \cup {l}, T)
    BY <1>6, <1>7, <1>8, <1>10
  <2> QED  BY <1>3, <2>1
<1> QED  BY <1>9, <1>10

(* What is approved: kept entries of today, no more than there are slots,  *)
(* none of them in the ticker of an open position.                         *)
LEMMA ApprovedFacts ==
    ASSUME ReplayTypeOK, NEW book \in Books, NEW errs
    PROVE  /\ Approved(book, errs) \subseteq Deduped(RawEntries(errs))
           /\ Approved(book, errs) \subseteq RawEntries(errs)
           /\ \A k \in Approved(book, errs), o \in OpenPositions(book, errs) :
                ~Conflict(o, k)
           /\ IsFiniteSet(Approved(book, errs))
           /\ Cardinality(Approved(book, errs)) <= MaxSlots(FreeCash(book, errs))
           /\ Approved(book, errs) # {} =>
                /\ Cardinality(Approved(book, errs)) \in Nat \ {0}
                /\ errs = {}
                /\ FreeCash(book, errs) >= MinChunk
<1> DEFINE A == Approved(book, errs)
           free == FreeCash(book, errs)
           cands == Candidates(book, errs)
           slots == MaxSlots(free)
<1>1. free \in Nat /\ slots \in Nat
  <2>1. free \in Nat  BY LockedType
  <2> HIDE DEF free
  <2> QED  BY <2>1, CapitalAssumption, Division DEF MaxSlots
<1>2. RawEntries(errs) \in SUBSET Keys
  BY DEF RawEntries
<1>3. Deduped(RawEntries(errs)) \in SUBSET RawEntries(errs)
  BY <1>2, DedupedKeeps
<1>4. /\ cands \in SUBSET Deduped(RawEntries(errs))
      /\ \A k \in cands, o \in OpenPositions(book, errs) : ~Conflict(o, k)
  BY DEF Candidates, NotHeld
<1>5. cands \in SUBSET Keys
  BY <1>2, <1>3, <1>4
<1>6. /\ Selected(cands, slots) \in SUBSET cands
      /\ IsFiniteSet(Selected(cands, slots))
      /\ Cardinality(Selected(cands, slots)) <= slots
  <2> HIDE DEF cands, slots
  <2>1. Selected(cands, slots) \in SUBSET cands  BY DEF Selected
  <2> QED  BY <1>1, <1>5, <2>1, SelectedAtMost
<1>7. A = IF CapitalSafe(errs) /\ free >= MinChunk
          THEN Selected(cands, slots) ELSE {}
  BY DEF Approved
<1> HIDE DEF A, free, cands, slots
<1>8. A \in SUBSET cands /\ IsFiniteSet(A) /\ Cardinality(A) <= slots
  <2>1. CASE A = {}
    BY <1>1, <2>1, FS_EmptySet
  <2>2. CASE A # {}
    BY <1>6, <1>7, <2>2
  <2> QED  BY <2>1, <2>2
<1>9. A # {} => Cardinality(A) \in Nat \ {0} /\ errs = {} /\ free >= MinChunk
  <2>1. A # {} => errs = {} /\ free >= MinChunk  BY <1>7 DEF CapitalSafe
  <2>2. A # {} => Cardinality(A) \in Nat \ {0}
    BY <1>8, FS_EmptySet, FS_CardinalityType
  <2> QED  BY <2>1, <2>2
<1> QED  BY <1>3, <1>4, <1>8, <1>9 DEF A, free, slots

-----------------------------------------------------------------------------
(* The ledger a run saves.                                                 *)

LEMMA QtyType ==
    ASSUME NEW free \in Nat, NEW n \in Nat \ {0}, NEW price \in Nat \ {0}
    PROVE  Qty(free, n, price) \in Nat
<1> DEFINE d == n * price
<1>1. d \in Nat \ {0}
  OBVIOUS
<1>2. Qty(free, n, price) = IF d <= free THEN free \div d ELSE 1
  BY DEF Qty
<1> HIDE DEF d
<1> QED  BY <1>1, <1>2, Division

LEMMA AfterRunType ==
    ASSUME ReplayTypeOK, NEW book \in Books, NEW errs
    PROVE  AfterRun(book, errs) \in Books
<1> DEFINE A == Approved(book, errs)
           left == AfterExits(book, errs)
           free == FreeCash(book, errs)
           new(k) == [qty |-> Qty(free, Cardinality(A), pos[k].price),
                      entry_price |-> pos[k].price, trade |-> pos[k].trade]
<1>1. AfterRun(book, errs) = [k \in Keys |-> IF k \in A THEN new(k) ELSE left[k]]
  BY DEF AfterRun
<1>2. left \in Books
  BY AfterExitsType
<1>3. ASSUME NEW k \in Keys, k \in A  PROVE new(k) \in Entries
  <2>1. pos[k] # None
    BY <1>3, ApprovedFacts DEF RawEntries
  <2>2. free \in Nat /\ Cardinality(A) \in Nat \ {0}
    BY <1>3, LockedType, ApprovedFacts
  <2>3. Qty(free, Cardinality(A), pos[k].price) \in Nat
    <3> HIDE DEF free, A
    <3> QED  BY <2>1, <2>2, PositionFacts, QtyType
  <2> HIDE DEF free, A
  <2> QED  BY <2>1, <2>3, PositionFacts DEF Entries
<1> HIDE DEF A, left, new
<1> QED  BY <1>1, <1>2, <1>3 DEF Books

(* The capital of the account pays for everything a run leaves in the      *)
(* ledger: what is approved fits into the free cash, and the free cash is  *)
(* what everything else in the ledger leaves.                              *)
THEOREM RunIsAffordable ==
    ASSUME ReplayTypeOK, PricesFit, NEW book \in Books, NEW errs,
           BookValue(book) <= TotalCapital
    PROVE  BookValue(AfterRun(book, errs)) <= TotalCapital
<1> DEFINE A == Approved(book, errs)
           left == AfterExits(book, errs)
           free == FreeCash(book, errs)
           n == Cardinality(A)
           next == AfterRun(book, errs)
           locked == LockedCost(book, errs)
           f == [k \in Keys |-> IF k \in A THEN Cost(next[k]) ELSE 0]
           h == [k \in Keys |-> Cost(next[k])]
<1>1. next \in Books /\ left \in Books
  BY AfterRunType, AfterExitsType
<1>2. \A k \in Keys : next[k] = IF k \in A
        THEN [qty |-> Qty(free, n, pos[k].price),
              entry_price |-> pos[k].price, trade |-> pos[k].trade]
        ELSE left[k]
  BY DEF AfterRun
<1>3. CASE A = {}
  <2>1. next = left
    BY <1>1, <1>2, <1>3 DEF Books
  <2>2. BookValue(left) <= BookValue(book)
    BY ExitsRelease
  <2>3. BookValue(left) \in Nat /\ BookValue(book) \in Nat /\ TotalCapital \in Nat
    BY <1>1, CostType, CapitalAssumption
  <2> HIDE DEF next, left
  <2> QED  BY <2>1, <2>2, <2>3 DEF next
<1>4. CASE A # {}
  <2>1. /\ n \in Nat \ {0} /\ n <= MaxSlots(free) /\ free >= MinChunk
        /\ A \subseteq RawEntries(errs)
    BY <1>4, ApprovedFacts
  <2>2. /\ free \in Nat
        /\ free = TotalCapital - SumFunctionOnSet(locked, Keys)
        /\ SumFunctionOnSet(locked, Keys) \in Nat
        /\ TotalCapital \in Nat
    BY <2>1, LockedType, CapitalAssumption DEF TotalLocked
  <2>3. \A k \in Keys : /\ Cost(next[k]) \in Nat /\ locked[k] \in Nat
                        /\ Cost(left[k]) <= locked[k]
    BY <1>1, CostType, LockedType, HeldIsLocked
  <2> DEFINE b == free \div n
  <2>4. b \in Nat /\ b * n <= free
    <3> HIDE DEF free, n
    <3> QED  BY <2>1, <2>2, Division
  <2>5. ASSUME NEW k \in Keys, k \in A  PROVE Cost(next[k]) <= b
    <3>1. pos[k] # None
      BY <2>1, <2>5 DEF RawEntries
    <3>2. pos[k].price \in Nat \ {0} /\ pos[k].price <= MinChunk
      BY <3>1, PositionFacts DEF PricesFit
    <3>3. Qty(free, n, pos[k].price) * pos[k].price <= b
      <4> HIDE DEF free, n
      <4> QED  BY <2>1, <2>2, <3>2, ShareFits DEF b
    <3>4. Cost(next[k]) = Qty(free, n, pos[k].price) * pos[k].price
      <4> DEFINE p == pos[k].price
                 q == Qty(free, n, p)
                 t == pos[k].trade
      <4>1. next[k] = [qty |-> q, entry_price |-> p, trade |-> t]
        BY <1>2, <2>5
      <4> HIDE DEF next, p, q, t
      <4>2. next[k].qty = q /\ next[k].entry_price = p
        BY <4>1
      <4>3. Cost(next[k]) = q * p
        BY <4>2 DEF Cost
      <4> QED  BY <4>3 DEF p, q
    <3> QED  BY <3>3, <3>4
  <2>6. ASSUME NEW k \in Keys
        PROVE  f[k] \in Int /\ f[k] <= (IF k \in A THEN b ELSE 0)
    <3>1. f[k] = IF k \in A THEN Cost(next[k]) ELSE 0
      OBVIOUS
    <3> HIDE DEF A, b, next, f
    <3> QED  BY <2>3, <2>4, <2>5, <3>1
  <2>7. ASSUME NEW k \in Keys  PROVE h[k] \in Int /\ h[k] <= f[k] + locked[k]
    <3>1. k \notin A => next[k] = left[k]
      BY <1>2
    <3>2. h[k] = Cost(next[k]) /\ f[k] = IF k \in A THEN Cost(next[k]) ELSE 0
      OBVIOUS
    <3> HIDE DEF A, next, left, locked, f, h
    <3> QED  BY <2>3, <3>1, <3>2
  <2>8. BookValue(next) = SumFunctionOnSet(h, Keys)
    BY DEF BookValue
  <2>9. ASSUME NEW k \in Keys  PROVE locked[k] \in Int
    <3> HIDE DEF locked, next, left
    <3> QED  BY <2>3
  <2>10. Keys \cap A = A
    BY <2>1 DEF RawEntries
  <2> HIDE DEF A, left, free, n, next, locked, f, h, b
  <2>11. SumFunctionOnSet(f, Keys) <= n * b
    <3>1. SumFunctionOnSet(f, Keys) <= Cardinality(Keys \cap A) * b
      BY <2>4, <2>6, KeyAssumption, SumSpread
    <3> QED  BY <2>10, <3>1 DEF n
  <2>12. SumFunctionOnSet(h, Keys) <=
           SumFunctionOnSet(f, Keys) + SumFunctionOnSet(locked, Keys)
    BY <2>6, <2>7, <2>9, KeyAssumption, SumPlus
  <2>13. SumFunctionOnSet(h, Keys) \in Int /\ SumFunctionOnSet(f, Keys) \in Int
    BY <2>6, <2>7, KeyAssumption, SumType
  <2>14. n * b <= free
    BY <2>1, <2>4
  <2>15. SumFunctionOnSet(f, Keys) <= free
    <3> DEFINE m == n * b
    <3>1. m \in Int /\ m <= free /\ SumFunctionOnSet(f, Keys) <= m
      BY <2>1, <2>4, <2>11, <2>14
    <3> HIDE DEF m
    <3> QED  BY <2>2, <2>13, <3>1
  <2> QED  BY <2>2, <2>8, <2>12, <2>13, <2>15 DEF next
<1> QED  BY <1>3, <1>4

-----------------------------------------------------------------------------
(* The tickers of the approved entries.                                    *)

(* Two approved entries share no ticker. *)
LEMMA ApprovedAreApart ==
    ASSUME ReplayTypeOK, NEW book \in Books, NEW errs,
           NEW j \in Approved(book, errs), NEW k \in Approved(book, errs),
           Conflict(j, k)
    PROVE  j = k
<1> DEFINE raw == RawEntries(errs)
<1>1. raw \in SUBSET Keys
  BY DEF RawEntries
<1>2. j \in Deduped(raw) /\ k \in Deduped(raw) /\ j \in raw /\ k \in raw
  BY ApprovedFacts
<1>3. \A l \in raw : l \in Deduped(raw) <=>
        ~ \E i \in Deduped(raw) : Outranks(i, l) /\ Conflict(i, l)
  BY <1>1, DedupedKeeps
<1>4. Conflict(k, j)
  BY DEF Conflict
<1>5. ~Outranks(j, k) /\ ~Outranks(k, j)
  BY <1>2, <1>3, <1>4
<1> QED  BY <1>1, <1>2, <1>5, OutranksOrder

(* A run adds no position to those that are open. *)
LEMMA OpenAfterRun ==
    ASSUME ReplayTypeOK, NEW book \in Books, NEW errs
    PROVE  OpenPositions(AfterRun(book, errs), errs) \subseteq OpenPositions(book, errs)
<1> DEFINE next == AfterRun(book, errs)
<1>1. SUFFICES ASSUME NEW o \in OpenPositions(next, errs)
               PROVE  o \in OpenPositions(book, errs)
  OBVIOUS
<1>2. /\ o \in Keys \ errs /\ pos[o] # None /\ pos[o].age > 0
      /\ Held(next, o) \/ pos[o].trade = 0
  BY DEF OpenPositions
<1>3. o \notin Approved(book, errs)
  <2>1. o \in Approved(book, errs) => pos[o].age = 0
    BY ApprovedFacts DEF RawEntries
  <2> QED  BY <1>2, <2>1
<1>4. next[o] = NoEntry \/ next[o] = book[o]
  BY <1>2, <1>3 DEF AfterRun, AfterExits
<1>5. Held(next, o) => Held(book, o)
  <2> HIDE DEF next
  <2>1. ~(NoEntry.qty > 0)  BY DEF NoEntry
  <2> QED  BY <1>4, <2>1 DEF Held
<1> QED  BY <1>2, <1>5 DEF OpenPositions

(* Whatever is approved is at least one share. *)
LEMMA QtyPositive ==
    ASSUME NEW free \in Nat, NEW n \in Nat \ {0}, NEW price \in Nat \ {0}
    PROVE  Qty(free, n, price) \in Nat \ {0}
<1> DEFINE d == n * price
<1>1. d \in Nat \ {0}
  OBVIOUS
<1>2. Qty(free, n, price) = IF d <= free THEN free \div d ELSE 1
  BY DEF Qty
<1> HIDE DEF d
<1>3. d <= free => 1 <= free \div d
  <2>1. 1 * d = d
    BY <1>1
  <2> QED  BY <1>1, <2>1, Division
<1>4. free \div d \in Nat
  BY <1>1, Division
<1> QED  BY <1>2, <1>3, <1>4

(* The ledger after a run, key by key: an approved key holds the trade its *)
(* strategy has just entered, a booked exit is gone, the rest is untouched. *)
LEMMA AfterRunAt ==
    ASSUME ReplayTypeOK, NEW book \in Books, NEW errs, NEW k \in Keys
    PROVE  /\ k \in Approved(book, errs) =>
                /\ k \notin errs /\ pos[k] # None /\ pos[k].age = 0
                /\ AfterRun(book, errs)[k].trade = pos[k].trade
                /\ AfterRun(book, errs)[k].entry_price = pos[k].price
                /\ Held(AfterRun(book, errs), k)
           /\ k \notin Approved(book, errs) =>
                AfterRun(book, errs)[k] =
                    IF k \in BookedExits(book, errs) THEN NoEntry ELSE book[k]
<1> DEFINE A == Approved(book, errs)
           free == FreeCash(book, errs)
           n == Cardinality(A)
<1>1. k \notin A => AfterRun(book, errs)[k] =
                        IF k \in BookedExits(book, errs) THEN NoEntry ELSE book[k]
  BY DEF AfterRun, AfterExits
<1>2. ASSUME k \in A
      PROVE  /\ k \notin errs /\ pos[k] # None /\ pos[k].age = 0
             /\ AfterRun(book, errs)[k].trade = pos[k].trade
             /\ AfterRun(book, errs)[k].entry_price = pos[k].price
             /\ Held(AfterRun(book, errs), k)
  <2>1. k \notin errs /\ pos[k] # None /\ pos[k].age = 0
    BY <1>2, ApprovedFacts DEF RawEntries
  <2>2. AfterRun(book, errs)[k] =
            [qty |-> Qty(free, n, pos[k].price),
             entry_price |-> pos[k].price, trade |-> pos[k].trade]
    BY <1>2 DEF AfterRun
  <2>3. Qty(free, n, pos[k].price) \in Nat \ {0}
    <3>1. free \in Nat /\ n \in Nat \ {0}
      BY <1>2, ApprovedFacts, LockedType
    <3>2. pos[k].price \in Nat \ {0}
      BY <2>1, PositionFacts
    <3> HIDE DEF free, n, A
    <3> QED  BY <3>1, <3>2, QtyPositive
  <2> HIDE DEF free, n, A
  <2>4. /\ AfterRun(book, errs)[k].trade = pos[k].trade
        /\ AfterRun(book, errs)[k].entry_price = pos[k].price
        /\ AfterRun(book, errs)[k].qty \in Nat \ {0}
    BY <2>2, <2>3
  <2> QED  BY <2>1, <2>4 DEF Held
<1> QED  BY <1>1, <1>2

-----------------------------------------------------------------------------
(* Type correctness of the replays.                                        *)

LEMMA EntryType ==
    ASSUME ReplayTypeOK, NEW k \in Keys, CanEnter(k), NEW p \in EntryPrices
    PROVE  Entry(k, p) \in Position /\ trades[k] + 1 \in 0..MaxTrades
<1>1. trades[k] \in 0..MaxTrades /\ trades[k] < MaxTrades /\ MaxTrades \in Nat
  BY BoundAssumption DEF ReplayTypeOK, CanEnter
<1>2. trades[k] + 1 \in 0..MaxTrades
  BY <1>1
<1>3. 0 \in 0..MaxHold
  BY BoundAssumption
<1> QED  BY <1>2, <1>3 DEF Entry, Position

LEMMA ExitType ==
    ASSUME NEW p \in Position, NEW price \in ExitPrices
    PROVE  Exit(p, price) \in Closed \cup {None}
<1>1. CASE p.trade = 0
  BY <1>1 DEF Exit
<1>2. CASE p.trade # 0
  <2>1. p.trade \in 1..MaxTrades /\ 0 \in 0..1
    BY <1>2, BoundAssumption DEF Position
  <2> QED  BY <1>2, <2>1 DEF Exit, Closed
<1> QED  BY <1>1, <1>2

LEMMA StillClosingType ==
    ASSUME ReplayTypeOK, NEW k \in Keys, NEW price \in ExitPrices
    PROVE  StillClosing(k, price) \in Closed \cup {None}
<1>1. closing[k] # None => closing[k] \in Closed
  BY DEF ReplayTypeOK
<1>2. ASSUME NEW c \in Closed
      PROVE  [c EXCEPT !.price = price, !.age = 1] \in Closed
  <2> DEFINE d == [c EXCEPT !.price = price]
  <2>1. d \in Closed
    BY DEF Closed
  <2>2. 1 \in 0..1
    OBVIOUS
  <2>3. [c EXCEPT !.price = price, !.age = 1] = [d EXCEPT !.age = 1]
    OBVIOUS
  <2> HIDE DEF d
  <2>4. [d EXCEPT !.age = 1] \in Closed
    BY <2>1, <2>2 DEF Closed
  <2> QED  BY <2>3, <2>4
<1> QED  BY <1>1, <1>2 DEF StillClosing

LEMMA HoldBarType ==
    ASSUME ReplayTypeOK, NEW k \in Keys, NEW left \in Closed \cup {None},
           HoldBar(k, left)
    PROVE  ReplayTypeOK'
<1>1. pos[k] # None => Aged(pos[k]) \in Position
  <2> SUFFICES ASSUME pos[k] # None PROVE Aged(pos[k]) \in Position
    OBVIOUS
  <2>1. pos[k] \in Position /\ pos[k].age < MaxHold
    BY DEF ReplayTypeOK, HoldBar
  <2>2. pos[k].age + 1 \in 0..MaxHold
    BY <2>1, BoundAssumption DEF Position
  <2> QED  BY <2>1, <2>2 DEF Aged, Position
<1>2. pos' \in [Keys -> Position \cup {None}]
  BY <1>1 DEF ReplayTypeOK, HoldBar
<1> QED  BY <1>2 DEF ReplayTypeOK, HoldBar

LEMMA EnterBarType ==
    ASSUME ReplayTypeOK, NEW k \in Keys, NEW left \in Closed \cup {None},
           EnterBar(k, left)
    PROVE  ReplayTypeOK'
<1>1. PICK p \in EntryPrices : pos' = [pos EXCEPT ![k] = Entry(k, p)]
  BY DEF EnterBar
<1>2. Entry(k, p) \in Position /\ trades[k] + 1 \in 0..MaxTrades
  BY EntryType DEF EnterBar
<1> QED  BY <1>1, <1>2 DEF ReplayTypeOK, EnterBar

LEMMA ExitBarType ==
    ASSUME ReplayTypeOK, NEW k \in Keys, ExitBar(k) \/ SwitchBar(k)
    PROVE  ReplayTypeOK'
<1>1. pos[k] \in Position
  BY DEF ReplayTypeOK, ExitBar, SwitchBar
<1>2. PICK p \in ExitPrices : closing' = [closing EXCEPT ![k] = Exit(pos[k], p)]
  BY DEF ExitBar, SwitchBar
<1>3. Exit(pos[k], p) \in Closed \cup {None}
  BY <1>1, ExitType
<1>4. closing' \in [Keys -> Closed \cup {None}]
  BY <1>2, <1>3 DEF ReplayTypeOK
<1>5. CASE ExitBar(k)
  BY <1>4, <1>5 DEF ReplayTypeOK, ExitBar
<1>6. CASE SwitchBar(k)
  <2>1. PICK q \in EntryPrices : pos' = [pos EXCEPT ![k] = Entry(k, q)]
    BY <1>6 DEF SwitchBar
  <2>2. Entry(k, q) \in Position /\ trades[k] + 1 \in 0..MaxTrades
    BY <1>6, EntryType DEF SwitchBar
  <2> QED  BY <1>4, <1>6, <2>1, <2>2 DEF ReplayTypeOK, SwitchBar
<1> QED  BY <1>5, <1>6

LEMMA NewBarType ==
    ASSUME ReplayTypeOK, NEW k \in Keys, NewBar(k)
    PROVE  ReplayTypeOK'
<1> None \in Closed \cup {None}
  OBVIOUS
<1>1. CASE SwanBar(k)
  BY <1>1, HoldBarType, EnterBarType, ExitBarType DEF SwanBar
<1>2. CASE SqueezeBar(k)
  BY <1>2, HoldBarType, EnterBarType, ExitBarType DEF SqueezeBar
<1>3. CASE PullbackBar(k)
  BY <1>3, HoldBarType, EnterBarType, ExitBarType, StillClosingType DEF PullbackBar
<1>4. CASE SupertrendBar(k)
  BY <1>4, HoldBarType, EnterBarType, ExitBarType, StillClosingType DEF SupertrendBar
<1> QED  BY <1>1, <1>2, <1>3, <1>4 DEF NewBar

-----------------------------------------------------------------------------
(* Type correctness of the system.                                         *)

LEMMA PairsType ==
    ASSUME NEW keys \in SUBSET Keys, NEW book \in Books
    PROVE  Pairs(keys, book) \in SUBSET Trade
BY DEF Pairs, Trade, Books, Entries

LEMMA IdleType == Idle \in JobStates /\ EmptyBook \in Books
BY NoEntryType DEF Idle, JobStates, EmptyBook, Books

LEMMA FetchOutcomesType == FetchOutcomes \in SUBSET SUBSET Keys
BY DEF FetchOutcomes

LEMMA ExitPnLType ==
    ASSUME ReplayTypeOK, NEW book \in Books, NEW errs
    PROVE  ExitPnL(book, errs) \in Int
<1> DEFINE f == [k \in Keys |->
        IF k \in BookedExits(book, errs)
        THEN (closing[k].price - book[k].entry_price) * book[k].qty ELSE 0]
<1>1. ASSUME NEW k \in Keys  PROVE f[k] \in Int
  <2>1. book[k].qty \in Nat /\ book[k].entry_price \in Nat
    BY DEF Books, Entries
  <2>2. CASE k \in BookedExits(book, errs)
    <3>1. closing[k] \in Closed
      BY <2>2 DEF BookedExits, ClosedToday, ReplayTypeOK
    <3>2. closing[k].price \in Nat
      BY <3>1, PriceAssumption DEF Closed
    <3> QED  BY <2>1, <2>2, <3>2
  <2> QED  BY <2>2
<1>2. ExitPnL(book, errs) = SumFunctionOnSet(f, Keys)
  BY DEF ExitPnL
<1> HIDE DEF f
<1> QED  BY <1>1, <1>2, KeyAssumption, SumType

(* The part of the invariant about one job. *)
LEMMA RunType ==
    ASSUME TypeOK, NEW errs \in SUBSET Keys
    PROVE  LET next == AfterRun(ledger, errs)
           IN  [pc |-> "ran", book |-> next,
                realized |-> realized + ExitPnL(ledger, errs),
                buys |-> Pairs(Approved(ledger, errs), next),
                sells |-> Pairs(BookedExits(ledger, errs), ledger),
                errs |-> errs, current |-> TRUE] \in JobStates
<1> DEFINE next == AfterRun(ledger, errs)
           profit == realized + ExitPnL(ledger, errs)
           buys == Pairs(Approved(ledger, errs), next)
           sells == Pairs(BookedExits(ledger, errs), ledger)
<1>1. ReplayTypeOK /\ ledger \in Books /\ realized \in Int
  BY DEF TypeOK, Books
<1>2. next \in Books
  BY <1>1, AfterRunType
<1>3. profit \in Int
  BY <1>1, ExitPnLType
<1>4. buys \in SUBSET Trade
  <2>1. Approved(ledger, errs) \in SUBSET Keys
    BY <1>1, ApprovedFacts DEF RawEntries
  <2> HIDE DEF next
  <2> QED  BY <1>2, <2>1, PairsType
<1>5. sells \in SUBSET Trade
  <2>1. BookedExits(ledger, errs) \in SUBSET Keys
    BY DEF BookedExits, HeldKeys
  <2> QED  BY <1>1, <2>1, PairsType
<1> HIDE DEF next, profit, buys, sells
<1>6. [pc |-> "ran", book |-> next, realized |-> profit, buys |-> buys,
       sells |-> sells, errs |-> errs, current |-> TRUE] \in JobStates
  BY <1>2, <1>3, <1>4, <1>5 DEF JobStates, Books
<1> QED  BY <1>6 DEF next, profit, buys, sells

LEMMA PcType ==
    ASSUME NEW s \in JobStates, NEW pc \in {"idle", "ran", "sent"}
    PROVE  /\ [s EXCEPT !.pc = pc] \in JobStates
           /\ [s EXCEPT !.current = FALSE] \in JobStates
BY DEF JobStates

LEMMA InitTypeOK == Init => TypeOK
<1> SUFFICES ASSUME Init PROVE TypeOK
  OBVIOUS
<1>1. ReplayTypeOK
  <2>1. [trade : {0}, price : EntryPrices, age : {1}] \in SUBSET Position
    BY BoundAssumption DEF Position
  <2> QED  BY <2>1, BoundAssumption DEF Init, ReplayInit, ReplayTypeOK
<1>2. 0 \in 0..MaxMissed + 1
  BY FaultAssumption
<1>3. job \in [Jobs -> JobStates] /\ ledger \in [Keys -> Entries]
  BY IdleType DEF Init, Books
<1>4. 0 \in Int /\ {} \in SUBSET Trade
  OBVIOUS
<1> QED  BY <1>1, <1>2, <1>3, <1>4 DEF Init, TypeOK

LEMMA StepTypeOK == TypeOK /\ [Next]_vars => TypeOK'
<1> SUFFICES ASSUME TypeOK, [Next]_vars PROVE TypeOK'
  OBVIOUS
<1>1. ASSUME NEW k \in Keys, Bar(k)  PROVE TypeOK'
  <2>1. ReplayTypeOK'
    BY <1>1, NewBarType DEF Bar, TypeOK
  <2>2. unseen' \in [Keys -> 0..MaxMissed + 1]
    <3>1. unseen[k] + 1 \in 0..MaxMissed + 1
      BY <1>1, FaultAssumption DEF Bar, TypeOK
    <3> QED  BY <1>1, <3>1 DEF Bar, TypeOK
  <2> QED  BY <1>1, <2>1, <2>2 DEF Bar, TypeOK
<1>2. ASSUME NEW k \in Keys, Retract(k)  PROVE TypeOK'
  <2>1. ReplayTypeOK'
    BY <1>2 DEF Retract, RetractEntry, TypeOK, ReplayTypeOK
  <2> QED  BY <1>2, <2>1 DEF Retract, TypeOK
<1>3. ASSUME NEW j \in Jobs, Run(j)  PROVE TypeOK'
  <2>1. job' \in [Jobs -> JobStates]
    <3>1. PICK errs \in FetchOutcomes :
            job' = [job EXCEPT ![j] =
                [pc |-> "ran", book |-> AfterRun(ledger, errs),
                 realized |-> realized + ExitPnL(ledger, errs),
                 buys |-> Pairs(Approved(ledger, errs), AfterRun(ledger, errs)),
                 sells |-> Pairs(BookedExits(ledger, errs), ledger),
                 errs |-> errs, current |-> TRUE]]
      BY <1>3 DEF Run
    <3>2. errs \in SUBSET Keys
      BY FetchOutcomesType
    <3> QED  BY <3>1, <3>2, RunType DEF TypeOK
  <2> QED  BY <1>3, <2>1 DEF Run, TypeOK, replayVars, ReplayTypeOK
<1>4. ASSUME NEW j \in Jobs, Send(j) \/ SendFails(j)  PROVE TypeOK'
  <2>1. job[j] \in JobStates
    BY DEF TypeOK
  <2>2. job' \in [Jobs -> JobStates]
    BY <1>4, <2>1, PcType DEF Send, SendFails, TypeOK
  <2>3. told' \in SUBSET Trade
    BY <1>4, <2>1 DEF Send, SendFails, TypeOK, JobStates
  <2> QED  BY <1>4, <2>2, <2>3 DEF Send, SendFails, TypeOK, replayVars, ReplayTypeOK
<1>5. ASSUME NEW j \in Jobs, Push(j)  PROVE TypeOK'
  <2>1. job[j] \in JobStates
    BY DEF TypeOK
  <2>2. job' \in [Jobs -> JobStates]
    <3>1. \A i \in Jobs : \/ job'[i] = Idle
                          \/ job'[i] = [job[i] EXCEPT !.current = FALSE]
                          \/ job'[i] = job[i]
      BY <1>5 DEF Push
    <3>2. \A i \in Jobs : job'[i] \in JobStates
      BY <3>1, IdleType, PcType DEF TypeOK
    <3>3. job' = [i \in Jobs |-> job'[i]]
      BY <1>5 DEF Push
    <3> QED  BY <3>2, <3>3
  <2>3. ledger' \in [Keys -> Entries] /\ realized' \in Int
    BY <1>5, <2>1 DEF Push, JobStates
  <2>4. unseen' \in [Keys -> 0..MaxMissed + 1]
    <3>1. 0 \in 0..MaxMissed + 1
      BY FaultAssumption
    <3> QED  BY <1>5, <3>1 DEF Push, TypeOK
  <2> QED  BY <1>5, <2>2, <2>3, <2>4 DEF Push, TypeOK, replayVars, ReplayTypeOK
<1>6. ASSUME NEW j \in Jobs, PushFails(j)  PROVE TypeOK'
  BY <1>6, IdleType DEF PushFails, TypeOK, replayVars, ReplayTypeOK
<1>7. CASE UNCHANGED vars
  BY <1>7 DEF vars, TypeOK, replayVars, ReplayTypeOK
<1> QED  BY <1>1, <1>2, <1>3, <1>4, <1>5, <1>6, <1>7 DEF Next

(* Every reachable state is well typed: ages, trade numbers and quantities *)
(* stay within their bounds, and every digest speaks of real trades.       *)
THEOREM TypeCorrect == Spec => []TypeOK
BY InitTypeOK, StepTypeOK, PTL DEF Spec

-----------------------------------------------------------------------------
(* What a run puts into its working copy, and what every step does to the  *)
(* working copies.                                                         *)

LEMMA RunOutcome ==
    ASSUME NEW j \in Jobs, Run(j)
    PROVE  /\ ledger' = ledger /\ pos' = pos /\ closing' = closing
           /\ \E errs \in SUBSET Keys :
                job' = [job EXCEPT ![j] =
                    [pc |-> "ran", book |-> AfterRun(ledger, errs),
                     realized |-> realized + ExitPnL(ledger, errs),
                     buys |-> Pairs(Approved(ledger, errs), AfterRun(ledger, errs)),
                     sells |-> Pairs(BookedExits(ledger, errs), ledger),
                     errs |-> errs, current |-> TRUE]]
BY FetchOutcomesType DEF Run, replayVars

LEMMA EmptyBookIsFree == BookValue(EmptyBook) = 0
<1> DEFINE f == [k \in Keys |-> Cost(EmptyBook[k])]
<1>1. \A k \in Keys : f[k] = 0
  BY NoEntryType DEF EmptyBook
<1>2. BookValue(EmptyBook) = SumFunctionOnSet(f, Keys)
  BY DEF BookValue
<1>3. BookValue(EmptyBook) \in Nat
  BY IdleType, CostType
<1> HIDE DEF f
<1>4. SumFunctionOnSet(f, Keys) <= Cardinality(Keys \cap {}) * 0
  <2>1. ASSUME NEW k \in Keys
        PROVE  f[k] \in Int /\ f[k] <= (IF k \in {} THEN 0 ELSE 0)
    <3>1. f[k] = 0  BY <1>1
    <3>2. 0 \in Int /\ 0 <= 0  OBVIOUS
    <3> QED  BY <3>1, <3>2
  <2> QED  BY <2>1, KeyAssumption, SumSpread
<1>5. Cardinality(Keys \cap {}) = 0
  <2>1. Keys \cap {} = {}  OBVIOUS
  <2> QED  BY <2>1, FS_EmptySet
<1> QED  BY <1>2, <1>3, <1>4, <1>5

LEMMA IdleFacts ==
    /\ Idle.pc = "idle" /\ Idle.book = EmptyBook
    /\ Idle.buys = {} /\ Idle.sells = {} /\ Idle.errs = {}
BY DEF Idle, EmptyBook

(* Sending the digest, or failing to, changes no more than where a job is.  *)
LEMMA SendOutcome ==
    ASSUME TypeOK, NEW j \in Jobs, Send(j) \/ SendFails(j)
    PROVE  /\ ledger' = ledger /\ pos' = pos /\ closing' = closing
           /\ job[j].pc = "ran"
           /\ \A i \in Jobs : /\ job'[i].book = job[i].book
                              /\ job'[i].buys = job[i].buys
                              /\ job'[i].errs = job[i].errs
                              /\ job'[i].current = job[i].current
                              /\ job'[i].pc = "idle" <=> job[i].pc = "idle"
<1>1. ASSUME NEW s \in JobStates
      PROVE  LET t == [s EXCEPT !.pc = "sent"]
             IN  /\ t.book = s.book /\ t.buys = s.buys /\ t.errs = s.errs
                 /\ t.current = s.current /\ t.pc = "sent"
  BY DEF JobStates
<1>2. /\ job'[j] = [job[j] EXCEPT !.pc = "sent"]
      /\ \A i \in Jobs \ {j} : job'[i] = job[i]
  BY DEF Send, SendFails, TypeOK
<1>3. /\ job[j] \in JobStates
      /\ ledger' = ledger /\ pos' = pos /\ closing' = closing
      /\ job[j].pc = "ran"
  BY DEF Send, SendFails, TypeOK, replayVars
<1>4. /\ job'[j].book = job[j].book
      /\ job'[j].buys = job[j].buys
      /\ job'[j].errs = job[j].errs
      /\ job'[j].current = job[j].current
      /\ job'[j].pc = "sent"
  BY <1>1, <1>2, <1>3
<1> QED  BY <1>2, <1>3, <1>4

(* The invariant NoOverAllocation is inductive with the types. *)
LEMMA StepAffordable ==
    ASSUME PricesFit, TypeOK, NoOverAllocation, [Next]_vars
    PROVE  NoOverAllocation'
<1> DEFINE Fits(book) == BookValue(book) <= TotalCapital
<1> USE DEF NoOverAllocation
<1>0. Fits(EmptyBook)
  BY EmptyBookIsFree, CapitalAssumption
<1>1. ASSUME NEW k \in Keys, Bar(k) \/ Retract(k)  PROVE NoOverAllocation'
  BY <1>1 DEF Bar, Retract
<1>2. ASSUME NEW j \in Jobs, Run(j)  PROVE NoOverAllocation'
  <2>1. PICK errs \in SUBSET Keys : /\ job'[j].book = AfterRun(ledger, errs)
                                   /\ \A i \in Jobs \ {j} : job'[i] = job[i]
    BY <1>2, RunOutcome DEF TypeOK
  <2>2. Fits(AfterRun(ledger, errs))
    BY RunIsAffordable DEF TypeOK, Books
  <2>3. ledger' = ledger
    BY <1>2, RunOutcome
  <2> QED  BY <2>1, <2>2, <2>3
<1>3. ASSUME NEW j \in Jobs, Send(j) \/ SendFails(j)  PROVE NoOverAllocation'
  BY <1>3, SendOutcome
<1>4. ASSUME NEW j \in Jobs, Push(j) \/ PushFails(j)  PROVE NoOverAllocation'
  <2>1. \A i \in Jobs : job'[i].book = EmptyBook \/ job'[i].book = job[i].book
    BY <1>4, IdleFacts DEF Push, PushFails, TypeOK, JobStates
  <2>2. ledger' = ledger \/ ledger' = job[j].book
    BY <1>4 DEF Push, PushFails
  <2> QED  BY <1>0, <2>1, <2>2
<1>5. CASE UNCHANGED vars
  BY <1>5 DEF vars
<1> QED  BY <1>1, <1>2, <1>3, <1>4, <1>5 DEF Next

LEMMA InitAffordable == Init => NoOverAllocation
BY EmptyBookIsFree, IdleFacts, CapitalAssumption DEF Init, NoOverAllocation

(* Cash only: as long as no share costs more than the least chunk, nothing *)
(* that fails around the engine, no overlap of jobs and no history of the  *)
(* strategies makes it commit more than the account's capital.             *)
THEOREM CapitalSafety ==
    ASSUME PricesFit
    PROVE  Spec => []NoOverAllocation
<1>1. TypeOK /\ NoOverAllocation /\ [Next]_vars => NoOverAllocation'
  BY StepAffordable
<1> QED  BY <1>1, InitAffordable, TypeCorrect, PTL DEF Spec

-----------------------------------------------------------------------------
(* Runs that could not fetch everything.                                   *)

LEMMA UntrustedRun ==
    ASSUME ReplayTypeOK, NEW book \in Books, NEW errs \in SUBSET Keys, errs # {}
    PROVE  /\ HeldKeys(AfterRun(book, errs)) \subseteq HeldKeys(book)
           /\ \A k \in errs : AfterRun(book, errs)[k] = book[k]
<1>1. Approved(book, errs) = {}
  BY ApprovedFacts
<1>2. AfterRun(book, errs) = [k \in Keys |-> AfterExits(book, errs)[k]]
  BY <1>1 DEF AfterRun
<1>3. \A k \in Keys : \/ AfterRun(book, errs)[k] = NoEntry
                      \/ AfterRun(book, errs)[k] = book[k]
  BY <1>2 DEF AfterExits
<1>4. \A k \in errs : k \notin BookedExits(book, errs)
  BY DEF BookedExits, ClosedToday
<1>5. \A k \in errs : AfterRun(book, errs)[k] = book[k]
  BY <1>2, <1>4 DEF AfterExits
<1>6. ~(NoEntry.qty > 0)
  BY DEF NoEntry
<1>7. \A k \in Keys : AfterRun(book, errs)[k].qty > 0 => book[k].qty > 0
  BY <1>3, <1>6
<1> QED  BY <1>5, <1>7 DEF HeldKeys, Held

(* Two books with the same contents hold the same keys. *)
LEMMA SameContents ==
    ASSUME NEW b, NEW c, Contents(b) = Contents(c)
    PROVE  HeldKeys(b) = HeldKeys(c)
<1>1. ASSUME NEW k \in Keys  PROVE b[k].qty = c[k].qty
  <2>1. Contents(b)[k] = <<b[k].qty, b[k].entry_price>>
        /\ Contents(c)[k] = <<c[k].qty, c[k].entry_price>>
    BY DEF Contents
  <2> QED  BY <2>1
<1> QED  BY <1>1 DEF HeldKeys, Held

LEMMA StepUntrusted ==
    ASSUME TypeOK, UntrustedRunOnlyCloses, [Next]_vars
    PROVE  UntrustedRunOnlyCloses'
<1> DEFINE Cautious(s, book) ==
               s.pc # "idle" /\ s.current /\ s.errs # {}
               => /\ HeldKeys(s.book) \subseteq HeldKeys(book)
                  /\ \A k \in s.errs : Contents(s.book)[k] = Contents(book)[k]
<1>1. UntrustedRunOnlyCloses <=> \A j \in Jobs : Cautious(job[j], ledger)
  BY DEF UntrustedRunOnlyCloses, Working
<1>2. UntrustedRunOnlyCloses' <=> \A j \in Jobs : Cautious(job'[j], ledger')
  BY DEF UntrustedRunOnlyCloses, Working, HeldKeys, Held, Contents
<1>3. \A j \in Jobs : Cautious(job[j], ledger)
  BY <1>1
<1>4. Cautious(Idle, ledger')
  BY IdleFacts
<1>5. ASSUME NEW k \in Keys, Bar(k) \/ Retract(k)
      PROVE  \A j \in Jobs : Cautious(job'[j], ledger')
  <2>1. job' = job /\ ledger' = ledger
    BY <1>5 DEF Bar, Retract
  <2> QED  BY <1>3, <2>1
<1>6. ASSUME NEW j \in Jobs, Run(j)
      PROVE  \A i \in Jobs : Cautious(job'[i], ledger')
  <2>1. PICK errs \in SUBSET Keys :
            /\ job'[j].book = AfterRun(ledger, errs) /\ job'[j].errs = errs
            /\ \A i \in Jobs \ {j} : job'[i] = job[i]
    BY <1>6, RunOutcome DEF TypeOK
  <2>2. ledger' = ledger
    BY <1>6, RunOutcome
  <2>3. errs # {} =>
            /\ HeldKeys(AfterRun(ledger, errs)) \subseteq HeldKeys(ledger)
            /\ \A k \in errs : AfterRun(ledger, errs)[k] = ledger[k]
    BY UntrustedRun DEF TypeOK, Books
  <2>4. Cautious(job'[j], ledger)
    BY <2>1, <2>3 DEF Contents
  <2> QED  BY <1>3, <2>1, <2>2, <2>4
<1>7. ASSUME NEW j \in Jobs, Send(j) \/ SendFails(j)
      PROVE  \A i \in Jobs : Cautious(job'[i], ledger')
  BY <1>3, <1>7, SendOutcome
<1>8. ASSUME NEW j \in Jobs, Push(j)
      PROVE  \A i \in Jobs : Cautious(job'[i], ledger')
  <2> DEFINE changed == \/ Contents(job[j].book) # Contents(ledger)
                        \/ job[j].realized # realized
  <2>1. ledger' = job[j].book
        /\ \A i \in Jobs : job'[i] = IF i = j THEN Idle
                ELSE IF changed /\ job[i].pc # "idle"
                     THEN [job[i] EXCEPT !.current = FALSE]
                     ELSE job[i]
    BY <1>8 DEF Push
  <2>2. ASSUME NEW i \in Jobs, i # j, changed, job[i].pc # "idle"
        PROVE  Cautious(job'[i], ledger')
    <3>1. job[i] \in JobStates
      BY DEF TypeOK
    <3>2. job'[i].current = FALSE
      BY <2>1, <2>2, <3>1 DEF JobStates
    <3> QED  BY <3>2
  <2>3. ASSUME NEW i \in Jobs, i # j, ~changed
        PROVE  Cautious(job'[i], ledger')
    <3>1. Contents(ledger') = Contents(ledger)
      BY <2>1, <2>3
    <3>2. HeldKeys(ledger') = HeldKeys(ledger)
      BY <3>1, SameContents
    <3>3. job'[i] = job[i]
      BY <2>1, <2>3
    <3> QED  BY <1>3, <3>1, <3>2, <3>3
  <2>4. ASSUME NEW i \in Jobs, i # j, changed, job[i].pc = "idle"
        PROVE  Cautious(job'[i], ledger')
    BY <2>1, <2>4
  <2> HIDE DEF Cautious, changed
  <2> QED  BY <1>4, <2>1, <2>2, <2>3, <2>4
<1>9. ASSUME NEW j \in Jobs, PushFails(j)
      PROVE  \A i \in Jobs : Cautious(job'[i], ledger')
  <2>1. ledger' = ledger /\ \A i \in Jobs : job'[i] = Idle \/ job'[i] = job[i]
    BY <1>9 DEF PushFails, TypeOK
  <2> QED  BY <1>3, <1>4, <2>1
<1>10. CASE UNCHANGED vars
  BY <1>2, <1>3, <1>10 DEF vars
<1> QED  BY <1>2, <1>5, <1>6, <1>7, <1>8, <1>9, <1>10 DEF Next

(* The capital safety gate: whatever else is going on, a run that could    *)
(* not fetch everything opens nothing and keeps what it could not see.     *)
THEOREM SafetyGate == Spec => []UntrustedRunOnlyCloses
<1>1. Init => UntrustedRunOnlyCloses
  BY IdleFacts DEF Init, UntrustedRunOnlyCloses, Working
<1>2. TypeOK /\ UntrustedRunOnlyCloses /\ [Next]_vars => UntrustedRunOnlyCloses'
  BY StepUntrusted
<1> QED  BY <1>1, <1>2, TypeCorrect, PTL DEF Spec

-----------------------------------------------------------------------------
(* The tickers a digest tells the reader to buy.                           *)

LEMMA RunBuysApart ==
    ASSUME TypeOK, NEW errs \in SUBSET Keys,
           NEW buys, buys = Pairs(Approved(ledger, errs), AfterRun(ledger, errs))
    PROVE  /\ \A b, c \in buys : Conflict(b[1], c[1]) => b = c
           /\ \A b \in buys, o \in OpenPositions(AfterRun(ledger, errs), errs) :
                ~Conflict(b[1], o)
<1> DEFINE A == Approved(ledger, errs)
           next == AfterRun(ledger, errs)
<1>1. ReplayTypeOK /\ ledger \in Books
  BY DEF TypeOK, Books
<1>2. \A b \in buys : b[1] \in A /\ b = <<b[1], next[b[1]].trade>>
  BY DEF Pairs
<1>3. \A j, k \in A : Conflict(j, k) => j = k
  BY <1>1, ApprovedAreApart
<1>4. \A k \in A, o \in OpenPositions(ledger, errs) : ~Conflict(k, o)
  BY <1>1, ApprovedFacts DEF Conflict
<1>5. OpenPositions(next, errs) \subseteq OpenPositions(ledger, errs)
  BY <1>1, OpenAfterRun
<1> HIDE DEF A, next
<1>6. \A b, c \in buys : Conflict(b[1], c[1]) => b = c
  BY <1>2, <1>3
<1>7. \A b \in buys, o \in OpenPositions(next, errs) : ~Conflict(b[1], o)
  BY <1>2, <1>4, <1>5
<1> QED  BY <1>6, <1>7 DEF next

LEMMA StepOneBuy ==
    ASSUME TypeOK, OneBuyPerTicker, [Next]_vars
    PROVE  OneBuyPerTicker'
<1> DEFINE Open(s, p) ==
               {k \in Keys \ s.errs : /\ p[k] # None
                                      /\ p[k].age > 0
                                      /\ s.book[k].qty > 0 \/ p[k].trade = 0}
           Clear(s, p) == \A b \in s.buys : \A o \in Open(s, p) : ~Conflict(b[1], o)
           Single(s) == \A b \in s.buys : \A c \in s.buys :
                            Conflict(b[1], c[1]) => b = c
           Good(s, p) == Single(s) /\ (s.pc # "idle" => Clear(s, p))
<1>1. OneBuyPerTicker <=> \A j \in Jobs : Good(job[j], pos)
  BY DEF OneBuyPerTicker, Working, OpenPositions, Held
<1>2. OneBuyPerTicker' <=> \A j \in Jobs : Good(job'[j], pos')
  BY DEF OneBuyPerTicker, Working, OpenPositions, Held
<1>3. Good(Idle, pos')
  BY IdleFacts
<1>4. ASSUME NEW s, NEW t, t.pc = "idle" <=> s.pc = "idle", t.book = s.book,
             t.buys = s.buys, t.errs = s.errs, Good(s, pos)
      PROVE  Good(t, pos)
  BY <1>4
<1>5. ASSUME NEW s, s.pc = "idle", Good(s, pos)
      PROVE  Good(s, pos')
  BY <1>5
<1>6. ASSUME NEW errs \in SUBSET Keys, NEW s,
             s.book = AfterRun(ledger, errs), s.errs = errs,
             s.buys = Pairs(Approved(ledger, errs), AfterRun(ledger, errs))
      PROVE  Good(s, pos)
  <2>1. Open(s, pos) = OpenPositions(AfterRun(ledger, errs), errs)
    BY <1>6 DEF OpenPositions, Held
  <2>2. Single(s)
    BY <1>6, RunBuysApart
  <2>3. Clear(s, pos)
    BY <1>6, <2>1, RunBuysApart
  <2> QED  BY <2>2, <2>3
<1> HIDE DEF Good, Single, Clear, Open
<1>7. \A j \in Jobs : Good(job[j], pos)
  BY <1>1
<1>8. ASSUME NEW k \in Keys, Bar(k) \/ Retract(k)
      PROVE  \A j \in Jobs : Good(job'[j], pos')
  BY <1>5, <1>7, <1>8 DEF Bar, Retract, AllIdle
<1>9. ASSUME NEW j \in Jobs, Run(j)
      PROVE  \A i \in Jobs : Good(job'[i], pos')
  <2>1. PICK errs \in SUBSET Keys :
            /\ job'[j].book = AfterRun(ledger, errs) /\ job'[j].errs = errs
            /\ job'[j].buys = Pairs(Approved(ledger, errs), AfterRun(ledger, errs))
            /\ \A i \in Jobs \ {j} : job'[i] = job[i]
    BY <1>9, RunOutcome DEF TypeOK
  <2>2. pos' = pos
    BY <1>9, RunOutcome
  <2>3. Good(job'[j], pos)
    BY <1>6, <2>1
  <2> QED  BY <1>7, <2>1, <2>2, <2>3
<1>10. ASSUME NEW j \in Jobs, Send(j) \/ SendFails(j)
       PROVE  \A i \in Jobs : Good(job'[i], pos')
  <2>1. pos' = pos /\ \A i \in Jobs : /\ job'[i].book = job[i].book
                                      /\ job'[i].buys = job[i].buys
                                      /\ job'[i].errs = job[i].errs
                                      /\ job'[i].pc = "idle" <=> job[i].pc = "idle"
    BY <1>10, SendOutcome
  <2> QED  BY <1>4, <1>7, <2>1
<1>11. ASSUME NEW j \in Jobs, Push(j) \/ PushFails(j)
       PROVE  \A i \in Jobs : Good(job'[i], pos')
  <2>1. pos' = pos
    BY <1>11 DEF Push, PushFails, replayVars
  <2>2. ASSUME NEW i \in Jobs
        PROVE  \/ job'[i] = Idle
               \/ job'[i] = job[i]
               \/ job'[i] = [job[i] EXCEPT !.current = FALSE]
    BY <1>11 DEF Push, PushFails, TypeOK
  <2>3. ASSUME NEW i \in Jobs, job'[i] = [job[i] EXCEPT !.current = FALSE]
        PROVE  Good(job'[i], pos)
    <3>1. job[i] \in JobStates
      BY DEF TypeOK
    <3>2. /\ job'[i].book = job[i].book
          /\ job'[i].buys = job[i].buys
          /\ job'[i].errs = job[i].errs
          /\ job'[i].pc = job[i].pc
      BY <2>3, <3>1 DEF JobStates
    <3> QED  BY <1>4, <1>7, <3>2
  <2> QED  BY <1>3, <1>7, <2>1, <2>2, <2>3
<1>12. ASSUME UNCHANGED vars
       PROVE  \A j \in Jobs : Good(job'[j], pos')
  BY <1>7, <1>12 DEF vars, replayVars
<1>13. \A j \in Jobs : Good(job'[j], pos')
  <2>1. CASE \E k \in Keys : Bar(k) \/ Retract(k)
    BY <1>8, <2>1
  <2>2. CASE \E j \in Jobs : Run(j) \/ Send(j) \/ SendFails(j) \/ Push(j) \/ PushFails(j)
    BY <1>9, <1>10, <1>11, <2>2
  <2> QED  BY <1>12, <2>1, <2>2 DEF Next
<1> QED  BY <1>2, <1>13

(* One digest never announces two buys in a ticker, nor a buy in a ticker  *)
(* of an open position: dedup_entry_signals and the held-ticker filter     *)
(* together, on the positions the pushed ledger will show.                 *)
THEOREM OneBuy == Spec => []OneBuyPerTicker
<1>1. Init => OneBuyPerTicker
  BY IdleFacts DEF Init, OneBuyPerTicker, Working
<1>2. TypeOK /\ OneBuyPerTicker /\ [Next]_vars => OneBuyPerTicker'
  BY StepOneBuy
<1> QED  BY <1>1, <1>2, TypeCorrect, PTL DEF Spec

-----------------------------------------------------------------------------
(* How one bar moves the replay of its key, and what all replays keep.     *)

(* What a bar that is not an exit leaves of the exit reported before it.   *)
Leaves(k, left) ==
    IF /\ StrategyOf[k] \in NextDayExit
       /\ closing[k] # None
       /\ closing[k].age = 0
    THEN left # None /\ left.trade = closing[k].trade /\ left.age = 1
    ELSE left = None

(* The exit of the position of k is reported, unless it is a legacy one.   *)
Reported(k, exit) ==
    IF pos[k].trade = 0 THEN exit = None
    ELSE exit # None /\ exit.trade = pos[k].trade /\ exit.age = 0

Fresh(k, p) == p # None /\ p.trade = trades[k] + 1 /\ p.age = 0

BarHolds(k) ==
    /\ pos[k] = None => pos'[k] = None
    /\ pos[k] # None => /\ pos'[k] # None
                        /\ pos'[k].trade = pos[k].trade
                        /\ pos'[k].age = pos[k].age + 1
    /\ Leaves(k, closing'[k])
    /\ trades'[k] = trades[k]
BarEnters(k) ==
    /\ pos[k] = None
    /\ Fresh(k, pos'[k])
    /\ Leaves(k, closing'[k])
    /\ trades'[k] = trades[k] + 1
BarExits(k) ==
    /\ pos[k] # None
    /\ pos'[k] = None
    /\ Reported(k, closing'[k])
    /\ trades'[k] = trades[k]
BarSwitches(k) ==
    /\ StrategyOf[k] \notin NextDayExit
    /\ pos[k] # None
    /\ Fresh(k, pos'[k])
    /\ Reported(k, closing'[k])
    /\ trades'[k] = trades[k] + 1

LEMMA LeavesStill ==
    ASSUME ReplayTypeOK, NEW k \in Keys, NEW price \in ExitPrices
    PROVE  Leaves(k, StillClosing(k, price))
<1>1. ASSUME NEW c \in Closed
      PROVE  LET d == [c EXCEPT !.price = price, !.age = 1]
             IN  d.trade = c.trade /\ d.age = 1
  BY DEF Closed
<1>2. closing[k] # None => closing[k] \in Closed
  BY DEF ReplayTypeOK
<1>3. StillClosing(k, price) \in Closed \cup {None}
  BY StillClosingType
<1>4. CASE StrategyOf[k] \in NextDayExit /\ closing[k] # None /\ closing[k].age = 0
  <2>1. StillClosing(k, price) = [closing[k] EXCEPT !.price = price, !.age = 1]
    BY <1>4 DEF StillClosing
  <2>2. [closing[k] EXCEPT !.price = price, !.age = 1] \in Closed
    <3>1. closing[k] \in Closed
      BY <1>2, <1>4
    <3> DEFINE d == [closing[k] EXCEPT !.price = price]
    <3>2. d \in Closed /\ 1 \in 0..1
      BY <3>1 DEF Closed
    <3>3. [closing[k] EXCEPT !.price = price, !.age = 1] = [d EXCEPT !.age = 1]
      OBVIOUS
    <3> HIDE DEF d
    <3>4. [d EXCEPT !.age = 1] \in Closed
      BY <3>2 DEF Closed
    <3> QED  BY <3>3, <3>4
  <2>3. None \notin Closed
    BY NoneAssumption
  <2> QED  BY <1>1, <1>2, <1>4, <2>1, <2>2, <2>3 DEF Leaves
<1>5. CASE ~(StrategyOf[k] \in NextDayExit /\ closing[k] # None /\ closing[k].age = 0)
  BY <1>5 DEF Leaves, StillClosing
<1> QED  BY <1>4, <1>5

LEMMA HoldBarMoves ==
    ASSUME ReplayTypeOK, NEW k \in Keys, NEW left \in Closed \cup {None},
           Leaves(k, left), HoldBar(k, left)
    PROVE  BarHolds(k)
<1>1. closing'[k] = left /\ trades'[k] = trades[k]
  BY DEF HoldBar, ReplayTypeOK
<1>2. pos'[k] = IF pos[k] = None THEN None ELSE Aged(pos[k])
  BY DEF HoldBar, ReplayTypeOK
<1>3. ReplayTypeOK'
  BY HoldBarType
<1>4. ASSUME NEW p \in Position
      PROVE  Aged(p).trade = p.trade /\ Aged(p).age = p.age + 1
  BY DEF Aged, Position
<1>5. pos[k] # None => pos[k] \in Position
  BY DEF ReplayTypeOK
<1>6. pos[k] # None => pos'[k] # None
  <2> SUFFICES ASSUME pos[k] # None, pos'[k] = None PROVE FALSE
    OBVIOUS
  <2>1. pos[k] \in Position /\ pos[k].age < MaxHold
    BY DEF ReplayTypeOK, HoldBar
  <2>2. pos[k].age + 1 \in 0..MaxHold
    BY <2>1, BoundAssumption DEF Position
  <2>3. Aged(pos[k]) \in Position
    BY <2>1, <2>2 DEF Aged, Position
  <2> QED  BY <1>2, <2>3, NoneAssumption
<1> QED  BY <1>1, <1>2, <1>4, <1>5, <1>6 DEF BarHolds

LEMMA FreshEntry ==
    ASSUME ReplayTypeOK, NEW k \in Keys, CanEnter(k), NEW p \in EntryPrices
    PROVE  Fresh(k, Entry(k, p))
<1>1. Entry(k, p) \in Position
  BY EntryType
<1>2. Entry(k, p).trade = trades[k] + 1 /\ Entry(k, p).age = 0
  BY DEF Entry
<1> QED  BY <1>1, <1>2, NoneAssumption DEF Fresh

LEMMA EnterBarMoves ==
    ASSUME ReplayTypeOK, NEW k \in Keys, NEW left,
           Leaves(k, left), EnterBar(k, left)
    PROVE  BarEnters(k)
<1>1. closing'[k] = left /\ trades'[k] = trades[k] + 1 /\ pos[k] = None
  BY DEF EnterBar, ReplayTypeOK
<1>2. PICK p \in EntryPrices : pos'[k] = Entry(k, p)
  BY DEF EnterBar, ReplayTypeOK
<1>3. Fresh(k, Entry(k, p))
  BY FreshEntry DEF EnterBar
<1> QED  BY <1>1, <1>2, <1>3 DEF BarEnters

LEMMA ReportedExit ==
    ASSUME ReplayTypeOK, NEW k \in Keys, pos[k] # None, NEW price \in ExitPrices
    PROVE  Reported(k, Exit(pos[k], price))
<1>1. pos[k] \in Position
  BY DEF ReplayTypeOK
<1>2. CASE pos[k].trade = 0
  BY <1>2 DEF Exit, Reported
<1>3. CASE pos[k].trade # 0
  <2> DEFINE e == [trade |-> pos[k].trade, price |-> price, age |-> 0]
  <2>1. Exit(pos[k], price) = e
    BY <1>3 DEF Exit
  <2>2. e \in Closed
    <3>1. pos[k].trade \in 1..MaxTrades /\ 0 \in 0..1
      BY <1>1, <1>3, BoundAssumption DEF Position
    <3> QED  BY <3>1 DEF Closed
  <2>3. e.trade = pos[k].trade /\ e.age = 0
    OBVIOUS
  <2> HIDE DEF e
  <2> QED  BY <1>3, <2>1, <2>2, <2>3, NoneAssumption DEF Reported
<1> QED  BY <1>2, <1>3

LEMMA ExitBarMoves ==
    ASSUME ReplayTypeOK, NEW k \in Keys, ExitBar(k)
    PROVE  BarExits(k)
<1>1. PICK p \in ExitPrices : closing'[k] = Exit(pos[k], p)
  BY DEF ExitBar, ReplayTypeOK
<1>2. pos'[k] = None /\ trades'[k] = trades[k] /\ pos[k] # None
  BY DEF ExitBar, ReplayTypeOK
<1> QED  BY <1>1, <1>2, ReportedExit DEF BarExits

LEMMA SwitchBarMoves ==
    ASSUME ReplayTypeOK, NEW k \in Keys, SwitchBar(k),
           StrategyOf[k] \notin NextDayExit
    PROVE  BarSwitches(k)
<1>1. PICK p \in ExitPrices : closing'[k] = Exit(pos[k], p)
  BY DEF SwitchBar, ReplayTypeOK
<1>2. PICK q \in EntryPrices : pos'[k] = Entry(k, q)
  BY DEF SwitchBar, ReplayTypeOK
<1>3. Fresh(k, Entry(k, q))
  BY FreshEntry DEF SwitchBar
<1>4. trades'[k] = trades[k] + 1 /\ pos[k] # None
  BY DEF SwitchBar, ReplayTypeOK
<1> QED  BY <1>1, <1>2, <1>3, <1>4, ReportedExit DEF BarSwitches

(* One bar of k holds, enters, exits or switches, and moves no other key.  *)
LEMMA BarMoves ==
    ASSUME ReplayTypeOK, NEW k \in Keys, NewBar(k)
    PROVE  /\ BarHolds(k) \/ BarEnters(k) \/ BarExits(k) \/ BarSwitches(k)
           /\ \A i \in Keys \ {k} : /\ pos'[i] = pos[i]
                                    /\ closing'[i] = closing[i]
                                    /\ trades'[i] = trades[i]
<1>1. None \in Closed \cup {None}
      /\ \A p \in ExitPrices : /\ StillClosing(k, p) \in Closed \cup {None}
                               /\ Leaves(k, StillClosing(k, p))
  BY LeavesStill, StillClosingType
<1>2. "Black Swan" \notin NextDayExit /\ "BB Squeeze" \notin NextDayExit
  BY DEF NextDayExit
<1>3. CASE SwanBar(k) \/ SqueezeBar(k)
  <2>1. StrategyOf[k] \notin NextDayExit
    BY <1>2, <1>3 DEF SwanBar, SqueezeBar
  <2>2. Leaves(k, None)
    BY <2>1 DEF Leaves
  <2>3. HoldBar(k, None) \/ EnterBar(k, None) \/ ExitBar(k) \/ SwitchBar(k)
    BY <1>3 DEF SwanBar, SqueezeBar
  <2>4. BarHolds(k) \/ BarEnters(k) \/ BarExits(k) \/ BarSwitches(k)
    BY <1>1, <2>1, <2>2, <2>3, HoldBarMoves, EnterBarMoves, ExitBarMoves, SwitchBarMoves
  <2> QED  BY <2>3, <2>4 DEF HoldBar, EnterBar, ExitBar, SwitchBar, ReplayTypeOK
<1>4. CASE PullbackBar(k) \/ SupertrendBar(k)
  <2>1. \/ \E p \in ExitPrices : HoldBar(k, StillClosing(k, p))
        \/ \E p \in ExitPrices : EnterBar(k, StillClosing(k, p))
        \/ ExitBar(k)
    BY <1>4 DEF PullbackBar, SupertrendBar
  <2>2. BarHolds(k) \/ BarEnters(k) \/ BarExits(k) \/ BarSwitches(k)
    BY <1>1, <2>1, HoldBarMoves, EnterBarMoves, ExitBarMoves
  <2> QED  BY <2>1, <2>2 DEF HoldBar, EnterBar, ExitBar, ReplayTypeOK
<1> QED  BY <1>3, <1>4 DEF NewBar

(* A position knows how many trades its key has opened, and an exit that   *)
(* is still reported belongs to an older trade than the position.  A fill  *)
(* of the next day is reported a second time, never next to a position     *)
(* that is not younger than it.                                            *)
TradesInOrder ==
    \A k \in Keys :
        /\ pos[k] # None => /\ pos[k].trade <= trades[k]
                            /\ pos[k].age = 0 => pos[k].trade >= 1
        /\ closing[k] # None =>
            /\ closing[k].trade <= trades[k]
            /\ pos[k] # None => closing[k].trade < pos[k].trade
            /\ StrategyOf[k] \in NextDayExit /\ closing[k].age = 0 => pos[k] = None

(* The replays alone keep this order: a bar, a retraction or nothing.      *)
LEMMA BarKeepsOrder ==
    ASSUME ReplayTypeOK, TradesInOrder, NEW k \in Keys, NewBar(k)
    PROVE  TradesInOrder'
<1> DEFINE Good(i, p, c, t) ==
        /\ p # None => p.trade <= t /\ (p.age = 0 => p.trade >= 1)
        /\ c # None => /\ c.trade <= t
                       /\ p # None => c.trade < p.trade
                       /\ StrategyOf[i] \in NextDayExit /\ c.age = 0 => p = None
<1>1. \A i \in Keys : Good(i, pos[i], closing[i], trades[i])
  BY DEF TradesInOrder
<1>2. SUFFICES \A i \in Keys : Good(i, pos'[i], closing'[i], trades'[i])
  BY DEF TradesInOrder
<1>3. \A i \in Keys \ {k} : Good(i, pos'[i], closing'[i], trades'[i])
  BY <1>1, BarMoves
<1>4. Good(k, pos'[k], closing'[k], trades'[k])
  <2>1. Good(k, pos[k], closing[k], trades[k]) /\ trades[k] \in Nat
    BY <1>1, BoundAssumption DEF ReplayTypeOK
  <2>2. pos[k] # None => pos[k].trade \in Nat /\ pos[k].age \in Nat
    BY BoundAssumption DEF ReplayTypeOK, Position
  <2>3. closing[k] # None => closing[k].trade \in Nat
    BY BoundAssumption DEF ReplayTypeOK, Closed
  <2>4. CASE BarHolds(k)
    BY <2>1, <2>2, <2>3, <2>4 DEF BarHolds, Leaves
  <2>5. CASE BarEnters(k)
    BY <2>1, <2>3, <2>5 DEF BarEnters, Leaves, Fresh
  <2>6. CASE BarExits(k)
    BY <2>1, <2>2, <2>6 DEF BarExits, Reported
  <2>7. CASE BarSwitches(k)
    BY <2>1, <2>2, <2>7 DEF BarSwitches, Reported, Fresh
  <2> QED  BY <2>4, <2>5, <2>6, <2>7, BarMoves
<1> QED  BY <1>3, <1>4

-----------------------------------------------------------------------------
(* The schedule under which the ledger can be relied on.                   *)

Alone == \A i, j \in Jobs : i = j

(* The engine runs only when every key has a new, complete bar; a run that *)
(* could not fetch everything does not overlap another; and no key is a    *)
(* day late unless its exits are reported on two days.  A push or a digest *)
(* may still fail.                                                         *)
Scheduled ==
    /\ Faults \cap {"rerun", "partial"} = {}
    /\ "fetch" \in Faults => Alone
    /\ \/ MaxMissed = 0
       \/ MaxMissed = 1 /\ \A k \in Keys : StrategyOf[k] \in NextDayExit

(* Entry e of k, u bars old, is for the position of k, which no exit and   *)
(* no younger entry has replaced if there is a bar the ledger has not      *)
(* seen, or for the exit of k, which the ledger has not seen yet.          *)
Follows(k, e, u) ==
    \/ /\ pos[k] # None
       /\ pos[k].trade = e.trade
       /\ u > 0 => closing[k] = None /\ pos[k].age > 0
    \/ /\ closing[k] # None
       /\ closing[k].trade = e.trade
       /\ closing[k].age < u

(* What a book that has missed u[k] bars of every key k must look like.    *)
Sound(book, u) ==
    /\ \A k \in Keys : book[k] # NoEntry => /\ Held(book, k)
                                            /\ book[k].trade >= 1
                                            /\ Follows(k, book[k], u[k])
    /\ \A i, k \in Keys : Held(book, i) /\ Held(book, k) /\ Conflict(i, k) => i = k

(* The bars a book has missed once a run without the keys in errs is pushed. *)
Seen(u, errs) == [k \in Keys |-> IF k \in errs THEN u[k] ELSE 0]

SoundJob(s) ==
    s.pc # "idle" =>
        /\ s.errs \in FetchOutcomes
        /\ Sound(s.book, Seen(unseen, s.errs))
        /\ \A x \in s.sells : closing[x[1]] # None /\ closing[x[1]].trade = x[2]

(* The inductive invariant: the ledger, and every copy of it that may      *)
(* still be pushed, follow what the strategies report.                     *)
SoundBooks ==
    /\ TradesInOrder
    /\ Sound(ledger, unseen)
    /\ \A j \in Jobs : SoundJob(job[j])

LEMMA NoEntryIsFree ==
    ASSUME NEW book, NEW k, book[k] = NoEntry
    PROVE  ~Held(book, k)
BY DEF NoEntry, Held

(* A run turns a sound book, with a new bar of every key, into a sound one. *)
LEMMA RunIsSound ==
    ASSUME ReplayTypeOK, TradesInOrder, NEW book \in Books, NEW u,
           \A k \in Keys : u[k] \in Nat /\ u[k] > 0,
           Sound(book, u), NEW errs \in SUBSET Keys
    PROVE  /\ Sound(AfterRun(book, errs), Seen(u, errs))
           /\ \A k \in BookedExits(book, errs) :
                closing[k] # None /\ closing[k].trade = book[k].trade
           /\ \A k \in Approved(book, errs) :
                Held(book, k) => k \in BookedExits(book, errs)
<1> DEFINE A == Approved(book, errs)
           next == AfterRun(book, errs)
           old == {k \in Keys : next[k] # NoEntry /\ k \notin A}
<1>1. ASSUME NEW k \in A
      PROVE  /\ k \in Keys \ errs /\ pos[k] # None /\ pos[k].age = 0
             /\ Held(next, k) /\ next[k].trade = pos[k].trade /\ errs = {}
  <2>1. k \in Keys
    BY ApprovedFacts DEF RawEntries
  <2> QED  BY <2>1, AfterRunAt, ApprovedFacts
<1>2. ASSUME NEW k \in Keys, Held(book, k)
      PROVE  /\ book[k] # NoEntry /\ book[k].trade >= 1
             /\ \/ /\ pos[k] # None /\ pos[k].trade = book[k].trade
                   /\ closing[k] = None /\ pos[k].age > 0
                \/ closing[k] # None /\ closing[k].trade = book[k].trade
  <2>1. book[k] # NoEntry
    BY <1>2, NoEntryIsFree
  <2>2. book[k].trade >= 1 /\ Follows(k, book[k], u[k])
    BY <2>1 DEF Sound
  <2> QED  BY <2>1, <2>2 DEF Follows
<1>3. ASSUME NEW k \in old
      PROVE  /\ k \in Keys /\ next[k] = book[k] /\ Held(book, k)
             /\ k \notin BookedExits(book, errs)
  <2>1. k \notin BookedExits(book, errs) /\ next[k] = book[k]
    BY AfterRunAt
  <2>2. book[k] # NoEntry
    BY <2>1
  <2> QED  BY <2>1, <2>2 DEF Sound
<1>4. ASSUME NEW k \in old, k \notin errs
      PROVE  /\ closing[k] = None /\ pos[k] # None
             /\ pos[k].trade = book[k].trade /\ pos[k].age > 0
  <2>1. k \notin ClosedToday(errs)
    BY <1>3 DEF BookedExits, HeldKeys
  <2>2. closing[k] = None
    BY <1>3, <1>4, <2>1 DEF ClosedToday
  <2> QED  BY <1>2, <1>3, <2>2
<1>5. ASSUME NEW k \in Keys, next[k] # NoEntry
      PROVE  /\ Held(next, k) /\ next[k].trade >= 1
             /\ Follows(k, next[k], Seen(u, errs)[k])
  <2>1. CASE k \in A
    <3>1. Seen(u, errs)[k] = 0
      BY <1>1, <2>1 DEF Seen
    <3>2. pos[k].trade >= 1
      BY <1>1, <2>1 DEF TradesInOrder
    <3> HIDE DEF A, next
    <3> QED  BY <1>1, <2>1, <3>1, <3>2 DEF Follows
  <2>2. CASE k \notin A
    <3>1. k \in old
      BY <1>5, <2>2
    <3>2. Held(next, k) /\ next[k].trade >= 1
      BY <1>2, <1>3, <3>1 DEF Held
    <3>3. CASE k \in errs
      <4>1. Seen(u, errs)[k] = u[k]
        BY <3>3 DEF Seen
      <4>2. Follows(k, book[k], u[k])
        BY <1>2, <1>3, <3>1 DEF Sound
      <4> QED  BY <1>3, <3>1, <3>2, <4>1, <4>2
    <3>4. CASE k \notin errs
      <4>1. Seen(u, errs)[k] = 0
        BY <3>4 DEF Seen
      <4>2. /\ pos[k] # None /\ pos[k].trade = next[k].trade
        BY <1>3, <1>4, <3>1, <3>4
      <4> HIDE DEF A, next, old
      <4> QED  BY <3>2, <4>1, <4>2 DEF Follows
    <3> QED  BY <3>3, <3>4
  <2> QED  BY <2>1, <2>2
<1>6. ASSUME NEW i \in Keys, NEW k \in Keys,
             Held(next, i), Held(next, k), Conflict(i, k)
      PROVE  i = k
  <2>0. i \in A \cup old /\ k \in A \cup old /\ Conflict(k, i)
    <3>1. next[i] # NoEntry /\ next[k] # NoEntry
      BY <1>6, NoEntryIsFree
    <3> QED  BY <1>6, <3>1 DEF Conflict
  <2>1. CASE i \in A /\ k \in A
    BY <1>6, <2>1, ApprovedAreApart
  <2>2. ASSUME NEW a \in A, NEW b \in old, Conflict(b, a)
        PROVE  FALSE
    <3>1. errs = {} /\ b \in Keys
      BY <1>1, <1>3
    <3>2. pos[b] # None /\ pos[b].age > 0 /\ Held(book, b)
      BY <1>3, <1>4, <3>1
    <3>3. b \in OpenPositions(book, errs)
      BY <3>1, <3>2 DEF OpenPositions
    <3> QED  BY <2>2, <3>3, ApprovedFacts
  <2>3. CASE i \in old /\ k \in old
    BY <1>3, <1>6, <2>3 DEF Sound
  <2> QED  BY <1>6, <2>0, <2>1, <2>2, <2>3
<1>7. ASSUME NEW k \in BookedExits(book, errs)
      PROVE  closing[k] # None /\ closing[k].trade = book[k].trade
  <2>1. k \in Keys /\ Held(book, k) /\ closing[k] # None
    BY DEF BookedExits, ClosedToday, HeldKeys
  <2> QED  BY <1>2, <2>1
<1>8. ASSUME NEW k \in A, Held(book, k)
      PROVE  k \in BookedExits(book, errs)
  <2>1. k \in Keys \ errs /\ pos[k] # None /\ pos[k].age = 0
    BY <1>1
  <2>2. closing[k] # None
    BY <1>2, <1>8, <2>1
  <2> QED  BY <1>8, <2>1, <2>2 DEF BookedExits, ClosedToday, HeldKeys
<1>9. Sound(next, Seen(u, errs))
  <2> HIDE DEF next
  <2> QED  BY <1>5, <1>6 DEF Sound
<1> QED  BY <1>7, <1>8, <1>9

(* A bar of k leaves its ledger entry with its position or its exit.       *)
LEMMA FollowsBar ==
    ASSUME Scheduled, TypeOK, TradesInOrder, NEW k \in Keys, Bar(k),
           NEW e \in Entries, e.trade >= 1, Follows(k, e, unseen[k])
    PROVE  \/ /\ pos'[k] # None /\ pos'[k].trade = e.trade
              /\ closing'[k] = None /\ pos'[k].age > 0
           \/ /\ closing'[k] # None /\ closing'[k].trade = e.trade
              /\ closing'[k].age < unseen[k] + 1
<1>1. ReplayTypeOK /\ NewBar(k) /\ unseen[k] \in Nat /\ unseen[k] <= MaxMissed
  BY FaultAssumption DEF TypeOK, Bar
<1>2. BarHolds(k) \/ BarEnters(k) \/ BarExits(k) \/ BarSwitches(k)
  BY <1>1, BarMoves
<1>3. /\ pos[k] # None => pos[k].age \in Nat
      /\ closing[k] # None => closing[k].age \in {0, 1}
  BY <1>1, BoundAssumption DEF ReplayTypeOK, Position, Closed
<1>4. closing[k] # None /\ StrategyOf[k] \in NextDayExit /\ closing[k].age = 0
        => pos[k] = None
  BY DEF TradesInOrder
<1>5. CASE pos[k] # None /\ pos[k].trade = e.trade
  <2>1. CASE BarHolds(k)
    BY <1>3, <1>4, <1>5, <2>1 DEF BarHolds, Leaves
  <2>2. CASE BarExits(k) \/ BarSwitches(k)
    BY <1>1, <1>5, <2>2 DEF BarExits, BarSwitches, Reported
  <2>3. ~BarEnters(k)
    BY <1>5 DEF BarEnters
  <2> QED  BY <1>2, <2>1, <2>2, <2>3
<1>6. CASE /\ closing[k] # None /\ closing[k].trade = e.trade
           /\ closing[k].age < unseen[k]
  <2>1. unseen[k] = 1 /\ StrategyOf[k] \in NextDayExit /\ closing[k].age = 0
    BY <1>1, <1>3, <1>6 DEF Scheduled
  <2>2. pos[k] = None
    BY <1>4, <1>6, <2>1
  <2>3. BarHolds(k) \/ BarEnters(k)
    BY <1>2, <2>2 DEF BarExits, BarSwitches
  <2>4. closing'[k] # None /\ closing'[k].trade = e.trade /\ closing'[k].age = 1
    BY <1>6, <2>1, <2>3 DEF BarHolds, BarEnters, Leaves
  <2> QED  BY <2>1, <2>4
<1> QED  BY <1>5, <1>6 DEF Follows

LEMMA InitSound == Init => SoundBooks
<1> SUFFICES ASSUME Init PROVE SoundBooks
  OBVIOUS
<1>1. TradesInOrder
  <2>1. /\ \A k \in Keys : pos[k] # None => pos[k].trade = 0 /\ pos[k].age = 1
        /\ \A k \in Keys : closing[k] = None /\ trades[k] = 0
    BY DEF Init, ReplayInit
  <2>2. \A k \in Keys : pos[k] # None =>
            pos[k].trade <= trades[k] /\ pos[k].age # 0
    <3>1. 0 <= 0 /\ 1 # 0
      OBVIOUS
    <3> QED  BY <2>1, <3>1
  <2> QED  BY <2>1, <2>2 DEF TradesInOrder
<1>2. \A k \in Keys : ledger[k] = NoEntry
  BY DEF Init, EmptyBook
<1>3. \A k \in Keys : ~Held(ledger, k)
  BY <1>2, NoEntryIsFree
<1>4. Sound(ledger, unseen)
  BY <1>2, <1>3 DEF Sound
<1>5. \A j \in Jobs : job[j].pc = "idle"
  BY IdleFacts DEF Init
<1> QED  BY <1>1, <1>4, <1>5 DEF SoundBooks, SoundJob

LEMMA StepSound ==
    ASSUME Scheduled, TypeOK, SoundBooks, [Next]_vars
    PROVE  SoundBooks'
<1> DEFINE Snd(p, c, book, u) ==
        /\ \A k \in Keys : book[k] # NoEntry =>
              /\ book[k].qty > 0
              /\ book[k].trade >= 1
              /\ \/ /\ p[k] # None
                    /\ p[k].trade = book[k].trade
                    /\ u[k] > 0 => c[k] = None /\ p[k].age > 0
                 \/ /\ c[k] # None
                    /\ c[k].trade = book[k].trade
                    /\ c[k].age < u[k]
        /\ \A i, k \in Keys : book[i].qty > 0 /\ book[k].qty > 0 /\ Conflict(i, k)
                              => i = k
    Job(s, p, c, u) ==
        s.pc # "idle" =>
            /\ s.errs \in FetchOutcomes
            /\ Snd(p, c, s.book, Seen(u, s.errs))
            /\ \A x \in s.sells : c[x[1]] # None /\ c[x[1]].trade = x[2]
<1>1. /\ TradesInOrder /\ Snd(pos, closing, ledger, unseen)
      /\ \A j \in Jobs : Job(job[j], pos, closing, unseen)
  BY DEF SoundBooks, SoundJob, Sound, Follows, Held
<1>2. SUFFICES /\ TradesInOrder' /\ Snd(pos', closing', ledger', unseen')
               /\ \A j \in Jobs : Job(job'[j], pos', closing', unseen')
  BY DEF SoundBooks, SoundJob, Sound, Follows, Held
<1>3. ASSUME NEW book, NEW u  PROVE Sound(book, u) <=> Snd(pos, closing, book, u)
  BY DEF Sound, Follows, Held
<1>4. Job(Idle, pos', closing', unseen')
  BY IdleFacts
<1>5. ASSUME NEW k \in Keys, Bar(k)
      PROVE  /\ TradesInOrder' /\ Snd(pos', closing', ledger', unseen')
             /\ \A j \in Jobs : Job(job'[j], pos', closing', unseen')
  <2>1. ReplayTypeOK /\ NewBar(k) /\ ledger' = ledger /\ job' = job /\ AllIdle
        /\ unseen'[k] = unseen[k] + 1 /\ \A i \in Keys \ {k} : unseen'[i] = unseen[i]
    BY <1>5 DEF Bar, TypeOK
  <2>2. TradesInOrder'
    BY <1>1, <2>1, BarKeepsOrder
  <2>3. ledger[k] # NoEntry =>
            \/ /\ pos'[k] # None /\ pos'[k].trade = ledger[k].trade
               /\ closing'[k] = None /\ pos'[k].age > 0
            \/ /\ closing'[k] # None /\ closing'[k].trade = ledger[k].trade
               /\ closing'[k].age < unseen'[k]
    <3> SUFFICES ASSUME ledger[k] # NoEntry
                 PROVE \/ /\ pos'[k] # None /\ pos'[k].trade = ledger[k].trade
                          /\ closing'[k] = None /\ pos'[k].age > 0
                       \/ /\ closing'[k] # None /\ closing'[k].trade = ledger[k].trade
                          /\ closing'[k].age < unseen'[k]
      OBVIOUS
    <3>1. ledger[k] \in Entries
      BY DEF TypeOK
    <3>2. ledger[k].trade >= 1 /\ Follows(k, ledger[k], unseen[k])
      BY DEF SoundBooks, Sound
    <3> QED  BY <1>1, <1>5, <2>1, <3>1, <3>2, FollowsBar
  <2>4. \A i \in Keys \ {k} : pos'[i] = pos[i] /\ closing'[i] = closing[i]
    BY <2>1, BarMoves
  <2>5. Snd(pos', closing', ledger', unseen')
    BY <1>1, <2>1, <2>3, <2>4
  <2>6. \A j \in Jobs : Job(job'[j], pos', closing', unseen')
    BY <2>1 DEF AllIdle
  <2> QED  BY <2>2, <2>5, <2>6
<1>6. ASSUME NEW k \in Keys, Retract(k)  PROVE FALSE
  BY <1>6 DEF Retract, Scheduled
<1>7. ASSUME NEW j \in Jobs,
             Run(j) \/ Send(j) \/ SendFails(j) \/ Push(j) \/ PushFails(j)
      PROVE  pos' = pos /\ closing' = closing /\ TradesInOrder'
  <2>1. pos' = pos /\ closing' = closing /\ trades' = trades
    BY <1>7 DEF Run, Send, SendFails, Push, PushFails, replayVars
  <2> QED  BY <1>1, <2>1 DEF TradesInOrder
<1>8. ASSUME NEW j \in Jobs, Run(j)
      PROVE  /\ Snd(pos, closing, ledger', unseen')
             /\ \A i \in Jobs : Job(job'[i], pos, closing, unseen')
  <2>1. PICK errs \in FetchOutcomes :
            job' = [job EXCEPT ![j] =
                [pc |-> "ran", book |-> AfterRun(ledger, errs),
                 realized |-> realized + ExitPnL(ledger, errs),
                 buys |-> Pairs(Approved(ledger, errs), AfterRun(ledger, errs)),
                 sells |-> Pairs(BookedExits(ledger, errs), ledger),
                 errs |-> errs, current |-> TRUE]]
    BY <1>8 DEF Run
  <2>2. /\ job'[j].book = AfterRun(ledger, errs) /\ job'[j].errs = errs
        /\ job'[j].sells = Pairs(BookedExits(ledger, errs), ledger)
        /\ \A i \in Jobs \ {j} : job'[i] = job[i]
    BY <2>1 DEF TypeOK
  <2>3. ledger' = ledger /\ unseen' = unseen
    BY <1>8 DEF Run
  <2>4. \A k \in Keys : unseen[k] \in Nat /\ unseen[k] > 0
    BY <1>8, FaultAssumption DEF Run, Due, Scheduled, TypeOK
  <2>5. errs \in SUBSET Keys /\ ReplayTypeOK /\ ledger \in Books
    BY FetchOutcomesType DEF TypeOK, Books
  <2>6. /\ Sound(AfterRun(ledger, errs), Seen(unseen, errs))
        /\ \A k \in BookedExits(ledger, errs) :
                closing[k] # None /\ closing[k].trade = ledger[k].trade
    BY <1>1, <2>4, <2>5, RunIsSound DEF SoundBooks
  <2>7. \A x \in Pairs(BookedExits(ledger, errs), ledger) :
            closing[x[1]] # None /\ closing[x[1]].trade = x[2]
    BY <2>6 DEF Pairs
  <2>8. Snd(pos, closing, AfterRun(ledger, errs), Seen(unseen, errs))
    BY <1>3, <2>6
  <2> HIDE DEF Snd
  <2>9. Job(job'[j], pos, closing, unseen)
    BY <2>2, <2>7, <2>8
  <2> HIDE DEF Job
  <2> QED  BY <1>1, <2>2, <2>3, <2>9
<1>9. ASSUME NEW s, NEW t, t.pc = "idle" <=> s.pc = "idle", t.book = s.book,
             t.sells = s.sells, t.errs = s.errs, Job(s, pos, closing, unseen)
      PROVE  Job(t, pos, closing, unseen)
  BY <1>9
<1>10. ASSUME NEW j \in Jobs, Send(j) \/ SendFails(j)
       PROVE  /\ Snd(pos, closing, ledger', unseen')
              /\ \A i \in Jobs : Job(job'[i], pos, closing, unseen')
  <2>1. ledger' = ledger /\ unseen' = unseen
    BY <1>10 DEF Send, SendFails
  <2>2. \A i \in Jobs : /\ job'[i].book = job[i].book
                        /\ job'[i].sells = job[i].sells
                        /\ job'[i].errs = job[i].errs
                        /\ job'[i].pc = "idle" <=> job[i].pc = "idle"
    <3>1. job[j] \in JobStates /\ job[j].pc = "ran"
      BY <1>10 DEF TypeOK, Send, SendFails
    <3>2. /\ job'[j] = [job[j] EXCEPT !.pc = "sent"]
          /\ \A i \in Jobs \ {j} : job'[i] = job[i]
      BY <1>10 DEF Send, SendFails, TypeOK
    <3>3. job'[j].sells = job[j].sells
      BY <3>1, <3>2 DEF JobStates
    <3> QED  BY <1>10, <3>2, <3>3, SendOutcome
  <2> HIDE DEF Snd, Job
  <2> QED  BY <1>1, <1>9, <2>1, <2>2
<1>11. ASSUME NEW j \in Jobs, Push(j)
       PROVE  /\ Snd(pos, closing, ledger', unseen')
              /\ \A i \in Jobs : Job(job'[i], pos, closing, unseen')
  <2>1. /\ job[j].pc # "idle" /\ ledger' = job[j].book
        /\ unseen' = Seen(unseen, job[j].errs)
    BY <1>11 DEF Push, Seen
  <2>2. Job(job[j], pos, closing, unseen)
    BY <1>1
  <2>3. Snd(pos, closing, ledger', unseen')
    BY <2>1, <2>2
  <2>4. ASSUME NEW i \in Jobs
        PROVE  Job(job'[i], pos, closing, unseen')
    <3>1. CASE i = j \/ job[i].pc = "idle"
      <4>1. job'[i] = Idle \/ job'[i] = job[i]
        BY <1>11, <3>1 DEF Push
      <4>2. job'[i].pc = "idle"
        BY <1>11, <3>1, <4>1, IdleFacts DEF Push
      <4> QED  BY <4>2
    <3>2. CASE i # j /\ job[i].pc # "idle"
      <4>1. FetchOutcomes = {{}}
        BY <3>2 DEF FetchOutcomes, Scheduled, Alone
      <4>2. Job(job[i], pos, closing, unseen) /\ job[i].errs = {} /\ job[j].errs = {}
        BY <1>1, <2>1, <3>2, <4>1
      <4>3. Seen(unseen', {}) = Seen(unseen, {})
        BY DEF Seen
      <4>4. Job(job[i], pos, closing, unseen')
        <5> HIDE DEF Snd
        <5> QED  BY <4>2, <4>3
      <4>5. job'[i] = job[i] \/ job'[i] = [job[i] EXCEPT !.current = FALSE]
        BY <1>11, <3>2 DEF Push
      <4>6. job[i] \in JobStates
        BY DEF TypeOK
      <4>7. /\ job'[i].pc = job[i].pc /\ job'[i].book = job[i].book
            /\ job'[i].sells = job[i].sells /\ job'[i].errs = job[i].errs
        BY <4>5, <4>6 DEF JobStates
      <4> HIDE DEF Snd
      <4> QED  BY <4>4, <4>7
    <3> QED  BY <3>1, <3>2
  <2> QED  BY <2>3, <2>4
<1>12. ASSUME NEW j \in Jobs, PushFails(j)
       PROVE  /\ Snd(pos, closing, ledger', unseen')
              /\ \A i \in Jobs : Job(job'[i], pos, closing, unseen')
  <2>1. /\ ledger' = ledger /\ unseen' = unseen
        /\ \A i \in Jobs : job'[i] = Idle \/ job'[i] = job[i]
    BY <1>12 DEF PushFails, TypeOK
  <2>2. Job(Idle, pos, closing, unseen)
    BY IdleFacts
  <2> HIDE DEF Snd, Job
  <2> QED  BY <1>1, <2>1, <2>2
<1>13. CASE UNCHANGED vars
  <2>1. /\ pos' = pos /\ closing' = closing /\ trades' = trades
        /\ ledger' = ledger /\ unseen' = unseen /\ job' = job
    BY <1>13 DEF vars, replayVars
  <2>2. TradesInOrder'
    BY <1>1, <2>1 DEF TradesInOrder
  <2> HIDE DEF Snd, Job
  <2> QED  BY <1>1, <2>1, <2>2
<1> HIDE DEF Snd, Job
<1>14. CASE \E j \in Jobs : Run(j) \/ Send(j) \/ SendFails(j) \/ Push(j) \/ PushFails(j)
  <2>1. PICK j \in Jobs : Run(j) \/ Send(j) \/ SendFails(j) \/ Push(j) \/ PushFails(j)
    BY <1>14
  <2>2. pos' = pos /\ closing' = closing /\ TradesInOrder'
    BY <1>7, <2>1
  <2> QED  BY <1>8, <1>10, <1>11, <1>12, <2>1, <2>2
<1> QED  BY <1>5, <1>6, <1>13, <1>14 DEF Next

(* Under the schedule every reachable ledger, and every copy of it that    *)
(* may still be pushed, follows what the strategies report.                *)
LEMMA BooksAreSound ==
    ASSUME Scheduled
    PROVE  Spec => []SoundBooks
<1>1. TypeOK /\ SoundBooks /\ [Next]_vars => SoundBooks'
  BY StepSound
<1> QED  BY <1>1, InitSound, TypeCorrect, PTL DEF Spec

(* Under the schedule, whatever fails to be pushed or delivered, every     *)
(* ledger entry is for a trade its strategy still reports: no capital is   *)
(* locked for good.                                                        *)
THEOREM FundedAreReported ==
    ASSUME Scheduled
    PROVE  Spec => []FundedTradesReported
<1>1. SoundBooks => FundedTradesReported
  <2> SUFFICES ASSUME SoundBooks, NEW k \in HeldKeys(ledger)
               PROVE \/ pos[k] # None /\ pos[k].trade = ledger[k].trade
                     \/ closing[k] # None /\ closing[k].trade = ledger[k].trade
    BY DEF FundedTradesReported
  <2>1. k \in Keys /\ ledger[k] # NoEntry
    BY NoEntryIsFree DEF HeldKeys
  <2> QED  BY <2>1 DEF SoundBooks, Sound, Follows
<1> QED  BY <1>1, BooksAreSound, PTL

(* Under the schedule no ticker is ever held through two ledger entries,   *)
(* though the runs look only at the positions reported on the day.         *)
THEOREM OneHolder ==
    ASSUME Scheduled
    PROVE  Spec => []OneHolderPerTicker
<1>1. SoundBooks => OneHolderPerTicker
  BY DEF SoundBooks, Sound, OneHolderPerTicker, HeldKeys
<1> QED  BY <1>1, BooksAreSound, PTL

(* Under the schedule a run, current or overtaken, books an exit only      *)
(* against the trade the ledger entry was opened for.                      *)
THEOREM OwnTradeBooked ==
    ASSUME Scheduled
    PROVE  Spec => []ExitBookedAgainstOwnTrade
<1>1. SoundBooks => ExitBookedAgainstOwnTrade
  BY DEF SoundBooks, SoundJob, ExitBookedAgainstOwnTrade, Working
<1> QED  BY <1>1, BooksAreSound, PTL

-----------------------------------------------------------------------------
(* The committed ledger implements the abstract account.                   *)

(* What a run decides depends on the replays and the ledger alone.         *)
LEMMA RunUnmoved ==
    ASSUME pos' = pos, closing' = closing, ledger' = ledger, NEW errs
    PROVE  /\ AfterRun(ledger, errs)' = AfterRun(ledger, errs)
           /\ Approved(ledger, errs)' = Approved(ledger, errs)
           /\ BookedExits(ledger, errs)' = BookedExits(ledger, errs)
<1>1. RawEntries(errs)' = RawEntries(errs)
  BY DEF RawEntries
<1>2. OpenPositions(ledger, errs)' = OpenPositions(ledger, errs)
  BY DEF OpenPositions, Held
<1>3. BookedExits(ledger, errs)' = BookedExits(ledger, errs)
  BY DEF BookedExits, ClosedToday, HeldKeys, Held
<1>4. AfterExits(ledger, errs)' = AfterExits(ledger, errs)
  BY <1>3 DEF AfterExits
<1>5. Orphans(ledger, errs)' = Orphans(ledger, errs)
  BY <1>2, <1>3, <1>4 DEF Orphans, HeldKeys, Held
<1>6. LockedCost(ledger, errs)' = LockedCost(ledger, errs)
  BY <1>2, <1>4, <1>5 DEF LockedCost, Held
<1>7. FreeCash(ledger, errs)' = FreeCash(ledger, errs)
  BY <1>6 DEF FreeCash, TotalLocked
<1>8. Approved(ledger, errs)' = Approved(ledger, errs)
  BY <1>1, <1>2, <1>7 DEF Approved, Candidates
<1>9. AfterRun(ledger, errs)' = AfterRun(ledger, errs)
  BY <1>4, <1>7, <1>8 DEF AfterRun
<1> QED  BY <1>3, <1>8, <1>9

(* A checkout that is still the head of the repository either has a day's  *)
(* new bars to book, or there is nothing left to book: another run of the  *)
(* same day has pushed the very book it saved.                             *)
HeadJob(s) ==
    s.pc # "idle" /\ s.current =>
        \/ Due /\ s.book = AfterRun(ledger, s.errs)
        \/ s.book = ledger /\ \A k \in Keys : unseen[k] = 0

HeadBooks == \A j \in Jobs : HeadJob(job[j])

LEMMA StepHead ==
    ASSUME Scheduled, TypeOK, SoundBooks, HeadBooks, [Next]_vars
    PROVE  HeadBooks'
<1>1. \A j \in Jobs : HeadJob(job[j])
  BY DEF HeadBooks
<1>2. SUFFICES ASSUME NEW i \in Jobs, job'[i].pc # "idle", job'[i].current
               PROVE  \/ Due' /\ job'[i].book = AfterRun(ledger, job[i].errs)'
                      \/ job'[i].book = ledger' /\ \A k \in Keys : unseen'[k] = 0
  BY DEF HeadBooks, HeadJob
<1>3. ASSUME pos' = pos, closing' = closing, ledger' = ledger, unseen' = unseen,
             job[i].pc # "idle", job[i].current, job'[i].book = job[i].book,
             job'[i].errs = job[i].errs
      PROVE  \/ Due' /\ job'[i].book = AfterRun(ledger, job[i].errs)'
             \/ job'[i].book = ledger' /\ \A k \in Keys : unseen'[k] = 0
  <2>1. PICK e : e = job[i].errs
    OBVIOUS
  <2>2. AfterRun(ledger, e)' = AfterRun(ledger, e)
    BY <1>3, RunUnmoved
  <2>3. AfterRun(ledger, job[i].errs)' = AfterRun(ledger, e)
    BY <1>3, <2>1, <2>2
  <2>4. Due' <=> Due
    BY <1>3 DEF Due
  <2>5. \/ Due /\ job[i].book = AfterRun(ledger, e)
        \/ job[i].book = ledger /\ \A k \in Keys : unseen[k] = 0
    BY <1>1, <1>3, <2>1 DEF HeadJob
  <2> QED  BY <1>3, <2>3, <2>4, <2>5
<1>4. ASSUME NEW k \in Keys, Bar(k) \/ Retract(k)  PROVE FALSE
  BY <1>2, <1>4 DEF Bar, Retract, AllIdle
<1>5. ASSUME NEW j \in Jobs, Run(j)
      PROVE  \/ Due' /\ job'[i].book = AfterRun(ledger, job[i].errs)'
             \/ job'[i].book = ledger' /\ \A k \in Keys : unseen'[k] = 0
  <2>1. /\ pos' = pos /\ closing' = closing /\ ledger' = ledger
        /\ unseen' = unseen
    BY <1>5, RunOutcome DEF Run
  <2>2. CASE i # j
    <3>1. job'[i] = job[i]
      BY <1>5, <2>2 DEF Run, TypeOK
    <3> QED  BY <1>2, <1>3, <2>1, <3>1
  <2>3. CASE i = j
    <3>1. PICK errs \in SUBSET Keys :
            job'[i].book = AfterRun(ledger, errs) /\ job'[i].errs = errs
      BY <1>5, <2>3, RunOutcome DEF TypeOK
    <3>2. AfterRun(ledger, errs)' = AfterRun(ledger, errs)
      BY <2>1, RunUnmoved
    <3>3. AfterRun(ledger, job[i].errs)' = AfterRun(ledger, errs)
      BY <3>1, <3>2
    <3>4. Due'
      BY <1>5, <2>1 DEF Run, Due, Scheduled
    <3> QED  BY <3>1, <3>3, <3>4
  <2> QED  BY <2>2, <2>3
<1>6. ASSUME NEW j \in Jobs, Send(j) \/ SendFails(j)
      PROVE  \/ Due' /\ job'[i].book = AfterRun(ledger, job[i].errs)'
             \/ job'[i].book = ledger' /\ \A k \in Keys : unseen'[k] = 0
  <2>1. unseen' = unseen
    BY <1>6 DEF Send, SendFails
  <2> QED  BY <1>2, <1>3, <1>6, <2>1, SendOutcome
<1>7. ASSUME NEW j \in Jobs, Push(j)
      PROVE  \/ Due' /\ job'[i].book = AfterRun(ledger, job[i].errs)'
             \/ job'[i].book = ledger' /\ \A k \in Keys : unseen'[k] = 0
  <2>1. i # j
    BY <1>2, <1>7, IdleFacts DEF Push
  <2>2. /\ job'[i] = job[i] \/ job'[i] = [job[i] EXCEPT !.current = FALSE]
        /\ job[i] \in JobStates
    BY <1>7, <2>1 DEF Push, TypeOK
  <2>3. job'[i] = job[i]
    BY <1>2, <2>2 DEF JobStates
  <2>4. /\ job[j].pc # "idle" /\ job[j].current /\ ledger' = job[j].book
        /\ unseen' = [k \in Keys |-> IF k \in job[j].errs THEN unseen[k] ELSE 0]
        /\ pos' = pos /\ closing' = closing
    BY <1>7 DEF Push, replayVars
  <2>5. FetchOutcomes = {{}}
    BY <2>1 DEF FetchOutcomes, Scheduled, Alone
  <2>6. job[i].errs = {} /\ job[j].errs = {}
    BY <1>2, <2>3, <2>4, <2>5 DEF SoundBooks, SoundJob
  <2>7. \A k \in Keys : unseen'[k] = 0
    BY <2>4, <2>6
  <2>8. CASE job[j].book = ledger /\ \A k \in Keys : unseen[k] = 0
    <3>1. unseen' = unseen
      BY <2>4, <2>8 DEF TypeOK
    <3> QED  BY <1>2, <1>3, <2>3, <2>4, <2>8, <3>1
  <2>9. CASE Due /\ job[j].book = AfterRun(ledger, {})
    <3>1. CASE job[i].book = AfterRun(ledger, {})
      BY <2>3, <2>4, <2>7, <2>9, <3>1
    <3>2. CASE job[i].book = ledger /\ \A k \in Keys : unseen[k] = 0
      <4>1. Keys = {}
        BY <2>9, <3>2 DEF Due
      <4>2. ledger \in [Keys -> Entries] /\ ledger' \in [Keys -> Entries]
        BY <2>4 DEF TypeOK, JobStates
      <4>3. ledger' = ledger
        BY <4>1, <4>2
      <4> QED  BY <2>3, <2>7, <3>2, <4>3
    <3> QED  BY <1>1, <1>2, <2>3, <2>6, <3>1, <3>2 DEF HeadJob
  <2> QED  BY <1>1, <2>4, <2>6, <2>8, <2>9 DEF HeadJob
<1>8. ASSUME NEW j \in Jobs, PushFails(j)
      PROVE  \/ Due' /\ job'[i].book = AfterRun(ledger, job[i].errs)'
             \/ job'[i].book = ledger' /\ \A k \in Keys : unseen'[k] = 0
  <2>1. /\ pos' = pos /\ closing' = closing /\ ledger' = ledger
        /\ unseen' = unseen
    BY <1>8 DEF PushFails, replayVars
  <2>2. job'[i] = job[i]
    BY <1>2, <1>8, IdleFacts DEF PushFails, TypeOK
  <2> QED  BY <1>2, <1>3, <2>1, <2>2
<1>9. ASSUME UNCHANGED vars
      PROVE  \/ Due' /\ job'[i].book = AfterRun(ledger, job[i].errs)'
             \/ job'[i].book = ledger' /\ \A k \in Keys : unseen'[k] = 0
  <2>1. /\ pos' = pos /\ closing' = closing /\ ledger' = ledger
        /\ unseen' = unseen /\ job' = job
    BY <1>9 DEF vars, replayVars
  <2> QED  BY <1>2, <1>3, <2>1
<1> QED  BY <1>4, <1>5, <1>6, <1>7, <1>8, <1>9 DEF Next

(* No entry of a book costs more than all of it. *)
LEMMA EntryFits ==
    ASSUME NEW book \in Books, NEW k \in Keys
    PROVE  Cost(book[k]) <= BookValue(book)
<1> DEFINE f == [i \in Keys |-> Cost(book[i])]
<1>1. \A i \in Keys : f[i] \in Nat /\ f[i] \in Int
  <2> SUFFICES ASSUME NEW i \in Keys PROVE f[i] \in Nat /\ f[i] \in Int
    OBVIOUS
  <2>1. f[i] \in Nat
    BY CostType
  <2> HIDE DEF f
  <2> QED  BY <2>1
<1>2. BookValue(book) = SumFunctionOnSet(f, Keys) /\ Cost(book[k]) = f[k]
  BY DEF BookValue
<1> HIDE DEF f
<1>3. SumFunctionOnSet(f, Keys) = f[k] + SumFunctionOnSet(f, Keys \ {k})
  BY <1>1, KeyAssumption, SumStep
<1>4. SumFunctionOnSet(f, Keys \ {k}) \in Nat
  <2>1. IsFiniteSet(Keys \ {k})
    BY KeyAssumption, FS_Subset
  <2> QED  BY <1>1, <2>1, SumNat
<1> QED  BY <1>1, <1>2, <1>3, <1>4

(* An entry of an affordable book is one the abstract account may hold.    *)
LEMMA EntryIsHolding ==
    ASSUME NEW book \in Books, BookValue(book) <= TotalCapital, NEW k \in Keys,
           Held(book, k), book[k].entry_price \in EntryPrices, book[k].trade >= 1
    PROVE  book[k] \in [qty : 1..TotalCapital, entry_price : EntryPrices,
                        trade : 1..MaxTrades]
<1> DEFINE q == book[k].qty
           p == book[k].entry_price
           t == book[k].trade
<1>1. q \in Nat \ {0} /\ p \in Nat \ {0} /\ t \in 1..MaxTrades
      /\ book[k] = [qty |-> q, entry_price |-> p, trade |-> t]
  <2>1. q \in Nat /\ t \in 0..MaxTrades
        /\ book[k] = [qty |-> q, entry_price |-> p, trade |-> t]
    BY DEF Books, Entries
  <2>2. p \in Nat \ {0} /\ MaxTrades \in Nat /\ t >= 1 /\ q > 0
    BY PriceAssumption, BoundAssumption DEF Held
  <2> HIDE DEF q, p, t
  <2> QED  BY <2>1, <2>2
<1>2. q * p <= TotalCapital
  <2>1. Cost(book[k]) <= BookValue(book) /\ Cost(book[k]) \in Nat
        /\ BookValue(book) \in Nat
    BY EntryFits, CostType
  <2>2. Cost(book[k]) = q * p
    BY DEF Cost
  <2> HIDE DEF q, p, t
  <2> QED  BY <2>1, <2>2, CapitalAssumption
<1>3. p \in EntryPrices
  OBVIOUS
<1> HIDE DEF q, p, t
<1>4. q <= q * p
  <2> DEFINE r == p - 1
  <2>1. r \in Nat /\ p = 1 + r
    BY <1>1
  <2> HIDE DEF r
  <2>2. q * p = q + q * r /\ q * r \in Nat
    BY <1>1, <2>1
  <2> QED  BY <1>1, <2>2
<1>5. q \in 1..TotalCapital
  <2>1. q * p \in Nat
    BY <1>1
  <2> QED  BY <1>1, <1>2, <1>4, <2>1, CapitalAssumption
<1> QED  BY <1>1, <1>3, <1>5

(* The sum of the abstract account is the sum of the book.                 *)
LEMMA SameSum ==
    ASSUME NEW f, NEW S
    PROVE  Account!SumFunctionOnSet(f, S) = SumFunctionOnSet(f, S)
BY DEF Account!SumFunctionOnSet, Account!FoldFunctionOnSet, Account!MapThenFoldSet,
       SumFunctionOnSet, FoldFunctionOnSet, MapThenFoldSet

(* One push is one trading day of the account, or changes nothing.         *)
LEMMA PushIsDay ==
    ASSUME PricesFit, Scheduled, TypeOK, NoOverAllocation, SoundBooks, SoundBooks',
           HeadBooks, NEW j \in Jobs, Push(j)
    PROVE  Account!Next \/ ledger' = ledger
<1> DEFINE errs == job[j].errs
           closed == BookedExits(ledger, errs)
           opened == Approved(ledger, errs)
           next == AfterRun(ledger, errs)
           Holdings == [qty : 1..TotalCapital, entry_price : EntryPrices,
                        trade : 1..MaxTrades]
           new == [k \in opened |-> next[k]]
<1>1. /\ job[j].pc # "idle" /\ job[j].current /\ ledger' = job[j].book
      /\ BookValue(job[j].book) <= TotalCapital
  BY DEF Push, NoOverAllocation
<1>2. SUFFICES ASSUME Due, ledger' = next PROVE Account!Next
  BY <1>1 DEF HeadBooks, HeadJob
<1>3. ReplayTypeOK /\ ledger \in Books /\ errs \in SUBSET Keys
  BY DEF TypeOK, Books, JobStates
<1>4. \A k \in Keys : unseen[k] \in Nat /\ unseen[k] > 0
  BY <1>2, FaultAssumption DEF Due, TypeOK
<1>5. /\ \A k \in closed : closing[k] # None /\ closing[k].trade = ledger[k].trade
      /\ \A k \in opened : Held(ledger, k) => k \in closed
  <2> HIDE DEF errs
  <2> QED  BY <1>3, <1>4, RunIsSound DEF SoundBooks
<1>6. next \in Books /\ BookValue(next) <= TotalCapital
  <2> HIDE DEF errs
  <2> QED  BY <1>1, <1>2, <1>3, AfterRunType DEF next
<1>7. opened \in SUBSET Keys /\ closed \in SUBSET Keys
      /\ \A k \in closed : Held(ledger, k)
  <2> HIDE DEF errs
  <2> QED  BY <1>3, ApprovedFacts DEF RawEntries, BookedExits, HeldKeys
<1>8. ASSUME NEW k \in opened
      PROVE  /\ pos[k] # None /\ pos[k].trade >= 1
             /\ Held(next, k) /\ next[k].trade = pos[k].trade
             /\ next[k].entry_price = pos[k].price /\ pos[k].price \in EntryPrices
  <2> HIDE DEF errs
  <2>1. k \in Keys
    BY <1>7
  <2>2. /\ pos[k] # None /\ pos[k].age = 0 /\ Held(next, k)
        /\ next[k].trade = pos[k].trade /\ next[k].entry_price = pos[k].price
    BY <1>3, <2>1, AfterRunAt
  <2> HIDE DEF next, opened
  <2>3. pos[k].trade >= 1
    BY <2>1, <2>2 DEF SoundBooks, TradesInOrder
  <2>4. pos[k].price \in EntryPrices
    BY <1>3, <2>1, <2>2, PositionFacts
  <2> QED  BY <2>2, <2>3, <2>4
<1>9. \A k \in Keys \ opened : next[k] = IF k \in closed THEN NoEntry ELSE ledger[k]
  <2> HIDE DEF errs
  <2> QED  BY <1>3, AfterRunAt
<1> HIDE DEF errs, closed, opened, next
<1>10. new \in [opened -> Holdings]
  <2>1. ASSUME NEW k \in opened  PROVE next[k] \in Holdings
    BY <1>6, <1>7, <1>8, EntryIsHolding
  <2> QED  BY <2>1
<1>11. closed \subseteq Account!HeldNow
  <2>1. ASSUME NEW k \in closed  PROVE k \in Keys /\ ledger[k] # NoEntry
    BY <1>7, NoEntryIsFree
  <2> QED  BY <2>1 DEF Account!HeldNow
<1>12. opened \cap (Account!HeldNow \ closed) = {}
  <2>1. ASSUME NEW k \in opened, ledger[k] # NoEntry  PROVE k \in closed
    BY <1>5, <1>7, <2>1 DEF SoundBooks, Sound
  <2> QED  BY <2>1 DEF Account!HeldNow
<1>13. \A k \in opened \cap closed : new[k].trade # ledger[k].trade
  <2>1. ASSUME NEW k \in opened \cap closed  PROVE new[k].trade # ledger[k].trade
    <3>1. new[k].trade = pos[k].trade /\ pos[k] # None /\ k \in Keys
      BY <1>7, <1>8
    <3>2. closing[k] # None /\ closing[k].trade = ledger[k].trade
      BY <1>5
    <3>3. closing[k].trade < pos[k].trade
      BY <3>1, <3>2 DEF SoundBooks, TradesInOrder
    <3>4. closing[k].trade \in Int /\ pos[k].trade \in Int
      BY <1>3, <3>1, <3>2, BoundAssumption DEF ReplayTypeOK, Position, Closed
    <3> HIDE DEF new
    <3> QED  BY <3>1, <3>2, <3>3, <3>4
  <2> QED  BY <2>1
<1>14. ledger' = [k \in Keys |-> IF k \in opened THEN new[k]
                                 ELSE IF k \in closed THEN NoEntry
                                 ELSE ledger[k]]
  <2>1. next = [k \in Keys |-> next[k]]
    BY <1>6 DEF Books
  <2> QED  BY <1>2, <1>9, <2>1
<1>15. Account!Affordable(ledger')
  <2>1. BookValue(ledger') <= TotalCapital
    BY <1>2, <1>6
  <2> QED  BY <2>1, SameSum DEF Account!Affordable, BookValue
<1>16. Account!Exclusive(ledger')
  <2>1. \A i, k \in Keys : Held(ledger', i) /\ Held(ledger', k) /\ Conflict(i, k) => i = k
    BY DEF SoundBooks, Sound, Held
  <2>2. \A k \in Keys : ledger'[k] # NoEntry => Held(ledger', k)
    BY DEF SoundBooks, Sound, Held
  <2> QED  BY <2>1, <2>2 DEF Account!Exclusive
<1> HIDE DEF new, Holdings
<1>17. Account!TradingDay(closed, opened)
  BY <1>10, <1>11, <1>12, <1>13, <1>14, <1>15, <1>16 DEF Account!TradingDay, Holdings
<1> QED  BY <1>7, <1>17 DEF Account!Next

(* Under the schedule, if no share costs more than the least chunk, the    *)
(* committed ledger is the account its reader is promised: every push is a *)
(* trading day that closes holdings whole, opens others for other trades,  *)
(* within the capital and one per ticker; nothing else changes it.         *)
THEOREM LedgerIsAccount ==
    ASSUME PricesFit, Scheduled
    PROVE  Spec => ImplementsAccount
<1>1. Init => Account!Init
  BY DEF Init, EmptyBook, Account!Init
<1>2. Init => HeadBooks
  BY IdleFacts DEF Init, HeadBooks, HeadJob
<1>3. TypeOK /\ SoundBooks /\ HeadBooks /\ [Next]_vars => HeadBooks'
  BY StepHead
<1>4. TypeOK /\ NoOverAllocation /\ SoundBooks /\ SoundBooks' /\ HeadBooks
        /\ [Next]_vars => [Account!Next]_ledger
  <2> SUFFICES ASSUME TypeOK, NoOverAllocation, SoundBooks, SoundBooks', HeadBooks,
                      [Next]_vars
               PROVE  Account!Next \/ ledger' = ledger
    OBVIOUS
  <2>1. CASE \E j \in Jobs : Push(j)
    BY <2>1, PushIsDay
  <2>2. CASE ~ \E j \in Jobs : Push(j)
    BY <2>2 DEF Next, vars, Bar, Retract, Run, Send, SendFails, PushFails
  <2> QED  BY <2>1, <2>2
<1>5. Spec => []NoOverAllocation
  BY CapitalSafety
<1>6. Spec => []SoundBooks
  BY BooksAreSound
<1> QED
  BY <1>1, <1>2, <1>3, <1>4, <1>5, <1>6, TypeCorrect, PTL
     DEF Spec, ImplementsAccount, Account!Spec

-----------------------------------------------------------------------------
(* What the digests tell the reader.                                       *)

(* Every push of a current checkout and every digest gets through.         *)
Delivered == Scheduled /\ Faults \subseteq {"fetch"}

Lines(book) == Pairs(HeldKeys(book), book)

LEMMA InLines ==
    ASSUME NEW book, NEW x
    PROVE  x \in Lines(book) <=>
               \E k \in Keys : Held(book, k) /\ x = <<k, book[k].trade>>
BY DEF Lines, Pairs, HeldKeys

(* The digest of a run turns the positions of the ledger into those of the *)
(* book it saves, and sending it twice says nothing new.                   *)
LEMMA DigestIsExact ==
    ASSUME ReplayTypeOK, TradesInOrder, NEW book \in Books, NEW u,
           \A k \in Keys : u[k] \in Nat /\ u[k] > 0,
           Sound(book, u), NEW errs \in SUBSET Keys
    PROVE  LET next == AfterRun(book, errs)
               sells == Pairs(BookedExits(book, errs), book)
               buys == Pairs(Approved(book, errs), next)
           IN  /\ (Lines(book) \ sells) \cup buys = Lines(next)
               /\ (Lines(next) \ sells) \cup buys = Lines(next)
<1> DEFINE A == Approved(book, errs)
           X == BookedExits(book, errs)
           next == AfterRun(book, errs)
           sells == Pairs(X, book)
           buys == Pairs(A, next)
<1>1. /\ A \in SUBSET Keys /\ X \in SUBSET Keys
      /\ \A k \in A : Held(next, k)
      /\ \A k \in A : Held(book, k) => k \in X
  <2>1. A \in SUBSET Keys /\ X \in SUBSET Keys
    BY ApprovedFacts DEF RawEntries, BookedExits, HeldKeys
  <2> QED  BY <2>1, AfterRunAt, RunIsSound
<1>2. /\ \A k \in Keys \ (A \cup X) : next[k] = book[k]
      /\ \A k \in X \ A : ~Held(next, k)
  <2>1. \A k \in X \ A : k \in Keys /\ next[k] = NoEntry
    BY <1>1, AfterRunAt
  <2> QED  BY <2>1, AfterRunAt, NoEntryIsFree
<1>3. \A x : x \in sells <=> \E k \in X : x = <<k, book[k].trade>>
  BY DEF Pairs
<1>4. \A x : x \in buys <=> \E k \in A : x = <<k, next[k].trade>>
  BY DEF Pairs
<1> HIDE DEF A, X, next, sells, buys
<1>5. \A x : x \in Lines(book) <=> \E k \in Keys : Held(book, k) /\ x = <<k, book[k].trade>>
  BY InLines
<1>6. \A x : x \in Lines(next) <=> \E k \in Keys : Held(next, k) /\ x = <<k, next[k].trade>>
  BY InLines
<1>7. \A k \in Keys : next[k] = book[k] => (Held(next, k) <=> Held(book, k))
  BY DEF Held
<1>8. ASSUME NEW x \in Lines(book), x \notin sells  PROVE x \in Lines(next)
  <2>1. PICK k \in Keys : Held(book, k) /\ x = <<k, book[k].trade>>
    BY <1>5
  <2>2. k \notin X
    BY <1>3, <1>8, <2>1
  <2>3. k \notin A
    BY <1>1, <2>1, <2>2
  <2> QED  BY <1>2, <1>6, <1>7, <2>1, <2>2, <2>3
<1>9. ASSUME NEW x \in Lines(next), x \notin buys
      PROVE  x \in Lines(book) /\ x \notin sells
  <2>1. PICK k \in Keys : Held(next, k) /\ x = <<k, next[k].trade>>
    BY <1>6
  <2>2. k \notin A
    BY <1>4, <1>9, <2>1
  <2>3. k \notin X
    BY <1>2, <2>1, <2>2
  <2>4. x \in Lines(book)
    BY <1>2, <1>5, <1>7, <2>1, <2>2, <2>3
  <2>5. x \notin sells
    <3> SUFFICES ASSUME NEW i \in X, x = <<i, book[i].trade>> PROVE FALSE
      BY <1>3
    <3> QED  BY <2>1, <2>3
  <2> QED  BY <2>4, <2>5
<1>10. buys \subseteq Lines(next)
  BY <1>1, <1>4, <1>6
<1>11. (Lines(book) \ sells) \cup buys = Lines(next)
  BY <1>8, <1>9, <1>10
<1>12. (Lines(next) \ sells) \cup buys = Lines(next)
  BY <1>9, <1>10
<1> QED  BY <1>11, <1>12 DEF A, X, next, sells, buys

(* Until one of the day's jobs has pushed, they all do the same: they book *)
(* the same new bars into the same ledger and say the same.  The first     *)
(* digest makes what the reader was told the book that is about to be      *)
(* pushed.                                                                 *)
UnpushedBy(errs) ==
    /\ \A j \in Jobs : job[j].pc # "idle" =>
        /\ Due /\ job[j].current
        /\ job[j].errs = errs
        /\ job[j].book = AfterRun(ledger, errs)
        /\ job[j].buys = Pairs(Approved(ledger, errs), AfterRun(ledger, errs))
        /\ job[j].sells = Pairs(BookedExits(ledger, errs), ledger)
    /\ told = IF \E j \in Jobs : job[j].pc = "sent"
              THEN Lines(AfterRun(ledger, errs))
              ELSE Lines(ledger)

(* Afterwards the reader knows the ledger, and the digests of the jobs     *)
(* that were overtaken add nothing to it.                                  *)
Pushed ==
    /\ told = Lines(ledger)
    /\ \A j \in Jobs : job[j].pc # "idle" =>
        /\ ~Due
        /\ (told \ job[j].sells) \cup job[j].buys = told
        /\ job[j].current => job[j].book = ledger

ToldBooks == Keys # {} => (\E errs \in FetchOutcomes : UnpushedBy(errs)) \/ Pushed

LEMMA NobodyWorks ==
    ASSUME \A j \in Jobs : job[j].pc = "idle"
    PROVE  /\ Pushed <=> told = Lines(ledger)
           /\ \A errs \in FetchOutcomes : UnpushedBy(errs) <=> told = Lines(ledger)
BY DEF Pushed, UnpushedBy

LEMMA RunTold ==
    ASSUME Delivered, TypeOK, ToldBooks, Keys # {}, NEW j \in Jobs, Run(j)
    PROVE  ToldBooks'
<1>1. PICK errs \in FetchOutcomes :
        job' = [job EXCEPT ![j] =
            [pc |-> "ran", book |-> AfterRun(ledger, errs),
             realized |-> realized + ExitPnL(ledger, errs),
             buys |-> Pairs(Approved(ledger, errs), AfterRun(ledger, errs)),
             sells |-> Pairs(BookedExits(ledger, errs), ledger),
             errs |-> errs, current |-> TRUE]]
  BY DEF Run
<1>2. /\ pos' = pos /\ closing' = closing /\ ledger' = ledger /\ told' = told
      /\ unseen' = unseen /\ Due /\ job[j].pc = "idle"
  BY DEF Run, replayVars, Delivered, Scheduled
<1>3. /\ job'[j].pc = "ran" /\ job'[j].current /\ job'[j].errs = errs
      /\ job'[j].book = AfterRun(ledger, errs)
      /\ job'[j].buys = Pairs(Approved(ledger, errs), AfterRun(ledger, errs))
      /\ job'[j].sells = Pairs(BookedExits(ledger, errs), ledger)
      /\ \A i \in Jobs \ {j} : job'[i] = job[i]
  BY <1>1 DEF TypeOK
<1>4. UnpushedBy(errs)
  <2>1. CASE \A i \in Jobs : job[i].pc = "idle"
    BY <1>2, <2>1, NobodyWorks DEF ToldBooks
  <2>2. CASE \E i \in Jobs : job[i].pc # "idle"
    <3>1. ~Pushed
      BY <1>2, <2>2 DEF Pushed
    <3>2. PICK e \in FetchOutcomes : UnpushedBy(e)
      BY <3>1 DEF ToldBooks
    <3>3. FetchOutcomes = {{}}
      BY <1>2, <2>2 DEF FetchOutcomes, Delivered, Scheduled, Alone
    <3> QED  BY <3>2, <3>3
  <2> QED  BY <2>1, <2>2
<1>5. /\ AfterRun(ledger, errs)' = AfterRun(ledger, errs)
      /\ Approved(ledger, errs)' = Approved(ledger, errs)
      /\ BookedExits(ledger, errs)' = BookedExits(ledger, errs)
  BY <1>2, RunUnmoved
<1>6. Due' /\ Pairs(Approved(ledger, errs), AfterRun(ledger, errs))'
                = Pairs(Approved(ledger, errs), AfterRun(ledger, errs))
      /\ Pairs(BookedExits(ledger, errs), ledger)'
                = Pairs(BookedExits(ledger, errs), ledger)
      /\ Lines(AfterRun(ledger, errs))' = Lines(AfterRun(ledger, errs))
      /\ Lines(ledger)' = Lines(ledger)
  <2>1. Due'
    BY <1>2 DEF Due
  <2>2. Pairs(Approved(ledger, errs), AfterRun(ledger, errs))'
                = Pairs(Approved(ledger, errs), AfterRun(ledger, errs))
    BY <1>5 DEF Pairs
  <2>3. Pairs(BookedExits(ledger, errs), ledger)'
                = Pairs(BookedExits(ledger, errs), ledger)
    BY <1>2, <1>5 DEF Pairs
  <2>4. Lines(AfterRun(ledger, errs))' = Lines(AfterRun(ledger, errs))
    BY <1>5 DEF Lines, Pairs, HeldKeys, Held
  <2>5. Lines(ledger)' = Lines(ledger)
    BY <1>2 DEF Lines, Pairs, HeldKeys, Held
  <2> QED  BY <2>1, <2>2, <2>3, <2>4, <2>5
<1>7. (\E i \in Jobs : job'[i].pc = "sent") <=> (\E i \in Jobs : job[i].pc = "sent")
  BY <1>2, <1>3
<1>8. UnpushedBy(errs)'
  BY <1>2, <1>3, <1>4, <1>5, <1>6, <1>7 DEF UnpushedBy
<1> QED  BY <1>8 DEF ToldBooks, FetchOutcomes

LEMMA SendTold ==
    ASSUME Delivered, TypeOK, SoundBooks, ToldBooks, Keys # {},
           NEW j \in Jobs, Send(j)
    PROVE  ToldBooks'
<1>1. /\ pos' = pos /\ closing' = closing /\ ledger' = ledger /\ unseen' = unseen
      /\ told' = (told \ job[j].sells) \cup job[j].buys
      /\ job[j].pc = "ran" /\ job'[j].pc = "sent"
      /\ \A i \in Jobs : /\ job'[i].pc = "idle" <=> job[i].pc = "idle"
                         /\ job'[i].errs = job[i].errs
                         /\ job'[i].book = job[i].book
                         /\ job'[i].buys = job[i].buys
                         /\ job'[i].sells = job[i].sells
                         /\ job'[i].current = job[i].current
  <2>1. /\ job' = [job EXCEPT ![j] = [job[j] EXCEPT !.pc = "sent"]]
        /\ job[j] \in JobStates /\ job[j].pc = "ran"
    BY DEF Send, TypeOK
  <2>2. job'[j].sells = job[j].sells /\ job'[j].pc = "sent"
        /\ \A i \in Jobs \ {j} : job'[i] = job[i]
    BY <2>1 DEF TypeOK, JobStates
  <2> QED  BY <2>1, <2>2, SendOutcome DEF Send
<1>2. CASE Pushed
  <2>1. told' = told
    BY <1>1, <1>2 DEF Pushed
  <2>2. Lines(ledger)' = Lines(ledger)
    BY <1>1 DEF Lines, Pairs, HeldKeys, Held
  <2>3. Due' <=> Due
    BY <1>1 DEF Due
  <2>4. Pushed'
    BY <1>1, <1>2, <2>1, <2>2, <2>3 DEF Pushed
  <2> QED  BY <2>4 DEF ToldBooks
<1>3. ASSUME NEW errs \in FetchOutcomes, UnpushedBy(errs)
      PROVE  ToldBooks'
  <2> DEFINE next == AfterRun(ledger, errs)
             buys == Pairs(Approved(ledger, errs), next)
             sells == Pairs(BookedExits(ledger, errs), ledger)
  <2>1. next' = next /\ buys' = buys /\ sells' = sells
        /\ Lines(next)' = Lines(next) /\ (Due' <=> Due)
    <3>1. /\ AfterRun(ledger, errs)' = AfterRun(ledger, errs)
          /\ Approved(ledger, errs)' = Approved(ledger, errs)
          /\ BookedExits(ledger, errs)' = BookedExits(ledger, errs)
      BY <1>1, RunUnmoved
    <3> QED  BY <1>1, <3>1 DEF Pairs, Lines, HeldKeys, Held, Due
  <2>2. job[j].buys = buys /\ job[j].sells = sells /\ Due
    BY <1>1, <1>3 DEF UnpushedBy
  <2>3. /\ (Lines(ledger) \ sells) \cup buys = Lines(next)
        /\ (Lines(next) \ sells) \cup buys = Lines(next)
    <3>1. errs \in SUBSET Keys /\ ReplayTypeOK /\ ledger \in Books
          /\ \A k \in Keys : unseen[k] \in Nat /\ unseen[k] > 0
      BY <2>2, FetchOutcomesType, FaultAssumption DEF TypeOK, Books, Due
    <3> QED  BY <3>1, DigestIsExact DEF SoundBooks
  <2>4. told = Lines(ledger) \/ told = Lines(next)
    BY <1>3 DEF UnpushedBy
  <2> HIDE DEF next, buys, sells
  <2>5. told' = Lines(next)
    BY <1>1, <2>2, <2>3, <2>4
  <2>6. \A i \in Jobs : job[i].pc # "idle" =>
            /\ Due /\ job[i].current /\ job[i].errs = errs
            /\ job[i].book = next /\ job[i].buys = buys /\ job[i].sells = sells
    BY <1>3 DEF UnpushedBy, next, buys, sells
  <2>7. \A i \in Jobs : job'[i].pc # "idle" =>
            /\ Due' /\ job'[i].current /\ job'[i].errs = errs
            /\ job'[i].book = next' /\ job'[i].buys = buys' /\ job'[i].sells = sells'
    BY <1>1, <2>1, <2>6
  <2>8. UnpushedBy(errs)'
    BY <1>1, <2>1, <2>5, <2>7 DEF UnpushedBy, next, buys, sells
  <2> QED  BY <2>8 DEF ToldBooks, FetchOutcomes
<1> QED  BY <1>2, <1>3 DEF ToldBooks

LEMMA PushTold ==
    ASSUME Delivered, TypeOK, SoundBooks, ToldBooks, Keys # {},
           NEW j \in Jobs, Push(j)
    PROVE  Pushed'
<1>1. /\ job[j].pc = "sent" /\ job[j].current /\ ledger' = job[j].book
      /\ told' = told /\ job'[j] = Idle
      /\ \A k \in Keys : unseen'[k] = IF k \in job[j].errs THEN unseen[k] ELSE 0
  BY DEF Push
<1>2. ASSUME NEW i \in Jobs, job'[i].pc # "idle"
      PROVE  /\ job[i].pc # "idle" /\ i # j
             /\ job'[i].buys = job[i].buys /\ job'[i].sells = job[i].sells
             /\ job'[i].book = job[i].book
             /\ job'[i].current => job[i].current
  <2>1. i # j
    BY <1>1, <1>2, IdleFacts
  <2>2. /\ job'[i] = job[i] \/ job'[i] = [job[i] EXCEPT !.current = FALSE]
        /\ job[i] \in JobStates
    BY <2>1 DEF Push, TypeOK
  <2> QED  BY <1>2, <2>1, <2>2 DEF JobStates
<1>3. CASE Pushed
  <2>1. ledger' = ledger /\ Lines(ledger)' = Lines(ledger)
    BY <1>1, <1>3 DEF Pushed, Lines, Pairs, HeldKeys, Held
  <2>2. ~Due'
    <3>1. PICK k \in Keys : ~(unseen[k] > 0)
      BY <1>1, <1>3 DEF Pushed, Due
    <3>2. ~(unseen'[k] > 0)
      BY <1>1, <3>1
    <3> QED  BY <3>2 DEF Due
  <2> QED  BY <1>1, <1>2, <1>3, <2>1, <2>2 DEF Pushed
<1>4. ASSUME NEW errs \in FetchOutcomes, UnpushedBy(errs)
      PROVE  Pushed'
  <2> DEFINE next == AfterRun(ledger, errs)
             buys == Pairs(Approved(ledger, errs), next)
             sells == Pairs(BookedExits(ledger, errs), ledger)
  <2>1. \A i \in Jobs : job[i].pc # "idle" =>
            /\ Due /\ job[i].errs = errs
            /\ job[i].book = next /\ job[i].buys = buys /\ job[i].sells = sells
    BY <1>4 DEF UnpushedBy
  <2>2. told = Lines(next)
    BY <1>1, <1>4 DEF UnpushedBy
  <2>3. (Lines(next) \ sells) \cup buys = Lines(next)
    <3>1. errs \in SUBSET Keys /\ ReplayTypeOK /\ ledger \in Books
          /\ \A k \in Keys : unseen[k] \in Nat /\ unseen[k] > 0
      BY <1>1, <2>1, FetchOutcomesType, FaultAssumption DEF TypeOK, Books, Due
    <3> QED  BY <3>1, DigestIsExact DEF SoundBooks
  <2> HIDE DEF next, buys, sells
  <2>4. ledger' = next
    BY <1>1, <2>1
  <2>5. Lines(ledger)' = Lines(next)
    BY <2>4 DEF Lines, Pairs, HeldKeys, Held
  <2>6. ASSUME NEW i \in Jobs, job'[i].pc # "idle"
        PROVE  /\ ~Due'
               /\ (told' \ job'[i].sells) \cup job'[i].buys = told'
               /\ job'[i].book = ledger'
    <3>1. FetchOutcomes = {{}}
      BY <1>2, <2>6 DEF FetchOutcomes, Delivered, Scheduled, Alone
    <3>2. job[j].errs = {}
      BY <1>1, <2>1, <3>1
    <3>3. ~Due'
      <4>1. PICK k \in Keys : TRUE
        OBVIOUS
      <4>2. unseen'[k] = 0
        BY <1>1, <3>2
      <4> QED  BY <4>2 DEF Due
    <3>4. /\ job'[i].sells = sells /\ job'[i].buys = buys /\ job'[i].book = next
      BY <1>2, <2>1, <2>6
    <3> QED  BY <1>1, <2>2, <2>3, <2>4, <3>3, <3>4
  <2> QED  BY <1>1, <2>2, <2>5, <2>6 DEF Pushed
<1> QED  BY <1>3, <1>4 DEF ToldBooks

LEMMA StepTold ==
    ASSUME Delivered, TypeOK, SoundBooks, ToldBooks, [Next]_vars
    PROVE  ToldBooks'
<1> SUFFICES ASSUME Keys # {} PROVE ToldBooks'
  BY DEF ToldBooks
<1>1. ASSUME NEW k \in Keys, Bar(k) \/ Retract(k)  PROVE ToldBooks'
  <2>1. told' = told /\ ledger' = ledger /\ job' = job
        /\ \A i \in Jobs : job[i].pc = "idle"
    BY <1>1 DEF Bar, Retract, AllIdle
  <2>2. told = Lines(ledger)
    BY <2>1, NobodyWorks DEF ToldBooks
  <2>3. Lines(ledger)' = Lines(ledger)
    BY <2>1 DEF Lines, Pairs, HeldKeys, Held
  <2>4. Pushed'
    BY <2>1, <2>2, <2>3 DEF Pushed
  <2> QED  BY <2>4 DEF ToldBooks
<1>2. ASSUME NEW j \in Jobs, SendFails(j)  PROVE FALSE
  BY <1>2 DEF SendFails, Delivered
<1>3. ASSUME NEW j \in Jobs, PushFails(j)  PROVE ToldBooks'
  <2>1. /\ ledger' = ledger /\ unseen' = unseen /\ told' = told
        /\ job[j].pc = "sent" /\ ~job[j].current
        /\ \A i \in Jobs : job'[i] = Idle \/ job'[i] = job[i]
    BY <1>3 DEF PushFails, Delivered, TypeOK
  <2>2. Pushed
    BY <2>1 DEF ToldBooks, UnpushedBy
  <2>3. Lines(ledger)' = Lines(ledger) /\ (Due' <=> Due)
    BY <2>1 DEF Lines, Pairs, HeldKeys, Held, Due
  <2>4. Pushed'
    BY <2>1, <2>2, <2>3, IdleFacts DEF Pushed
  <2> QED  BY <2>4 DEF ToldBooks
<1>4. CASE UNCHANGED vars
  <2>1. /\ pos' = pos /\ closing' = closing /\ ledger' = ledger
        /\ unseen' = unseen /\ told' = told /\ job' = job
    BY <1>4 DEF vars, replayVars
  <2>2. Lines(ledger)' = Lines(ledger) /\ (Due' <=> Due)
    BY <2>1 DEF Lines, Pairs, HeldKeys, Held, Due
  <2>3. CASE Pushed
    <3>1. Pushed'
      BY <2>1, <2>2, <2>3 DEF Pushed
    <3> QED  BY <3>1 DEF ToldBooks
  <2>4. ASSUME NEW errs \in FetchOutcomes, UnpushedBy(errs)  PROVE ToldBooks'
    <3>1. /\ AfterRun(ledger, errs)' = AfterRun(ledger, errs)
          /\ Approved(ledger, errs)' = Approved(ledger, errs)
          /\ BookedExits(ledger, errs)' = BookedExits(ledger, errs)
      BY <2>1, RunUnmoved
    <3>2. /\ Pairs(Approved(ledger, errs), AfterRun(ledger, errs))'
                = Pairs(Approved(ledger, errs), AfterRun(ledger, errs))
          /\ Pairs(BookedExits(ledger, errs), ledger)'
                = Pairs(BookedExits(ledger, errs), ledger)
          /\ Lines(AfterRun(ledger, errs))' = Lines(AfterRun(ledger, errs))
      BY <2>1, <3>1 DEF Pairs, Lines, HeldKeys, Held
    <3>3. UnpushedBy(errs)'
      BY <2>1, <2>2, <2>4, <3>1, <3>2 DEF UnpushedBy
    <3> QED  BY <3>3 DEF ToldBooks, FetchOutcomes
  <2> QED  BY <2>3, <2>4 DEF ToldBooks
<1>5. ASSUME NEW j \in Jobs, Push(j)  PROVE ToldBooks'
  BY <1>5, PushTold DEF ToldBooks
<1> QED  BY <1>1, <1>2, <1>3, <1>4, <1>5, RunTold, SendTold DEF Next

LEMMA NothingToTell ==
    ASSUME TypeOK, Keys = {}
    PROVE  told = Pairs(HeldKeys(ledger), ledger)
<1>1. told = {}
  BY DEF TypeOK, Trade
<1>2. Pairs(HeldKeys(ledger), ledger) = {}
  BY DEF Pairs, HeldKeys
<1> QED  BY <1>1, <1>2

(* Under the schedule, if only fetches fail, the positions the digests     *)
(* left open are exactly those of the ledger whenever no job is under way, *)
(* however the day's jobs overlapped.                                      *)
THEOREM ReaderKnowsLedger ==
    ASSUME Delivered
    PROVE  Spec => []ToldIsLedger
<1>0. Scheduled
  BY DEF Delivered
<1>1. Init => ToldBooks
  <2> SUFFICES ASSUME Init PROVE Pushed
    BY DEF ToldBooks
  <2>1. told = {} /\ \A j \in Jobs : job[j].pc = "idle"
    BY IdleFacts DEF Init
  <2>2. \A k \in Keys : ~Held(ledger, k)
    BY NoEntryIsFree DEF Init, EmptyBook
  <2>3. Lines(ledger) = {}
    BY <2>2 DEF Lines, Pairs, HeldKeys
  <2> QED  BY <2>1, <2>3 DEF Pushed
<1>2. TypeOK /\ SoundBooks /\ ToldBooks /\ [Next]_vars => ToldBooks'
  BY StepTold
<1>3. TypeOK /\ ToldBooks => ToldIsLedger
  <2> SUFFICES ASSUME TypeOK, ToldBooks, AllIdle
               PROVE  told = Pairs(HeldKeys(ledger), ledger)
    BY DEF ToldIsLedger
  <2>1. CASE Keys = {}
    BY <2>1, NothingToTell
  <2>2. CASE Keys # {}
    <3>1. told = Lines(ledger)
      BY <2>2, NobodyWorks DEF ToldBooks, AllIdle
    <3> QED  BY <3>1 DEF Lines
  <2> QED  BY <2>1, <2>2
<1>4. Spec => []SoundBooks
  BY <1>0, BooksAreSound
<1> QED  BY <1>1, <1>2, <1>3, <1>4, TypeCorrect, PTL DEF Spec

-----------------------------------------------------------------------------
(* No buy is announced twice.                                              *)

(* The order of the trades holds whatever goes wrong around the program.   *)
LEMMA OrderKept == Spec => []TradesInOrder
<1>1. Init => TradesInOrder
  BY InitSound DEF SoundBooks
<1>2. TypeOK /\ TradesInOrder /\ [Next]_vars => TradesInOrder'
  <2> SUFFICES ASSUME TypeOK, TradesInOrder, [Next]_vars PROVE TradesInOrder'
    OBVIOUS
  <2>1. ASSUME NEW k \in Keys, Bar(k)  PROVE TradesInOrder'
    BY <2>1, BarKeepsOrder DEF Bar, TypeOK
  <2>2. ASSUME NEW k \in Keys, Retract(k)  PROVE TradesInOrder'
    BY <2>2 DEF Retract, RetractEntry, TradesInOrder, TypeOK, ReplayTypeOK
  <2>3. CASE replayVars' = replayVars
    BY <2>3 DEF replayVars, TradesInOrder
  <2> QED  BY <2>1, <2>2, <2>3
           DEF Next, vars, Run, Send, SendFails, Push, PushFails
<1> QED  BY <1>1, <1>2, TypeCorrect, PTL DEF Spec

(* One job at a time, which runs only on a new bar of every key and whose  *)
(* push goes through.  Fetches and digests may fail, bars may be missed    *)
(* for any number of days and may still be forming.                        *)
OneAtATime == Alone /\ Faults \cap {"rerun", "push"} = {}

(* What was told is no younger than the last trade of its key; and an      *)
(* entry of today that was told has been pushed, or is about to be.        *)
NewsInOrder ==
    /\ \A x \in told : x[2] <= trades[x[1]]
    /\ \A j \in Jobs :
        /\ job[j].current
        /\ \A x \in job[j].buys : x[2] <= trades[x[1]]
        /\ job[j].buys # {} => job[j].errs = {}
    /\ \A k \in Keys :
        pos[k] # None /\ pos[k].age = 0 /\ <<k, pos[k].trade>> \in told =>
            unseen[k] = 0 \/ \E j \in Jobs : job[j].pc = "sent" /\ job[j].errs = {}

LEMMA BarNews ==
    ASSUME TypeOK, NewsInOrder, NEW k \in Keys, Bar(k) \/ Retract(k)
    PROVE  NewsInOrder'
<1>1. /\ told' = told /\ job' = job /\ told \in SUBSET Trade
      /\ \A j \in Jobs : job[j].pc = "idle" /\ job[j] \in JobStates
      /\ \A i \in Keys : unseen[i] = 0 => i = k \/ unseen'[i] = 0
  BY DEF Bar, Retract, AllIdle, TypeOK
<1>2. \A i \in Keys : trades[i] \in Nat /\ trades'[i] \in Nat /\ trades[i] <= trades'[i]
  <2>1. CASE Bar(k)
    <3>1. \A i \in Keys : trades[i] \in Nat
      BY BoundAssumption DEF TypeOK, ReplayTypeOK
    <3>2. \A i \in Keys \ {k} : trades'[i] = trades[i]
      BY <2>1, BarMoves DEF Bar, TypeOK
    <3>3. trades'[k] = trades[k] \/ trades'[k] = trades[k] + 1
      BY <2>1, BarMoves DEF Bar, TypeOK, BarHolds, BarEnters, BarExits, BarSwitches
    <3> QED  BY <3>1, <3>2, <3>3
  <2>2. CASE Retract(k)
    <3>1. \A i \in Keys : trades[i] \in Nat
      BY BoundAssumption DEF TypeOK, ReplayTypeOK
    <3> QED  BY <2>2, <3>1 DEF Retract, RetractEntry
  <2> QED  BY <2>1, <2>2
<1>3. \A x \in Trade : x[1] \in Keys /\ x[2] \in Nat
  BY BoundAssumption DEF Trade
<1>4. \A x \in told : x[2] <= trades'[x[1]]
  <2> SUFFICES ASSUME NEW x \in told PROVE x[2] <= trades'[x[1]]
    OBVIOUS
  <2>1. x[2] <= trades[x[1]] /\ x[1] \in Keys /\ x[2] \in Nat
    BY <1>1, <1>3 DEF NewsInOrder
  <2> DEFINE a == x[1]
             b == x[2]
  <2>2. a \in Keys /\ b \in Nat /\ b <= trades[a]
    BY <2>1
  <2> HIDE DEF a, b
  <2>3. b <= trades'[a]
    BY <1>2, <2>2
  <2> QED  BY <2>3 DEF a, b
<1>5. ASSUME NEW j \in Jobs, NEW x \in job[j].buys
      PROVE  x[2] <= trades'[x[1]]
  <2>1. x[2] <= trades[x[1]] /\ x[1] \in Keys /\ x[2] \in Nat
    BY <1>1, <1>3 DEF NewsInOrder, JobStates
  <2> DEFINE a == x[1]
             b == x[2]
  <2>2. a \in Keys /\ b \in Nat /\ b <= trades[a]
    BY <2>1
  <2> HIDE DEF a, b
  <2>3. b <= trades'[a]
    BY <1>2, <2>2
  <2> QED  BY <2>3 DEF a, b
<1>6. ASSUME NEW i \in Keys, pos'[i] # None, pos'[i].age = 0,
             <<i, pos'[i].trade>> \in told
      PROVE  unseen'[i] = 0
  <2>1. CASE i = k
    <3>1. Bar(k)
      BY <1>6, <2>1 DEF Retract, RetractEntry, TypeOK, ReplayTypeOK
    <3>2. BarHolds(k) \/ BarEnters(k) \/ BarExits(k) \/ BarSwitches(k)
      BY <3>1, BarMoves DEF Bar, TypeOK
    <3>3. ~BarHolds(k) /\ ~BarExits(k)
      <4>1. pos[k] # None => pos[k].age \in Nat
        BY BoundAssumption DEF TypeOK, ReplayTypeOK, Position
      <4> QED  BY <1>6, <2>1, <4>1 DEF BarHolds, BarExits
    <3>4. pos'[k].trade = trades[k] + 1
      BY <3>2, <3>3 DEF BarEnters, BarSwitches, Fresh
    <3> DEFINE x == <<i, pos'[i].trade>>
    <3>5. x[1] = k /\ x[2] = trades[k] + 1 /\ x \in told
      BY <1>6, <2>1, <3>4
    <3> HIDE DEF x
    <3>6. x[2] <= trades[x[1]]
      BY <3>5 DEF NewsInOrder
    <3> QED  BY <1>2, <3>5, <3>6
  <2>2. CASE i # k
    <3>1. pos'[i] = pos[i]
      BY <2>2, BarMoves DEF Bar, Retract, RetractEntry, TypeOK, ReplayTypeOK
    <3> QED  BY <1>1, <1>6, <2>2, <3>1 DEF NewsInOrder
  <2> QED  BY <2>1, <2>2
<1>7. \A j \in Jobs : job[j].current /\ (job[j].buys # {} => job[j].errs = {})
  BY DEF NewsInOrder
<1> QED  BY <1>1, <1>4, <1>5, <1>6, <1>7 DEF NewsInOrder

LEMMA RunNews ==
    ASSUME OneAtATime, TypeOK, TradesInOrder, NewsInOrder, NEW j \in Jobs, Run(j)
    PROVE  NewsInOrder' /\ job'[j].buys \cap told = {}
<1>1. /\ pos' = pos /\ closing' = closing /\ ledger' = ledger /\ told' = told
      /\ unseen' = unseen /\ trades' = trades /\ Due /\ job[j].pc = "idle"
  BY DEF Run, replayVars, OneAtATime
<1>2. PICK errs \in SUBSET Keys :
        /\ job'[j].buys = Pairs(Approved(ledger, errs), AfterRun(ledger, errs))
        /\ job'[j].errs = errs /\ job'[j].current
  BY RunOutcome DEF TypeOK
<1>3. ReplayTypeOK /\ ledger \in Books
  BY DEF TypeOK, Books
<1>4. ASSUME NEW x \in job'[j].buys
      PROVE  errs = {} /\ x[2] <= trades[x[1]] /\ x \notin told
  <2>1. PICK k \in Approved(ledger, errs) : x = <<k, AfterRun(ledger, errs)[k].trade>>
    BY <1>2, <1>4 DEF Pairs
  <2>2. errs = {} /\ k \in Keys
    BY <1>3, ApprovedFacts DEF RawEntries
  <2>3. /\ pos[k] # None /\ pos[k].age = 0
        /\ x = <<k, pos[k].trade>>
    BY <1>3, <2>1, <2>2, AfterRunAt
  <2>4. pos[k].trade <= trades[k]
    BY <2>2, <2>3 DEF TradesInOrder
  <2>5. x[1] = k /\ x[2] = pos[k].trade
    BY <2>3
  <2>6. x \notin told
    <3> SUFFICES ASSUME x \in told PROVE FALSE
      OBVIOUS
    <3>1. unseen[k] = 0
      BY <1>1, <2>2, <2>3 DEF NewsInOrder, OneAtATime, Alone
    <3> QED  BY <1>1, <2>2, <3>1 DEF Due
  <2> QED  BY <2>2, <2>4, <2>5, <2>6
<1>5. \A i \in Jobs : i = j
  BY DEF OneAtATime, Alone
<1>6. ASSUME NEW k \in Keys, pos[k] # None, pos[k].age = 0,
             <<k, pos[k].trade>> \in told
      PROVE  unseen[k] = 0
  BY <1>1, <1>5, <1>6 DEF NewsInOrder
<1>7. NewsInOrder'
  <2>1. \A x \in told : x[2] <= trades[x[1]]
    BY DEF NewsInOrder
  <2>2. /\ job'[j].current
        /\ \A x \in job'[j].buys : x[2] <= trades[x[1]]
        /\ job'[j].buys # {} => job'[j].errs = {}
    BY <1>2, <1>4
  <2> QED  BY <1>1, <1>5, <1>6, <2>1, <2>2 DEF NewsInOrder
<1> QED  BY <1>4, <1>7

LEMMA SendNews ==
    ASSUME OneAtATime, TypeOK, NewsInOrder, NEW j \in Jobs,
           Send(j) \/ SendFails(j)
    PROVE  NewsInOrder' /\ job'[j].pc = "sent"
<1>1. \A i \in Jobs : i = j
  BY DEF OneAtATime, Alone
<1>2. /\ pos' = pos /\ trades' = trades /\ unseen' = unseen
      /\ told' \subseteq told \cup job[j].buys
  BY DEF Send, SendFails, replayVars
<1>3. /\ job'[j].buys = job[j].buys /\ job'[j].errs = job[j].errs
      /\ job'[j].current = job[j].current /\ job[j].pc = "ran"
  BY SendOutcome
<1>4. job'[j].pc = "sent"
  BY DEF Send, SendFails, TypeOK, JobStates
<1>5. \A x \in told' : x[2] <= trades[x[1]]
  BY <1>2 DEF NewsInOrder
<1>6. /\ job[j].current
      /\ \A x \in job[j].buys : x[2] <= trades[x[1]]
      /\ job[j].buys # {} => job[j].errs = {}
  BY DEF NewsInOrder
<1>7. ASSUME NEW k \in Keys, pos[k] # None, pos[k].age = 0,
             <<k, pos[k].trade>> \in told'
      PROVE  unseen[k] = 0 \/ job[j].errs = {}
  <2>1. CASE <<k, pos[k].trade>> \in told
    <3>1. unseen[k] = 0 \/ \E i \in Jobs : job[i].pc = "sent" /\ job[i].errs = {}
      BY <1>7, <2>1 DEF NewsInOrder
    <3> QED  BY <1>1, <3>1
  <2>2. CASE <<k, pos[k].trade>> \in job[j].buys
    BY <1>6, <2>2
  <2> QED  BY <1>2, <1>7, <2>1, <2>2
<1>8. NewsInOrder'
  <2>1. \A i \in Jobs : /\ job'[i].current
                        /\ \A x \in job'[i].buys : x[2] <= trades[x[1]]
                        /\ job'[i].buys # {} => job'[i].errs = {}
    BY <1>1, <1>3, <1>6
  <2> QED  BY <1>2, <1>3, <1>4, <1>5, <1>7, <2>1 DEF NewsInOrder
<1> QED  BY <1>4, <1>8

LEMMA PushNews ==
    ASSUME OneAtATime, TypeOK, NewsInOrder, NEW j \in Jobs, Push(j)
    PROVE  NewsInOrder' /\ job'[j] = Idle
<1>1. \A i \in Jobs : i = j
  BY DEF OneAtATime, Alone
<1>2. /\ pos' = pos /\ trades' = trades /\ told' = told /\ job'[j] = Idle
      /\ \A k \in Keys : unseen'[k] = IF k \in job[j].errs THEN unseen[k] ELSE 0
  BY DEF Push, replayVars
<1>3. ASSUME NEW k \in Keys, pos[k] # None, pos[k].age = 0,
             <<k, pos[k].trade>> \in told
      PROVE  unseen'[k] = 0
  <2>1. unseen[k] = 0 \/ \E i \in Jobs : job[i].pc = "sent" /\ job[i].errs = {}
    BY <1>3 DEF NewsInOrder
  <2> QED  BY <1>1, <1>2, <2>1
<1>4. Idle.current /\ Idle.buys = {}
  BY DEF Idle
<1>5. \A x \in told : x[2] <= trades[x[1]]
  BY DEF NewsInOrder
<1>6. NewsInOrder'
  BY <1>1, <1>2, <1>3, <1>4, <1>5 DEF NewsInOrder
<1> QED  BY <1>2, <1>6

(* If one job runs at a time, on new bars, and its push goes through, no   *)
(* digest tells the reader to buy what an earlier one already did, however *)
(* many fetches and digests fail and however many bars no run has seen.    *)
THEOREM BuyOnce ==
    ASSUME OneAtATime
    PROVE  Spec => []BuyAnnouncedOnce
<1>1. Init => NewsInOrder /\ BuyAnnouncedOnce
  <2>1. Idle.current /\ Idle.buys = {} /\ Idle.pc = "idle"
    BY DEF Idle
  <2> QED  BY <2>1 DEF Init, NewsInOrder, BuyAnnouncedOnce
<1>2. TypeOK /\ TradesInOrder /\ NewsInOrder /\ BuyAnnouncedOnce /\ [Next]_vars
        => NewsInOrder' /\ BuyAnnouncedOnce'
  <2> SUFFICES ASSUME TypeOK, TradesInOrder, NewsInOrder, BuyAnnouncedOnce,
                      [Next]_vars
               PROVE  NewsInOrder' /\ BuyAnnouncedOnce'
    OBVIOUS
  <2>1. \A i, j \in Jobs : i = j
    BY DEF OneAtATime, Alone
  <2>2. ASSUME NEW k \in Keys, Bar(k) \/ Retract(k)
        PROVE  NewsInOrder' /\ BuyAnnouncedOnce'
    <3>1. \A j \in Jobs : job'[j].pc = "idle"
      BY <2>2 DEF Bar, Retract, AllIdle
    <3> QED  BY <2>2, <3>1, BarNews DEF BuyAnnouncedOnce
  <2>3. ASSUME NEW j \in Jobs, Run(j)
        PROVE  NewsInOrder' /\ BuyAnnouncedOnce'
    <3>1. told' = told
      BY <2>3 DEF Run
    <3> QED  BY <2>1, <2>3, <3>1, RunNews DEF BuyAnnouncedOnce
  <2>4. ASSUME NEW j \in Jobs, Send(j) \/ SendFails(j)
        PROVE  NewsInOrder' /\ BuyAnnouncedOnce'
    BY <2>1, <2>4, SendNews DEF BuyAnnouncedOnce
  <2>5. ASSUME NEW j \in Jobs, Push(j)
        PROVE  NewsInOrder' /\ BuyAnnouncedOnce'
    BY <2>1, <2>5, PushNews, IdleFacts DEF BuyAnnouncedOnce
  <2>6. ASSUME NEW j \in Jobs, PushFails(j)  PROVE FALSE
    BY <2>6 DEF PushFails, NewsInOrder, OneAtATime
  <2>7. CASE UNCHANGED vars
    BY <2>7 DEF vars, replayVars, NewsInOrder, BuyAnnouncedOnce
  <2> QED  BY <2>2, <2>3, <2>4, <2>5, <2>6, <2>7 DEF Next
<1> QED  BY <1>1, <1>2, OrderKept, TypeCorrect, PTL DEF Spec
=============================================================================
