---------------------------- MODULE SumTheorems ----------------------------
(***************************************************************************)
(* What SumFunctionOnSet of the community modules computes on finite sets  *)
(* of indices: the facts the proofs about capital rest on.                 *)
(*                                                                         *)
(* The provers cannot instantiate an induction principle with an operator, *)
(* so every induction here is an argument about a minimal counterexample:  *)
(* a non-empty set of subsets of a finite set has a member none of whose   *)
(* proper subsets belongs to it (MinimalSubset).                           *)
(***************************************************************************)
EXTENDS Integers, FiniteSets, Functions, FiniteSetTheorems, TLAPS

(* A collection of subsets of a finite set has a member minimal by         *)
(* inclusion.                                                              *)
LEMMA MinimalSubset ==
    ASSUME NEW S, IsFiniteSet(S),
           NEW Bad, Bad \subseteq SUBSET S, Bad # {}
    PROVE  \E T \in Bad : \A U \in SUBSET T : U # T => U \notin Bad
<1>1. IsWellFoundedOn(StrictSubsetOrdering(S), FiniteSubsetsOf(S))
  BY FS_StrictSubsetOrderingWellFounded
<1>2. FiniteSubsetsOf(S) = SUBSET S
  BY FS_FiniteSubsetsOfFinite
<1>3. PICK T \in Bad : \A U \in Bad : ~(<<U, T>> \in StrictSubsetOrdering(S))
  <2>1. Bad \subseteq FiniteSubsetsOf(S)  BY <1>2
  <2> QED  BY <1>1, <2>1, WFMin
<1>4. ASSUME NEW U \in SUBSET T, U # T  PROVE U \notin Bad
  <2>1. CASE U \in Bad
    <3>1. <<U, T>> \in (SUBSET S) \X (SUBSET S)  OBVIOUS
    <3>2. <<U, T>> \in StrictSubsetOrdering(S)
      BY <3>1, <1>4 DEF StrictSubsetOrdering
    <3> QED  BY <1>3, <2>1, <3>2
  <2> QED  BY <2>1
<1> QED  BY <1>4

-----------------------------------------------------------------------------
(* The recursive function behind SumFunctionOnSet.                         *)

Pick(s) == CHOOSE x \in s : TRUE
Rest(s) == s \ {Pick(s)}

IsSum(g, f, S) ==
    g = [s \in SUBSET S |-> IF s = {} THEN 0 ELSE f[Pick(s)] + g[Rest(s)]]

LEMMA PickRest ==
    ASSUME NEW S, S # {}
    PROVE  Pick(S) \in S /\ Rest(S) \in SUBSET S /\ Rest(S) # S
BY DEF Pick, Rest

LEMMA SumIsSum ==
    ASSUME NEW f, NEW S
    PROVE  SumFunctionOnSet(f, S) = (CHOOSE g : IsSum(g, f, S))[S]
BY DEF SumFunctionOnSet, FoldFunctionOnSet, MapThenFoldSet, IsSum, Pick, Rest

(* Two such functions agree where both are defined. *)
LEMMA SumUnique ==
    ASSUME NEW f, NEW S, NEW T, IsFiniteSet(S), T \in SUBSET S,
           NEW g, IsSum(g, f, S), NEW h, IsSum(h, f, T)
    PROVE  \A U \in SUBSET T : g[U] = h[U]
<1> DEFINE Bad == {U \in SUBSET T : g[U] # h[U]}
<1>1. SUFFICES ASSUME Bad # {} PROVE FALSE
  OBVIOUS
<1>2. IsFiniteSet(T)
  BY FS_Subset
<1>3. PICK U \in Bad : \A V \in SUBSET U : V # U => V \notin Bad
  <2>1. Bad \subseteq SUBSET T  OBVIOUS
  <2> HIDE DEF Bad
  <2> QED  BY <1>1, <1>2, <2>1, MinimalSubset
<1>4. U \in SUBSET T /\ U \in SUBSET S /\ g[U] # h[U]
  OBVIOUS
<1>5. /\ g[U] = IF U = {} THEN 0 ELSE f[Pick(U)] + g[Rest(U)]
      /\ h[U] = IF U = {} THEN 0 ELSE f[Pick(U)] + h[Rest(U)]
  BY <1>4 DEF IsSum
<1>6. U # {}
  BY <1>4, <1>5
<1>7. Rest(U) \in SUBSET U /\ Rest(U) # U
  BY <1>6, PickRest
<1>8. g[Rest(U)] = h[Rest(U)]
  BY <1>3, <1>4, <1>7
<1> QED  BY <1>4, <1>5, <1>6, <1>8

(* There is one for every finite set. *)
LEMMA SumExists ==
    ASSUME NEW f, NEW S, IsFiniteSet(S)
    PROVE  \E g : IsSum(g, f, S)
<1> DEFINE Bad == {U \in SUBSET S : ~ \E g : IsSum(g, f, U)}
<1>1. SUFFICES ASSUME Bad # {} PROVE FALSE
  OBVIOUS
<1>2. PICK T \in Bad : \A U \in SUBSET T : U # T => U \notin Bad
  <2>1. Bad \subseteq SUBSET S  OBVIOUS
  <2> HIDE DEF Bad
  <2> QED  BY <1>1, <2>1, MinimalSubset
<1>3. T \in SUBSET S /\ ~ \E g : IsSum(g, f, T)
  OBVIOUS
<1> DEFINE H(U) == CHOOSE g : IsSum(g, f, U)
           G == [s \in SUBSET T |->
                    IF s = {} THEN 0 ELSE f[Pick(s)] + H(Rest(s))[Rest(s)]]
<1>4. ASSUME NEW U \in SUBSET T, U # T  PROVE IsSum(H(U), f, U)
  BY <1>2, <1>3, <1>4
<1> HIDE DEF Bad, H
<1>5. ASSUME NEW s \in SUBSET T, s # {}  PROVE G[Rest(s)] = H(Rest(s))[Rest(s)]
  <2> DEFINE U == Rest(s)
  <2>1. U \in SUBSET s /\ U \in SUBSET T /\ U # T
    BY <1>5, PickRest
  <2>2. IsSum(H(U), f, U)
    BY <1>4, <2>1
  <2>3. H(U)[U] = IF U = {} THEN 0 ELSE f[Pick(U)] + H(U)[Rest(U)]
    BY <2>2 DEF IsSum
  <2>4. G[U] = IF U = {} THEN 0 ELSE f[Pick(U)] + H(Rest(U))[Rest(U)]
    BY <2>1
  <2>5. ASSUME U # {}  PROVE H(U)[Rest(U)] = H(Rest(U))[Rest(U)]
    <3>1. Rest(U) \in SUBSET U /\ Rest(U) \in SUBSET T /\ Rest(U) # T
      BY <2>5, <2>1, PickRest
    <3>2. IsSum(H(Rest(U)), f, Rest(U))
      BY <1>4, <3>1
    <3>3. IsFiniteSet(U)
      BY <2>1, <1>3, FS_Subset
    <3> HIDE DEF U
    <3> QED  BY <2>2, <3>1, <3>2, <3>3, SumUnique
  <2> QED  BY <2>3, <2>4, <2>5
<1>6. G = [s \in SUBSET T |-> IF s = {} THEN 0 ELSE f[Pick(s)] + G[Rest(s)]]
  <2> HIDE DEF G
  <2>1. G = [s \in SUBSET T |->
                IF s = {} THEN 0 ELSE f[Pick(s)] + H(Rest(s))[Rest(s)]]
    BY DEF G
  <2> QED  BY <1>5, <2>1
<1>7. IsSum(G, f, T)
  BY <1>6 DEF IsSum
<1> QED  BY <1>3, <1>7

-----------------------------------------------------------------------------
(* What the sum is.                                                        *)

LEMMA SumPick ==
    ASSUME NEW f, NEW S, IsFiniteSet(S)
    PROVE  SumFunctionOnSet(f, S) =
             IF S = {} THEN 0
             ELSE f[Pick(S)] + SumFunctionOnSet(f, Rest(S))
<1> DEFINE g == CHOOSE g : IsSum(g, f, S)
           h == CHOOSE h : IsSum(h, f, Rest(S))
<1>1. IsSum(g, f, S)
  BY SumExists
<1>2. SumFunctionOnSet(f, S) = g[S]
  BY SumIsSum
<1>3. g[S] = IF S = {} THEN 0 ELSE f[Pick(S)] + g[Rest(S)]
  BY <1>1 DEF IsSum
<1>4. ASSUME S # {}  PROVE g[Rest(S)] = SumFunctionOnSet(f, Rest(S))
  <2>1. Rest(S) \in SUBSET S
    BY <1>4, PickRest
  <2>2. IsFiniteSet(Rest(S))
    BY <2>1, FS_Subset
  <2>3. IsSum(h, f, Rest(S))
    BY <2>2, SumExists
  <2>4. SumFunctionOnSet(f, Rest(S)) = h[Rest(S)]
    BY SumIsSum
  <2> HIDE DEF g, h
  <2> QED  BY <1>1, <2>1, <2>3, <2>4, SumUnique
<1> QED  BY <1>2, <1>3, <1>4

LEMMA SumEmpty ==
    ASSUME NEW f
    PROVE  SumFunctionOnSet(f, {}) = 0
<1>1. IsFiniteSet({})
  BY FS_EmptySet
<1>2. SumFunctionOnSet(f, {}) =
        IF {} = {} THEN 0 ELSE f[Pick({})] + SumFunctionOnSet(f, Rest({}))
  BY <1>1, SumPick
<1> QED  BY <1>2

(* A sum of integers is an integer. *)
LEMMA SumType ==
    ASSUME NEW f, NEW S, IsFiniteSet(S), \A x \in S : f[x] \in Int
    PROVE  SumFunctionOnSet(f, S) \in Int
<1> DEFINE Bad == {U \in SUBSET S : SumFunctionOnSet(f, U) \notin Int}
<1>1. SUFFICES ASSUME Bad # {} PROVE FALSE
  OBVIOUS
<1>2. PICK T \in Bad : \A U \in SUBSET T : U # T => U \notin Bad
  <2>1. Bad \subseteq SUBSET S  OBVIOUS
  <2> HIDE DEF Bad
  <2> QED  BY <1>1, <2>1, MinimalSubset
<1>3. T \in SUBSET S /\ SumFunctionOnSet(f, T) \notin Int
  OBVIOUS
<1>4. IsFiniteSet(T)
  BY <1>3, FS_Subset
<1>5. T # {}
  <2>1. SumFunctionOnSet(f, {}) \in Int  BY SumEmpty
  <2> QED  BY <1>3, <2>1
<1>6. Pick(T) \in T /\ Rest(T) \in SUBSET T /\ Rest(T) # T
  BY <1>5, PickRest
<1>7. SumFunctionOnSet(f, Rest(T)) \in Int
  BY <1>2, <1>3, <1>6
<1>8. f[Pick(T)] \in Int
  BY <1>3, <1>6
<1>9. SumFunctionOnSet(f, T) = f[Pick(T)] + SumFunctionOnSet(f, Rest(T))
  BY <1>4, <1>5, SumPick
<1> QED  BY <1>3, <1>7, <1>8, <1>9

(* Any element of a set may be summed first. *)
LEMMA SumStep ==
    ASSUME NEW f, NEW S, IsFiniteSet(S), \A x \in S : f[x] \in Int,
           NEW a \in S
    PROVE  SumFunctionOnSet(f, S) = f[a] + SumFunctionOnSet(f, S \ {a})
<1> DEFINE Sum(U) == SumFunctionOnSet(f, U)
           Bad == {U \in SUBSET S : \E b \in U : Sum(U) # f[b] + Sum(U \ {b})}
<1>1. SUFFICES ASSUME Bad # {} PROVE FALSE
  OBVIOUS
<1>2. PICK T \in Bad : \A U \in SUBSET T : U # T => U \notin Bad
  <2>1. Bad \subseteq SUBSET S  OBVIOUS
  <2> HIDE DEF Bad
  <2> QED  BY <1>1, <2>1, MinimalSubset
<1>3. T \in SUBSET S
  OBVIOUS
<1> PICK b \in T : Sum(T) # f[b] + Sum(T \ {b})
  OBVIOUS
<1>4. \A U \in SUBSET S : IsFiniteSet(U)
  BY FS_Subset
<1>5. \A U \in SUBSET S : Sum(U) \in Int
  BY <1>4, SumType
<1> DEFINE p == Pick(T)
<1>6. p \in T /\ Rest(T) = T \ {p} /\ Rest(T) \in SUBSET T
  BY PickRest DEF Rest
<1>7. \A U \in SUBSET S : U # {} => Sum(U) = f[Pick(U)] + Sum(Rest(U))
  BY <1>4, SumPick
<1>8. Sum(T) = f[p] + Sum(T \ {p})
  BY <1>3, <1>6, <1>7
<1>9. p # b
  BY <1>6, <1>8
<1> DEFINE W == T \ {p, b}
<1>10. Sum(T \ {p}) = f[b] + Sum(W)
  <2>1. T \ {p} \in SUBSET T /\ T \ {p} # T /\ b \in T \ {p}
    BY <1>6, <1>9
  <2>2. (T \ {p}) \ {b} = W  OBVIOUS
  <2>3. T \ {p} \notin Bad /\ T \ {p} \in SUBSET S
    BY <1>2, <1>3, <2>1
  <2> QED  BY <2>1, <2>2, <2>3
<1>11. Sum(T \ {b}) = f[p] + Sum(W)
  <2>1. T \ {b} \in SUBSET T /\ T \ {b} # T /\ p \in T \ {b}
    BY <1>6, <1>9
  <2>2. (T \ {b}) \ {p} = W  OBVIOUS
  <2>3. T \ {b} \notin Bad /\ T \ {b} \in SUBSET S
    BY <1>2, <1>3, <2>1
  <2> QED  BY <2>1, <2>2, <2>3
<1>12. f[b] \in Int /\ f[p] \in Int /\ Sum(W) \in Int
  <2>1. W \in SUBSET S  BY <1>3
  <2> QED  BY <1>3, <1>5, <1>6, <2>1
<1> HIDE DEF Sum, W
<1> QED  BY <1>8, <1>10, <1>11, <1>12

(* Summands bounded by the sum of two bound the sum by the two sums.        *)
LEMMA SumPlus ==
    ASSUME NEW f, NEW g, NEW h, NEW S, IsFiniteSet(S),
           \A x \in S : f[x] \in Int /\ g[x] \in Int /\ h[x] \in Int,
           \A x \in S : h[x] <= f[x] + g[x]
    PROVE  SumFunctionOnSet(h, S) <=
             SumFunctionOnSet(f, S) + SumFunctionOnSet(g, S)
<1> DEFINE F(U) == SumFunctionOnSet(f, U)
           G(U) == SumFunctionOnSet(g, U)
           H(U) == SumFunctionOnSet(h, U)
           Bad == {U \in SUBSET S : ~ (H(U) <= F(U) + G(U))}
<1>1. SUFFICES ASSUME Bad # {} PROVE FALSE
  OBVIOUS
<1>2. PICK T \in Bad : \A U \in SUBSET T : U # T => U \notin Bad
  <2>1. Bad \subseteq SUBSET S  OBVIOUS
  <2> HIDE DEF Bad
  <2> QED  BY <1>1, <2>1, MinimalSubset
<1>3. T \in SUBSET S /\ ~ (H(T) <= F(T) + G(T))
  OBVIOUS
<1>4. IsFiniteSet(T)
  BY <1>3, FS_Subset
<1>5. T # {}
  <2>1. F({}) = 0 /\ G({}) = 0 /\ H({}) = 0  BY SumEmpty
  <2> QED  BY <1>3, <2>1
<1> DEFINE p == Pick(T)
           R == Rest(T)
<1>6. p \in T /\ R \in SUBSET T /\ R # T
  BY <1>5, PickRest
<1>7. F(T) = f[p] + F(R) /\ G(T) = g[p] + G(R) /\ H(T) = h[p] + H(R)
  BY <1>4, <1>5, SumPick
<1>8. H(R) <= F(R) + G(R)
  BY <1>2, <1>3, <1>6
<1>9. F(R) \in Int /\ G(R) \in Int /\ H(R) \in Int
  <2>1. IsFiniteSet(R)  BY <1>4, <1>6, FS_Subset
  <2>2. \A x \in R : f[x] \in Int /\ g[x] \in Int /\ h[x] \in Int
    BY <1>3, <1>6
  <2> HIDE DEF R
  <2> QED  BY <2>1, <2>2, SumType
<1>10. /\ f[p] \in Int /\ g[p] \in Int /\ h[p] \in Int
       /\ h[p] <= f[p] + g[p]
  BY <1>3, <1>6
<1> HIDE DEF F, G, H, p, R
<1> QED  BY <1>3, <1>7, <1>8, <1>9, <1>10

(* A sum of naturals is a natural. *)
LEMMA SumNat ==
    ASSUME NEW f, NEW S, IsFiniteSet(S), \A x \in S : f[x] \in Nat
    PROVE  SumFunctionOnSet(f, S) \in Nat
<1> DEFINE Bad == {U \in SUBSET S : SumFunctionOnSet(f, U) \notin Nat}
<1>2. SUFFICES ASSUME Bad # {} PROVE FALSE
  OBVIOUS
<1>3. PICK T \in Bad : \A U \in SUBSET T : U # T => U \notin Bad
  <2>1. Bad \subseteq SUBSET S  OBVIOUS
  <2> HIDE DEF Bad
  <2> QED  BY <1>2, <2>1, MinimalSubset
<1>4. T \in SUBSET S /\ SumFunctionOnSet(f, T) \notin Nat
  OBVIOUS
<1>5. IsFiniteSet(T)
  BY <1>4, FS_Subset
<1>6. T # {}
  <2>1. SumFunctionOnSet(f, {}) \in Nat  BY SumEmpty
  <2> QED  BY <1>4, <2>1
<1>7. Pick(T) \in T /\ Rest(T) \in SUBSET T /\ Rest(T) # T
  BY <1>6, PickRest
<1>8. SumFunctionOnSet(f, Rest(T)) \in Nat
  BY <1>3, <1>4, <1>7
<1>9. SumFunctionOnSet(f, T) = f[Pick(T)] + SumFunctionOnSet(f, Rest(T))
  BY <1>5, <1>6, SumPick
<1>10. f[Pick(T)] \in Nat
  BY <1>4, <1>7
<1> QED  BY <1>4, <1>8, <1>9, <1>10

(* If only the elements of A contribute, and none more than b, the sum is  *)
(* at most b for each of them.                                             *)
LEMMA SumSpread ==
    ASSUME NEW f, NEW S, IsFiniteSet(S), NEW A, NEW b \in Nat,
           \A x \in S : f[x] \in Int,
           \A x \in S : f[x] <= (IF x \in A THEN b ELSE 0)
    PROVE  SumFunctionOnSet(f, S) <= Cardinality(S \cap A) * b
<1> DEFINE F(U) == SumFunctionOnSet(f, U)
           N(U) == Cardinality(U \cap A)
           Bad == {U \in SUBSET S : ~ (F(U) <= N(U) * b)}
<1>1. SUFFICES ASSUME Bad # {} PROVE FALSE
  OBVIOUS
<1>2. PICK T \in Bad : \A U \in SUBSET T : U # T => U \notin Bad
  <2>1. Bad \subseteq SUBSET S  OBVIOUS
  <2> HIDE DEF Bad
  <2> QED  BY <1>1, <2>1, MinimalSubset
<1>3. T \in SUBSET S /\ ~ (F(T) <= N(T) * b)
  OBVIOUS
<1>4. IsFiniteSet(T)
  BY <1>3, FS_Subset
<1>5. T # {}
  <2>1. F({}) = 0  BY SumEmpty
  <2>2. N({}) = 0
    <3>1. {} \cap A = {}  OBVIOUS
    <3> QED  BY <3>1, FS_EmptySet
  <2>3. F({}) <= N({}) * b  BY <2>1, <2>2
  <2> HIDE DEF F, N
  <2> QED  BY <1>3, <2>3
<1> DEFINE p == Pick(T)
           R == Rest(T)
<1>6. p \in T /\ R = T \ {p} /\ R \in SUBSET T /\ R # T
  BY <1>5, PickRest DEF Rest
<1>7. F(T) = f[p] + F(R)
  BY <1>4, <1>5, SumPick
<1>8. F(R) <= N(R) * b
  BY <1>2, <1>3, <1>6
<1>9. IsFiniteSet(T \cap A) /\ IsFiniteSet(R)
  BY <1>4, <1>6, FS_Subset, FS_Intersection
<1>10. N(T) = IF p \in A THEN N(R) + 1 ELSE N(R)
  <2>1. R \cap A = (T \cap A) \ {p}
    BY <1>6
  <2>2. Cardinality((T \cap A) \ {p}) =
          IF p \in T \cap A THEN N(T) - 1 ELSE N(T)
    BY <1>9, FS_RemoveElement
  <2>3. N(T) \in Nat
    BY <1>9, FS_CardinalityType
  <2>4. N(R) = IF p \in A THEN N(T) - 1 ELSE N(T)
    BY <1>6, <2>1, <2>2
  <2> HIDE DEF N, p, R
  <2> QED  BY <2>3, <2>4
<1>11. N(R) \in Nat
  <2>1. IsFiniteSet(R \cap A)  BY <1>9, FS_Intersection
  <2> QED  BY <2>1, FS_CardinalityType
<1>12. F(R) \in Int
  <2>1. \A x \in R : f[x] \in Int  BY <1>3, <1>6
  <2> HIDE DEF R
  <2> QED  BY <1>9, <2>1, SumType
<1>13. f[p] \in Int /\ f[p] <= (IF p \in A THEN b ELSE 0)
  BY <1>3, <1>6
<1> HIDE DEF F, N, p, R
<1>14. CASE p \in A
  <2>1. (N(R) + 1) * b = N(R) * b + b  BY <1>11
  <2>2. N(R) * b \in Int  BY <1>11
  <2> DEFINE m == N(R) * b
  <2>3. N(T) * b = m + b /\ F(R) <= m /\ m \in Int  BY <1>8, <1>10, <1>14, <2>1, <2>2
  <2> HIDE DEF m
  <2> QED  BY <1>3, <1>7, <1>12, <1>13, <1>14, <2>3
<1>15. CASE p \notin A
  <2> DEFINE m == N(R) * b
  <2>1. N(T) * b = m /\ F(R) <= m /\ m \in Int  BY <1>8, <1>10, <1>11, <1>15
  <2> HIDE DEF m
  <2> QED  BY <1>3, <1>7, <1>12, <1>13, <1>15, <2>1
<1> QED  BY <1>14, <1>15

LEMMA SumMonotone ==
    ASSUME NEW f, NEW h, NEW S, IsFiniteSet(S),
           \A x \in S : f[x] \in Int /\ h[x] \in Int /\ h[x] <= f[x]
    PROVE  SumFunctionOnSet(h, S) <= SumFunctionOnSet(f, S)
<1> DEFINE z == [x \in S |-> 0]
<1>1. \A x \in S : z[x] \in Int /\ z[x] <= (IF x \in {} THEN 0 ELSE 0)
  OBVIOUS
<1>2. \A x \in S : h[x] <= f[x] + z[x]
  OBVIOUS
<1> HIDE DEF z
<1>3. SumFunctionOnSet(z, S) <= Cardinality(S \cap {}) * 0
  BY <1>1, SumSpread
<1>4. Cardinality(S \cap {}) = 0
  <2>1. S \cap {} = {}  OBVIOUS
  <2> QED  BY <2>1, FS_EmptySet
<1>5. SumFunctionOnSet(h, S) <= SumFunctionOnSet(f, S) + SumFunctionOnSet(z, S)
  BY <1>1, <1>2, SumPlus
<1>6. /\ SumFunctionOnSet(h, S) \in Int
      /\ SumFunctionOnSet(f, S) \in Int
      /\ SumFunctionOnSet(z, S) \in Int
  BY <1>1, SumType
<1> QED  BY <1>3, <1>4, <1>5, <1>6

LEMMA SumEqual ==
    ASSUME NEW f, NEW h, NEW S, IsFiniteSet(S), \A x \in S : f[x] \in Int /\ h[x] = f[x]
    PROVE  SumFunctionOnSet(h, S) = SumFunctionOnSet(f, S)
<1>1. SumFunctionOnSet(h, S) <= SumFunctionOnSet(f, S)  BY SumMonotone
<1>2. SumFunctionOnSet(f, S) <= SumFunctionOnSet(h, S)  BY SumMonotone
<1>3. SumFunctionOnSet(f, S) \in Int /\ SumFunctionOnSet(h, S) \in Int  BY SumType
<1> QED  BY <1>1, <1>2, <1>3

(* The sum over two disjoint sets is the sum of the sums. *)
LEMMA SumUnion ==
    ASSUME NEW f, NEW S, NEW T, IsFiniteSet(S), IsFiniteSet(T), S \cap T = {},
           \A x \in S \cup T : f[x] \in Int
    PROVE  SumFunctionOnSet(f, S \cup T) =
               SumFunctionOnSet(f, S) + SumFunctionOnSet(f, T)
<1> DEFINE F(U) == SumFunctionOnSet(f, U)
           Bad == {U \in SUBSET S : F(U \cup T) # F(U) + F(T)}
<1>1. SUFFICES ASSUME Bad # {} PROVE FALSE
  OBVIOUS
<1>2. PICK U \in Bad : \A V \in SUBSET U : V # U => V \notin Bad
  <2>1. Bad \subseteq SUBSET S  OBVIOUS
  <2> HIDE DEF Bad
  <2> QED  BY <1>1, <2>1, MinimalSubset
<1>3. U \in SUBSET S /\ F(U \cup T) # F(U) + F(T)
  OBVIOUS
<1>4. IsFiniteSet(U) /\ IsFiniteSet(U \cup T)
  BY <1>3, FS_Subset, FS_Union
<1>5. U # {}
  <2> SUFFICES ASSUME U = {} PROVE FALSE
    OBVIOUS
  <2>1. F(U) = 0 /\ F(T) \in Int
    BY SumEmpty, SumType
  <2>2. U \cup T = T  OBVIOUS
  <2> HIDE DEF F
  <2> QED  BY <1>3, <2>1, <2>2
<1>6. PICK a \in U : TRUE
  BY <1>5
<1> DEFINE V == U \ {a}
<1>7. F(V \cup T) = F(V) + F(T)
  BY <1>2, <1>3, <1>6
<1>8. (U \cup T) \ {a} = V \cup T
  BY <1>3, <1>6
<1>9. F(U \cup T) = f[a] + F(V \cup T)
  <2>1. \A x \in U \cup T : f[x] \in Int
    BY <1>3
  <2>2. F(U \cup T) = f[a] + F((U \cup T) \ {a})
    BY <1>4, <1>6, <2>1, SumStep
  <2> QED  BY <1>8, <2>2
<1>10. F(U) = f[a] + F(V)
  <2>1. \A x \in U : f[x] \in Int
    BY <1>3
  <2> QED  BY <1>4, <1>6, <2>1, SumStep
<1>11. f[a] \in Int /\ F(V) \in Int /\ F(T) \in Int
  <2>1. IsFiniteSet(V) /\ \A x \in V : f[x] \in Int
    BY <1>3, <1>4, FS_Subset
  <2> QED  BY <1>3, <1>6, <2>1, SumType
<1> HIDE DEF F, V
<1> QED  BY <1>3, <1>7, <1>9, <1>10, <1>11

(* A finite set has a last member in any total transitive order. *)
LEMMA LastInOrder ==
    ASSUME NEW T, IsFiniteSet(T), T # {}, NEW R,
           \A x, y \in T : x = y \/ <<x, y>> \in R \/ <<y, x>> \in R,
           \A x, y, z \in T : <<x, y>> \in R /\ <<y, z>> \in R => <<x, z>> \in R
    PROVE  \E m \in T : \A x \in T : x = m \/ <<x, m>> \in R
<1> DEFINE Bad == {U \in SUBSET T :
                      U # {} /\ ~ \E m \in U : \A x \in U : x = m \/ <<x, m>> \in R}
<1>1. SUFFICES ASSUME Bad # {} PROVE FALSE
  OBVIOUS
<1>2. PICK U \in Bad : \A V \in SUBSET U : V # U => V \notin Bad
  <2>1. Bad \subseteq SUBSET T  OBVIOUS
  <2> HIDE DEF Bad
  <2> QED  BY <1>1, <2>1, MinimalSubset
<1>3. /\ U \in SUBSET T /\ U # {}
      /\ ~ \E m \in U : \A x \in U : x = m \/ <<x, m>> \in R
  OBVIOUS
<1>4. PICK a \in U : TRUE
  BY <1>3
<1>5. U \ {a} # {}
  <2> SUFFICES ASSUME U \ {a} = {} PROVE FALSE
    OBVIOUS
  <2>1. \A x \in U : x = a  OBVIOUS
  <2> QED  BY <1>3, <1>4, <2>1
<1>6. PICK m \in U \ {a} : \A x \in U \ {a} : x = m \/ <<x, m>> \in R
  <2> DEFINE V == U \ {a}
  <2>1. V \in SUBSET U /\ V # U /\ V \in SUBSET T
    BY <1>3, <1>4
  <2>2. V \notin Bad
    BY <1>2, <2>1
  <2>3. \E m \in V : \A x \in V : x = m \/ <<x, m>> \in R
    <3> HIDE DEF V
    <3> QED  BY <1>5, <2>1, <2>2 DEF V
  <2> QED  BY <2>3
<1>7. CASE <<a, m>> \in R
  BY <1>3, <1>6, <1>7
<1>8. CASE <<m, a>> \in R
  <2>1. \A x \in U : x = a \/ <<x, a>> \in R
    BY <1>3, <1>4, <1>6, <1>8
  <2> QED  BY <1>3, <1>4, <2>1
<1> QED  BY <1>3, <1>4, <1>6, <1>7, <1>8

(* Whole-number division. *)
LEMMA Division ==
    ASSUME NEW a \in Nat, NEW d \in Nat \ {0}
    PROVE  /\ a \div d \in Nat
           /\ (a \div d) * d <= a
           /\ \A q \in Nat : q * d <= a => q <= a \div d
<1>1. a \div d \in Nat /\ (a \div d) * d <= a /\ a < (a \div d) * d + d
  OBVIOUS
<1>2. ASSUME NEW q \in Nat, q * d <= a, q > a \div d  PROVE FALSE
  <2> DEFINE e == a \div d
  <2>1. e \in Nat /\ a < e * d + d  BY <1>1
  <2>2. q >= e + 1  BY <1>2, <2>1
  <2> HIDE DEF e
  <2>3. PICK r \in Nat : q = e + 1 + r  BY <2>1, <2>2
  <2>4. q * d = e * d + d + r * d  BY <2>1, <2>3
  <2>5. r * d \in Nat /\ e * d \in Nat  BY <2>1
  <2> QED  BY <1>2, <2>1, <2>4, <2>5
<1> QED  BY <1>1, <1>2
=============================================================================
