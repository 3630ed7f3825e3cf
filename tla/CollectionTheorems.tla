--------------------------- MODULE CollectionTheorems --------------------------
(***************************************************************************)
(* Facts about sums and sorted lists over finite sets, which the model     *)
(* adds samples, series, cores and costs up with and makes its reports of. *)
(* A sum is defined by recursion over the subsets of its index set; what   *)
(* holds of every sum is proved by looking at a smallest set of which it   *)
(* would not hold (MinimalSubset), so that no induction principle with an  *)
(* operator parameter is needed.                                           *)
(***************************************************************************)
EXTENDS Ordering, Functions, FiniteSetsExt, FiniteSetTheorems, WellFoundedInduction, TLAPS

(* The element the recursion takes out first.                             *)
Pick(s) == CHOOSE x \in s : TRUE

(* The recursion SumFunctionOnSet is defined by.                           *)
IsSum(g, f, S) ==
    g = [s \in SUBSET S |-> IF s = {} THEN 0 ELSE f[Pick(s)] + g[s \ {Pick(s)}]]

(* A sum is the value at S of the function its recursion describes.        *)
LEMMA SumUnfolds == \A f, S : SumFunctionOnSet(f, S) = (CHOOSE g : IsSum(g, f, S))[S]
BY DEF SumFunctionOnSet, FoldFunctionOnSet, MapThenFoldSet, IsSum, Pick

(* Among the subsets of a finite set that have some property (that are in  *)
(* B) there is one none of whose own proper subsets has it.                *)
LEMMA MinimalSubset ==
  ASSUME NEW S, IsFiniteSet(S), NEW B, B \subseteq SUBSET S, B # {}
  PROVE  \E V \in B : \A W \in SUBSET V : W # V => W \notin B
<1>1. FiniteSubsetsOf(S) = SUBSET S
  BY FS_FiniteSubsetsOfFinite
<1>2. IsWellFoundedOn(StrictSubsetOrdering(S), SUBSET S)
  BY <1>1, FS_StrictSubsetOrderingWellFounded
<1>3. PICK V \in B : \A W \in B : <<W, V>> \notin StrictSubsetOrdering(S)
  BY <1>2, WFMin
<1>4. \A W \in SUBSET V : W # V => W \notin B
  BY <1>3 DEF StrictSubsetOrdering
<1>5. QED
  BY <1>4

(* Two functions that satisfy the recursion agree wherever both are        *)
(* defined.                                                                *)
LEMMA SumUnique ==
  ASSUME NEW f, NEW g, NEW h, NEW S, NEW T, IsSum(g, f, S), IsSum(h, f, T),
         NEW U, IsFiniteSet(U), U \subseteq S, U \subseteq T
  PROVE  g[U] = h[U]
<1> DEFINE B == {V \in SUBSET U : g[V] # h[V]}
<1> SUFFICES ASSUME B # {} PROVE FALSE
  OBVIOUS
<1>0a. B \subseteq SUBSET U
  OBVIOUS
<1>1. PICK V \in B : \A W \in SUBSET V : W # V => W \notin B
  <2> HIDE DEF B
  <2>1. QED
    BY <1>0a, MinimalSubset
<1>2. CASE V = {}
  BY <1>1, <1>2 DEF IsSum
<1>3. CASE V # {}
  <2>1. Pick(V) \in V
    BY <1>3 DEF Pick
  <2> DEFINE W == V \ {Pick(V)}
  <2>2. W \in SUBSET V /\ W # V /\ W \in SUBSET S /\ W \in SUBSET T /\ W \in SUBSET U
    BY <2>1
  <2>3. g[W] = h[W]
    BY <1>1, <2>2
  <2>4. g[V] = f[Pick(V)] + g[W] /\ h[V] = f[Pick(V)] + h[W]
    BY <1>3 DEF IsSum
  <2>5. QED
    BY <2>3, <2>4
<1>4. QED
  BY <1>2, <1>3

(* The recursion has a solution over every finite set.                     *)
LEMMA SumExists ==
  ASSUME NEW f, NEW S, IsFiniteSet(S)
  PROVE  \E g : IsSum(g, f, S)
<1> DEFINE B == {V \in SUBSET S : ~ \E g : IsSum(g, f, V)}
<1> SUFFICES ASSUME B # {} PROVE FALSE
  OBVIOUS
<1>0a. B \subseteq SUBSET S
  OBVIOUS
<1>1. PICK V \in B : \A W \in SUBSET V : W # V => W \notin B
  <2> HIDE DEF B
  <2>1. QED
    BY <1>0a, MinimalSubset
<1> DEFINE Sub(W) == CHOOSE g : IsSum(g, f, W)
           G == [s \in SUBSET V |-> IF s = {} THEN 0 ELSE f[Pick(s)] + Sub(s \ {Pick(s)})[s \ {Pick(s)}]]
<1>2. \A W \in SUBSET V : W # V => IsSum(Sub(W), f, W)
  BY <1>1
<1>3. ASSUME NEW s \in SUBSET V, s # {}
      PROVE  G[s \ {Pick(s)}] = Sub(s \ {Pick(s)})[s \ {Pick(s)}]
  <2> DEFINE w == s \ {Pick(s)}
  <2>1. w \in SUBSET V /\ w # V
    BY <1>3 DEF Pick
  <2>2. IsSum(Sub(w), f, w)
    BY <1>2, <2>1
  <2>3. CASE w = {}
    BY <2>2, <2>3 DEF IsSum
  <2>4. CASE w # {}
    <3> DEFINE v == w \ {Pick(w)}
    <3>1. v \in SUBSET V /\ v # V /\ v \in SUBSET w
      BY <2>1
    <3>2. IsSum(Sub(v), f, v)
      BY <1>2, <3>1
    <3>3. IsFiniteSet(v)
      BY <3>1, FS_Subset
    <3>4. Sub(v)[v] = Sub(w)[v]
      <4> HIDE DEF Sub, v, w
      <4>1. QED
        BY <2>2, <3>1, <3>2, <3>3, SumUnique
    <3>5. G[w] = f[Pick(w)] + Sub(v)[v]
      BY <2>1, <2>4
    <3>6. Sub(w)[w] = f[Pick(w)] + Sub(w)[v]
      <4> HIDE DEF Sub
      <4>1. QED
        BY <2>2, <2>4 DEF IsSum
    <3>7. QED
      BY <3>4, <3>5, <3>6
  <2>5. QED
    BY <2>3, <2>4
<1>4. IsSum(G, f, V)
  <2>1. \A s \in SUBSET V : s # {} => G[s] = f[Pick(s)] + G[s \ {Pick(s)}]
    BY <1>3
  <2>2. G = [s \in SUBSET V |-> G[s]] /\ G[{}] = 0
    OBVIOUS
  <2> HIDE DEF G
  <2>3. \A s \in SUBSET V : G[s] = IF s = {} THEN 0 ELSE f[Pick(s)] + G[s \ {Pick(s)}]
    BY <2>1, <2>2
  <2>4. QED
    BY <2>2, <2>3 DEF IsSum
<1>5. QED
  <2> HIDE DEF G
  <2>1. QED
    BY <1>1, <1>4

(* Any solution gives the sums over all subsets.                           *)
LEMMA SumIs ==
  ASSUME NEW f, NEW S, IsFiniteSet(S), NEW g, IsSum(g, f, S)
  PROVE  \A T \in SUBSET S : SumFunctionOnSet(f, T) = g[T]
<1> SUFFICES ASSUME NEW T \in SUBSET S PROVE SumFunctionOnSet(f, T) = g[T]
  OBVIOUS
<1>1. IsFiniteSet(T)
  BY FS_Subset
<1> DEFINE h == CHOOSE h : IsSum(h, f, T)
<1>2. IsSum(h, f, T)
  BY <1>1, SumExists
<1>3. SumFunctionOnSet(f, T) = h[T]
  BY SumUnfolds
<1> HIDE DEF h
<1>4. QED
  BY <1>1, <1>2, <1>3, SumUnique

(* The sum over nothing is zero.                                           *)
LEMMA SumEmpty == \A f : SumFunctionOnSet(f, {}) = 0
<1> SUFFICES ASSUME NEW f PROVE SumFunctionOnSet(f, {}) = 0
  OBVIOUS
<1>1. IsFiniteSet({})
  BY FS_EmptySet
<1>2. PICK g : IsSum(g, f, {})
  BY <1>1, SumExists
<1>3. g[{}] = 0
  BY <1>2 DEF IsSum
<1>4. QED
  BY <1>1, <1>2, <1>3, SumIs

(* The recursion, on the sums themselves.                                  *)
LEMMA SumPick ==
  ASSUME NEW f, NEW S, IsFiniteSet(S), S # {}
  PROVE  /\ Pick(S) \in S
         /\ SumFunctionOnSet(f, S) = f[Pick(S)] + SumFunctionOnSet(f, S \ {Pick(S)})
<1>1. PICK g : IsSum(g, f, S)
  BY SumExists
<1>2. g[S] = f[Pick(S)] + g[S \ {Pick(S)}]
  BY <1>1 DEF IsSum
<1>3. QED
  BY <1>1, <1>2, SumIs DEF Pick

(* A sum of integers is an integer.                                        *)
LEMMA SumType ==
  ASSUME NEW f, NEW S, IsFiniteSet(S), \A x \in S : f[x] \in Int
  PROVE  SumFunctionOnSet(f, S) \in Int
<1> DEFINE B == {V \in SUBSET S : SumFunctionOnSet(f, V) \notin Int}
<1> SUFFICES ASSUME B # {} PROVE FALSE
  OBVIOUS
<1>0a. B \subseteq SUBSET S
  OBVIOUS
<1>1. PICK V \in B : \A W \in SUBSET V : W # V => W \notin B
  <2> HIDE DEF B
  <2>1. QED
    BY <1>0a, MinimalSubset
<1>2. V # {}
  BY SumEmpty
<1>3. IsFiniteSet(V)
  BY FS_Subset
<1>4. Pick(V) \in V /\ SumFunctionOnSet(f, V) = f[Pick(V)] + SumFunctionOnSet(f, V \ {Pick(V)})
  BY <1>2, <1>3, SumPick
<1>5. SumFunctionOnSet(f, V \ {Pick(V)}) \in Int
  BY <1>1, <1>4
<1>6. QED
  BY <1>4, <1>5

(* Any element, not only the one the recursion picks, can be taken out     *)
(* first.                                                                  *)
LEMMA SumRemove ==
  ASSUME NEW f, NEW S, IsFiniteSet(S), \A x \in S : f[x] \in Int, NEW x \in S
  PROVE  SumFunctionOnSet(f, S) = f[x] + SumFunctionOnSet(f, S \ {x})
<1> DEFINE Sum(V) == SumFunctionOnSet(f, V)
           B == {V \in SUBSET S : \E y \in V : Sum(V) # f[y] + Sum(V \ {y})}
<1>0. \A V \in SUBSET S : Sum(V) \in Int /\ IsFiniteSet(V)
  BY SumType, FS_Subset
<1> SUFFICES ASSUME B # {} PROVE FALSE
  OBVIOUS
<1>0a. B \subseteq SUBSET S
  OBVIOUS
<1>1. PICK V \in B : \A W \in SUBSET V : W # V => W \notin B
  <2> HIDE DEF B
  <2>1. QED
    BY <1>0a, MinimalSubset
<1>2. PICK y \in V : Sum(V) # f[y] + Sum(V \ {y})
  BY <1>1
<1> DEFINE p == Pick(V)
           V1 == V \ {p}
           V2 == V \ {y}
           V3 == V1 \ {y}
<1>3. p \in V /\ Sum(V) = f[p] + Sum(V1)
  BY <1>0, <1>1, <1>2, SumPick
<1> HIDE DEF Sum, p
<1>4. y # p
  BY <1>2, <1>3
<1>5. Sum(V1) = f[y] + Sum(V3)
  BY <1>1, <1>2, <1>3, <1>4
<1>6. Sum(V2) = f[p] + Sum(V2 \ {p})
  BY <1>1, <1>2, <1>3, <1>4
<1>7. V2 \ {p} = V3
  OBVIOUS
<1>8. f[p] \in Int /\ f[y] \in Int /\ Sum(V3) \in Int
  BY <1>0, <1>1, <1>2, <1>3
<1>9. QED
  BY <1>2, <1>3, <1>5, <1>6, <1>7, <1>8

(* Functions that agree on the index set have the same sum over it.        *)
LEMMA SumAgree ==
  ASSUME NEW f, NEW g, NEW S, IsFiniteSet(S), \A x \in S : f[x] = g[x]
  PROVE  SumFunctionOnSet(f, S) = SumFunctionOnSet(g, S)
<1> DEFINE B == {V \in SUBSET S : SumFunctionOnSet(f, V) # SumFunctionOnSet(g, V)}
<1> SUFFICES ASSUME B # {} PROVE FALSE
  OBVIOUS
<1>0. B \subseteq SUBSET S
  OBVIOUS
<1>1. PICK V \in B : \A W \in SUBSET V : W # V => W \notin B
  <2> HIDE DEF B
  <2>1. QED
    BY <1>0, MinimalSubset
<1>2. V # {}
  BY SumEmpty
<1>3. IsFiniteSet(V)
  BY FS_Subset
<1>4. /\ Pick(V) \in V
      /\ SumFunctionOnSet(f, V) = f[Pick(V)] + SumFunctionOnSet(f, V \ {Pick(V)})
      /\ SumFunctionOnSet(g, V) = g[Pick(V)] + SumFunctionOnSet(g, V \ {Pick(V)})
  BY <1>2, <1>3, SumPick
<1>5. SumFunctionOnSet(f, V \ {Pick(V)}) = SumFunctionOnSet(g, V \ {Pick(V)})
  BY <1>1, <1>4
<1>6. QED
  BY <1>1, <1>4, <1>5

(* The sum of a function written down for its index set alone (SizeOfAll   *)
(* in PushAll has this form).                                              *)
LEMMA SumOfFunction ==
  ASSUME NEW f, NEW S, IsFiniteSet(S)
  PROVE  SumFunction([x \in S |-> f[x]]) = SumFunctionOnSet(f, S)
<1> DEFINE g == [x \in S |-> f[x]]
<1>1. SumFunction(g) = SumFunctionOnSet(g, S)
  BY DEF SumFunction
<1>2. \A x \in S : g[x] = f[x]
  OBVIOUS
<1> HIDE DEF g
<1>3. SumFunctionOnSet(g, S) = SumFunctionOnSet(f, S)
  BY <1>2, SumAgree
<1>4. QED
  BY <1>1, <1>3 DEF g

(* One more element adds its value.                                        *)
LEMMA SumAdd ==
  ASSUME NEW f, NEW S, IsFiniteSet(S), \A y \in S : f[y] \in Int,
         NEW x, x \notin S, f[x] \in Int
  PROVE  SumFunctionOnSet(f, S \cup {x}) = SumFunctionOnSet(f, S) + f[x]
<1>1. IsFiniteSet(S \cup {x})
  BY FS_AddElement
<1>2. (S \cup {x}) \ {x} = S
  OBVIOUS
<1>3. SumFunctionOnSet(f, S \cup {x}) = f[x] + SumFunctionOnSet(f, (S \cup {x}) \ {x})
  <2>1. \A y \in S \cup {x} : f[y] \in Int
    OBVIOUS
  <2>2. x \in S \cup {x}
    OBVIOUS
  <2>3. QED
    BY <1>1, <2>1, <2>2, SumRemove
<1>4. SumFunctionOnSet(f, S) \in Int
  BY SumType
<1>5. SumFunctionOnSet(f, S \cup {x}) = f[x] + SumFunctionOnSet(f, S)
  BY <1>2, <1>3
<1>6. QED
  BY <1>4, <1>5

(* A sum is the sum over a part and the sum over the rest: sent and failed *)
(* make up all samples (pushAll).                                          *)
LEMMA SumSplit ==
  ASSUME NEW f, NEW S, IsFiniteSet(S), \A x \in S : f[x] \in Int, NEW T \in SUBSET S
  PROVE  SumFunctionOnSet(f, S) = SumFunctionOnSet(f, T) + SumFunctionOnSet(f, S \ T)
<1> DEFINE Sum(V) == SumFunctionOnSet(f, V)
           B == {V \in SUBSET S : Sum(S) # Sum(V) + Sum(S \ V)}
<1>0. \A V \in SUBSET S : Sum(V) \in Int /\ IsFiniteSet(V)
  BY SumType, FS_Subset
<1> SUFFICES ASSUME B # {} PROVE FALSE
  OBVIOUS
<1>0a. B \subseteq SUBSET S
  OBVIOUS
<1>1. PICK V \in B : \A W \in SUBSET V : W # V => W \notin B
  <2> HIDE DEF B
  <2>1. QED
    BY <1>0a, MinimalSubset
<1>2. V # {}
  <2>1. Sum({}) = 0 /\ S \ {} = S /\ Sum(S) \in Int
    BY <1>0, SumEmpty
  <2> HIDE DEF Sum
  <2>2. Sum(S) = Sum({}) + Sum(S \ {})
    BY <2>1
  <2>3. QED
    BY <1>1, <2>2
<1>3. PICK y \in V : TRUE
  BY <1>2
<1> DEFINE W == V \ {y}
<1>4. W \in SUBSET V /\ W # V /\ W \in SUBSET S /\ V \in SUBSET S /\ y \in S \ W
  OBVIOUS
<1>5. Sum(S) = Sum(W) + Sum(S \ W)
  BY <1>1, <1>4
<1>6. Sum(V) = f[y] + Sum(W)
  BY <1>0, <1>4, SumRemove
<1>7. Sum(S \ W) = f[y] + Sum(S \ V)
  <2>1. (S \ W) \ {y} = S \ V
    OBVIOUS
  <2>2. IsFiniteSet(S \ W) /\ \A x \in S \ W : f[x] \in Int
    BY <1>0
  <2>3. SumFunctionOnSet(f, S \ W) = f[y] + SumFunctionOnSet(f, (S \ W) \ {y})
    BY <1>4, <2>2, SumRemove
  <2>4. QED
    BY <2>1, <2>3
<1>8. f[y] \in Int /\ Sum(S) \in Int /\ Sum(V) \in Int /\ Sum(W) \in Int /\ Sum(S \ V) \in Int /\ Sum(S \ W) \in Int
  <2>1. S \ W \in SUBSET S /\ S \ V \in SUBSET S /\ S \in SUBSET S
    OBVIOUS
  <2>2. QED
    BY <1>0, <1>4, <2>1
<1>9. Sum(S) # Sum(V) + Sum(S \ V)
  BY <1>1
<1> HIDE DEF Sum, W
<1>10. QED
  BY <1>5, <1>6, <1>7, <1>8, <1>9

(* The sizes of disjoint sets add up to the size of their union: the       *)
(* batches of a tick carry every series once (pushAll).                    *)
LEMMA SumOfCardinalities ==
  ASSUME NEW P, NEW S, IsFiniteSet(S), \A x \in S : IsFiniteSet(P[x]),
         \A x, y \in S : x # y => P[x] \cap P[y] = {}
  PROVE  LET c == [x \in S |-> Cardinality(P[x])]
         IN  /\ IsFiniteSet(UNION {P[x] : x \in S})
             /\ SumFunctionOnSet(c, S) = Cardinality(UNION {P[x] : x \in S})
<1> DEFINE c == [x \in S |-> Cardinality(P[x])]
           All(V) == UNION {P[x] : x \in V}
           B == {V \in SUBSET S : ~ (IsFiniteSet(All(V)) /\ SumFunctionOnSet(c, V) = Cardinality(All(V)))}
<1>0. \A x \in S : c[x] \in Int
  BY FS_CardinalityType
<1> SUFFICES ASSUME B # {} PROVE FALSE
  OBVIOUS
<1>0a. B \subseteq SUBSET S
  OBVIOUS
<1>1. PICK V \in B : \A W \in SUBSET V : W # V => W \notin B
  <2> HIDE DEF B
  <2>1. QED
    BY <1>0a, MinimalSubset
<1>2. V # {}
  <2>1. All({}) = {}
    OBVIOUS
  <2>2. QED
    BY <1>1, <2>1, SumEmpty, FS_EmptySet
<1>3. PICK y \in V : TRUE
  BY <1>2
<1> DEFINE W == V \ {y}
<1>4. W \in SUBSET V /\ W # V /\ W \in SUBSET S /\ V \in SUBSET S /\ y \in S /\ IsFiniteSet(V) /\ IsFiniteSet(W)
  BY FS_Subset
<1>5. IsFiniteSet(All(W)) /\ SumFunctionOnSet(c, W) = Cardinality(All(W))
  BY <1>1, <1>4
<1>6. All(V) = All(W) \cup P[y] /\ All(W) \cap P[y] = {}
  OBVIOUS
<1>7. IsFiniteSet(P[y]) /\ c[y] = Cardinality(P[y])
  BY <1>4
<1>8. /\ IsFiniteSet(All(V))
      /\ Cardinality(All(V)) = Cardinality(All(W)) + Cardinality(P[y]) - Cardinality(All(W) \cap P[y])
  <2>1. PICK R : R = All(W)
    OBVIOUS
  <2>2. IsFiniteSet(R)
    BY <1>5, <2>1
  <2>3. /\ IsFiniteSet(R \cup P[y])
        /\ Cardinality(R \cup P[y]) = Cardinality(R) + Cardinality(P[y]) - Cardinality(R \cap P[y])
    BY <1>7, <2>2, FS_Union
  <2>4. QED
    BY <1>6, <2>1, <2>3
<1>9. SumFunctionOnSet(c, V) = c[y] + SumFunctionOnSet(c, W)
  <2> HIDE DEF c
  <2>1. QED
    BY <1>0, <1>4, SumRemove
<1>10. Cardinality(All(W) \cap P[y]) = 0 /\ Cardinality(All(W)) \in Nat /\ Cardinality(P[y]) \in Nat
  <2> HIDE DEF All
  <2>1. QED
    BY <1>5, <1>6, <1>7, FS_EmptySet, FS_CardinalityType
<1>11. SumFunctionOnSet(c, V) = Cardinality(All(V))
  <2> HIDE DEF All, c, W
  <2>1. QED
    BY <1>5, <1>7, <1>8, <1>9, <1>10
<1>12. QED
  BY <1>1, <1>8, <1>11

(* Renaming the indices one to one does not change a sum: the rules of all *)
(* groups and their record: names (RuleTruth).                             *)
LEMMA SumReindex ==
  ASSUME NEW f, NEW g, NEW h, NEW S, IsFiniteSet(S), \A x \in S : f[x] \in Int,
         \A x \in S : g[h[x]] = f[x], \A x, y \in S : h[x] = h[y] => x = y
  PROVE  /\ IsFiniteSet({h[x] : x \in S})
         /\ SumFunctionOnSet(g, {h[x] : x \in S}) = SumFunctionOnSet(f, S)
<1> DEFINE Im(V) == {h[x] : x \in V}
           B == {V \in SUBSET S : ~ (IsFiniteSet(Im(V)) /\ SumFunctionOnSet(g, Im(V)) = SumFunctionOnSet(f, V))}
<1> SUFFICES ASSUME B # {} PROVE FALSE
  OBVIOUS
<1>0a. B \subseteq SUBSET S
  OBVIOUS
<1>1. PICK V \in B : \A W \in SUBSET V : W # V => W \notin B
  <2> HIDE DEF B
  <2>1. QED
    BY <1>0a, MinimalSubset
<1>2. V # {}
  <2>1. Im({}) = {}
    OBVIOUS
  <2>2. QED
    BY <1>1, <2>1, SumEmpty, FS_EmptySet
<1>3. PICK y \in V : TRUE
  BY <1>2
<1> DEFINE W == V \ {y}
<1>4. W \in SUBSET V /\ W # V /\ W \in SUBSET S /\ V \in SUBSET S /\ y \in S /\ IsFiniteSet(V) /\ IsFiniteSet(W)
  BY FS_Subset
<1>5. PICK R : R = Im(W)
  OBVIOUS
<1>6. IsFiniteSet(R) /\ SumFunctionOnSet(g, R) = SumFunctionOnSet(f, W)
  BY <1>1, <1>4, <1>5
<1>7. Im(V) = R \cup {h[y]} /\ h[y] \notin R
  BY <1>4, <1>5
<1>8. IsFiniteSet(R \cup {h[y]})
  BY <1>6, FS_AddElement
<1>9. SumFunctionOnSet(g, R \cup {h[y]}) = SumFunctionOnSet(g, R) + g[h[y]]
  <2>1. \A z \in R : g[z] \in Int
    BY <1>4, <1>5
  <2>2. g[h[y]] \in Int
    BY <1>4
  <2>3. QED
    BY <1>6, <1>7, <2>1, <2>2, SumAdd
<1>10. SumFunctionOnSet(f, V) = f[y] + SumFunctionOnSet(f, W)
  <2>1. \A x \in V : f[x] \in Int
    BY <1>4
  <2>2. QED
    BY <1>4, <2>1, SumRemove
<1>11. g[h[y]] = f[y] /\ f[y] \in Int /\ SumFunctionOnSet(f, W) \in Int
  <2>1. \A x \in W : f[x] \in Int
    BY <1>4
  <2>2. QED
    BY <1>4, <2>1, SumType
<1>12. SumFunctionOnSet(g, Im(V)) = SumFunctionOnSet(f, V)
  <2> HIDE DEF W, Im
  <2>1. QED
    BY <1>6, <1>7, <1>9, <1>10, <1>11
<1>13. QED
  BY <1>1, <1>7, <1>8, <1>12

(* A sum of positive numbers is positive unless there are none of them.    *)
LEMMA SumPositive ==
  ASSUME NEW f, NEW S, IsFiniteSet(S), S # {}, \A x \in S : f[x] \in Int /\ f[x] > 0
  PROVE  SumFunctionOnSet(f, S) > 0
<1> DEFINE B == {V \in SUBSET S : V # {} /\ ~ (SumFunctionOnSet(f, V) > 0)}
<1> SUFFICES ASSUME B # {} PROVE FALSE
  OBVIOUS
<1>0. B \subseteq SUBSET S
  OBVIOUS
<1>1. PICK V \in B : \A W \in SUBSET V : W # V => W \notin B
  <2> HIDE DEF B
  <2>1. QED
    BY <1>0, MinimalSubset
<1> DEFINE W == V \ {Pick(V)}
<1>2. IsFiniteSet(V) /\ IsFiniteSet(W)
  BY FS_Subset
<1>3. Pick(V) \in V /\ SumFunctionOnSet(f, V) = f[Pick(V)] + SumFunctionOnSet(f, W)
  BY <1>2, SumPick
<1>4. SumFunctionOnSet(f, W) \in Int
  BY <1>2, SumType
<1>5. W = {} \/ SumFunctionOnSet(f, W) > 0
  BY <1>1, <1>3
<1>6. f[Pick(V)] \in Int /\ f[Pick(V)] > 0
  BY <1>3
<1>7. CASE W = {}
  <2>1. SumFunctionOnSet(f, W) = 0
    BY <1>7, SumEmpty
  <2>2. QED
    BY <1>1, <1>3, <1>6, <2>1
<1>8. CASE SumFunctionOnSet(f, W) > 0
  BY <1>1, <1>3, <1>4, <1>6, <1>8
<1>9. QED
  BY <1>5, <1>7, <1>8

(* The sum of sums, term by term.                                          *)
LEMMA SumPlus ==
  ASSUME NEW f, NEW g, NEW h, NEW S, IsFiniteSet(S),
         \A x \in S : f[x] \in Int /\ g[x] \in Int /\ h[x] = f[x] + g[x]
  PROVE  SumFunctionOnSet(h, S) = SumFunctionOnSet(f, S) + SumFunctionOnSet(g, S)
<1> DEFINE F(V) == SumFunctionOnSet(f, V)
           G(V) == SumFunctionOnSet(g, V)
           H(V) == SumFunctionOnSet(h, V)
           B == {V \in SUBSET S : H(V) # F(V) + G(V)}
<1> SUFFICES ASSUME B # {} PROVE FALSE
  OBVIOUS
<1>0. B \subseteq SUBSET S
  OBVIOUS
<1>1. PICK V \in B : \A W \in SUBSET V : W # V => W \notin B
  <2> HIDE DEF B
  <2>1. QED
    BY <1>0, MinimalSubset
<1>2. V # {}
  <2>1. H({}) = 0 /\ F({}) = 0 /\ G({}) = 0
    BY SumEmpty
  <2> HIDE DEF F, G, H
  <2>2. H({}) = F({}) + G({})
    BY <2>1
  <2>3. QED
    BY <1>1, <2>2
<1> DEFINE p == Pick(V)
           W == V \ {p}
<1>3. IsFiniteSet(V) /\ IsFiniteSet(W)
  BY FS_Subset
<1>4. p \in V /\ H(V) = h[p] + H(W) /\ F(V) = f[p] + F(W) /\ G(V) = g[p] + G(W)
  BY <1>2, <1>3, SumPick
<1>5. F(W) \in Int /\ G(W) \in Int
  BY <1>3, SumType
<1>6. W # V /\ W \in SUBSET V
  BY <1>4
<1> HIDE DEF F, G, H, p, W
<1>7. H(W) = F(W) + G(W)
  BY <1>1, <1>6
<1>8. f[p] \in Int /\ g[p] \in Int /\ h[p] = f[p] + g[p]
  BY <1>4
<1>9. QED
  BY <1>1, <1>4, <1>5, <1>7, <1>8

(* A common factor can be taken out.                                       *)
LEMMA SumScale ==
  ASSUME NEW f, NEW h, NEW c \in Int, NEW S, IsFiniteSet(S),
         \A x \in S : f[x] \in Int /\ h[x] = f[x] * c
  PROVE  SumFunctionOnSet(h, S) = SumFunctionOnSet(f, S) * c
<1> DEFINE F(V) == SumFunctionOnSet(f, V)
           H(V) == SumFunctionOnSet(h, V)
           B == {V \in SUBSET S : H(V) # F(V) * c}
<1> SUFFICES ASSUME B # {} PROVE FALSE
  OBVIOUS
<1>0. B \subseteq SUBSET S
  OBVIOUS
<1>1. PICK V \in B : \A W \in SUBSET V : W # V => W \notin B
  <2> HIDE DEF B
  <2>1. QED
    BY <1>0, MinimalSubset
<1>2. V # {}
  <2>1. H({}) = 0 /\ F({}) = 0
    BY SumEmpty
  <2>2. 0 = 0 * c
    OBVIOUS
  <2> HIDE DEF F, H
  <2>3. H({}) = F({}) * c
    BY <2>1, <2>2
  <2>4. QED
    BY <1>1, <2>3
<1> DEFINE p == Pick(V)
           W == V \ {p}
<1>3. IsFiniteSet(V) /\ IsFiniteSet(W)
  BY FS_Subset
<1>4. p \in V /\ H(V) = h[p] + H(W) /\ F(V) = f[p] + F(W)
  BY <1>2, <1>3, SumPick
<1>5. F(W) \in Int
  BY <1>3, SumType
<1>6. W # V /\ W \in SUBSET V
  BY <1>4
<1> HIDE DEF F, H, p, W
<1>7. H(W) = F(W) * c
  BY <1>1, <1>6
<1>8. f[p] \in Int /\ h[p] = f[p] * c
  BY <1>4
<1>9. \A x, y \in Int : (x + y) * c = x * c + y * c
  OBVIOUS
<1>10. (f[p] + F(W)) * c = f[p] * c + F(W) * c
  BY <1>5, <1>8, <1>9
<1>11. QED
  BY <1>1, <1>4, <1>7, <1>8, <1>10

(* Zeros add nothing: a sum over a set is the sum over the part of it that *)
(* is not known to be zero.                                                *)
LEMMA SumRestrict ==
  ASSUME NEW f, NEW S, IsFiniteSet(S), \A x \in S : f[x] \in Int,
         NEW T \in SUBSET S, \A x \in S \ T : f[x] = 0
  PROVE  SumFunctionOnSet(f, S) = SumFunctionOnSet(f, T)
<1>1. IsFiniteSet(S \ T) /\ IsFiniteSet(T)
  BY FS_Subset
<1>2. \A x \in S \ T : f[x] \in Int /\ f[x] = f[x] * 0
  OBVIOUS
<1>3. SumFunctionOnSet(f, S \ T) = SumFunctionOnSet(f, S \ T) * 0 /\ SumFunctionOnSet(f, S \ T) \in Int
  BY <1>1, <1>2, SumScale, SumType
<1>4. SumFunctionOnSet(f, S \ T) = 0
  BY <1>3
<1>5. SumFunctionOnSet(f, T) \in Int
  BY <1>1, SumType
<1>6. QED
  BY <1>4, <1>5, SumSplit

(* A table of the rows R: row r has the cells h[r] in the columns D[r].    *)
IsTable(h, D, R, T) == \A r \in R : D[r] \subseteq T /\ \A t \in D[r] : h[r][t] \in Int
RowSums(b, h, D, R) == \A r \in R : b[r] = SumFunctionOnSet(h[r], D[r])
ColumnSums(a, h, D, R, T) ==
    \A t \in T : a[t] = SumFunctionOnSet([r \in R |-> h[r][t]], {r \in R : t \in D[r]})

(* A table can be added up by rows or by columns.                          *)
LEMMA SumSwap ==
  ASSUME NEW R, IsFiniteSet(R), NEW T, IsFiniteSet(T), NEW D, NEW h, NEW a, NEW b,
         IsTable(h, D, R, T), RowSums(b, h, D, R), ColumnSums(a, h, D, R, T)
  PROVE  SumFunctionOnSet(a, T) = SumFunctionOnSet(b, R)
<1>table. \A r \in R : D[r] \subseteq T /\ \A t \in D[r] : h[r][t] \in Int
  BY DEF IsTable
<1>rows. \A r \in R : b[r] = SumFunctionOnSet(h[r], D[r])
  BY DEF RowSums
<1>columns. \A t \in T : a[t] = SumFunctionOnSet([r \in R |-> h[r][t]], {r \in R : t \in D[r]})
  BY DEF ColumnSums
<1> USE <1>table, <1>rows, <1>columns
<1> DEFINE Column(t) == [r \in R |-> h[r][t]]
           Rows(V, t) == {r \in V : t \in D[r]}
           A(V) == [t \in T |-> SumFunctionOnSet(Column(t), Rows(V, t))]
           B == {V \in SUBSET R : SumFunctionOnSet(A(V), T) # SumFunctionOnSet(b, V)}
<1>1. SumFunctionOnSet(a, T) = SumFunctionOnSet(A(R), T)
  <2>1. \A t \in T : a[t] = A(R)[t]
    OBVIOUS
  <2> HIDE DEF A
  <2>2. QED
    BY <2>1, SumAgree
<1>2. SUFFICES ASSUME B # {} PROVE FALSE
  <2>1. R \in SUBSET R
    OBVIOUS
  <2> HIDE DEF A
  <2>2. QED
    BY <1>1, <2>1
<1>3. B \subseteq SUBSET R
  OBVIOUS
<1>4. PICK V \in B : \A W \in SUBSET V : W # V => W \notin B
  <2> HIDE DEF B
  <2>1. QED
    BY <1>2, <1>3, MinimalSubset
<1>5. \A W \in SUBSET R : IsFiniteSet(W) /\ \A t \in T : IsFiniteSet(Rows(W, t))
  BY FS_Subset
<1>6. \A W \in SUBSET R : \A t \in T : A(W)[t] = SumFunctionOnSet(Column(t), Rows(W, t)) /\ A(W)[t] \in Int
  <2>1. SUFFICES ASSUME NEW W \in SUBSET R, NEW t \in T PROVE SumFunctionOnSet(Column(t), Rows(W, t)) \in Int
    OBVIOUS
  <2>2. \A r \in Rows(W, t) : Column(t)[r] \in Int
    OBVIOUS
  <2>3. IsFiniteSet(Rows(W, t))
    BY <1>5
  <2> HIDE DEF Column, Rows
  <2>4. QED
    BY <2>2, <2>3, SumType
<1>7. V # {}
  <2>1. \A t \in T : A({})[t] = 0
    <3>1. \A t : Rows({}, t) = {}
      OBVIOUS
    <3> HIDE DEF Column, Rows
    <3>2. QED
      BY <3>1, SumEmpty
  <2>2. \A t \in T : A({})[t] \in Int /\ A({})[t] = A({})[t] * 0
    BY <2>1
  <2> HIDE DEF A
  <2>3. SumFunctionOnSet(A({}), T) = SumFunctionOnSet(A({}), T) * 0 /\ SumFunctionOnSet(A({}), T) \in Int
    BY <2>2, SumScale, SumType
  <2>4. SumFunctionOnSet(b, {}) = 0
    BY SumEmpty
  <2>5. SumFunctionOnSet(A({}), T) = SumFunctionOnSet(b, {})
    BY <2>3, <2>4
  <2>6. QED
    BY <1>4, <2>5
<1> DEFINE p == Pick(V)
           W == V \ {p}
           e == [t \in T |-> IF t \in D[p] THEN h[p][t] ELSE 0]
<1>8. p \in V /\ p \in R /\ SumFunctionOnSet(b, V) = b[p] + SumFunctionOnSet(b, W)
  BY <1>5, <1>7, SumPick
<1>9. W \in SUBSET R /\ W # V /\ W \in SUBSET V
  BY <1>8
<1>10. \A t \in T : A(V)[t] = A(W)[t] + e[t] /\ A(W)[t] \in Int /\ e[t] \in Int
  <2>1. SUFFICES ASSUME NEW t \in T PROVE A(V)[t] = A(W)[t] + e[t] /\ e[t] \in Int
    BY <1>6, <1>9
  <2>2. A(V)[t] = SumFunctionOnSet(Column(t), Rows(V, t)) /\ A(W)[t] = SumFunctionOnSet(Column(t), Rows(W, t))
        /\ A(W)[t] \in Int
    BY <1>6, <1>9
  <2>3. CASE t \in D[p]
    <3>1. Rows(V, t) = Rows(W, t) \cup {p} /\ p \notin Rows(W, t)
      BY <1>8, <2>3
    <3>2. \A r \in Rows(W, t) : Column(t)[r] \in Int
      BY <1>9
    <3>3. Column(t)[p] = h[p][t] /\ h[p][t] \in Int /\ e[t] = h[p][t]
      BY <1>8, <2>3
    <3>4. IsFiniteSet(Rows(W, t))
      BY <1>5, <1>9
    <3> HIDE DEF Column, Rows, A, e, p, W
    <3>5. SumFunctionOnSet(Column(t), Rows(W, t) \cup {p}) = SumFunctionOnSet(Column(t), Rows(W, t)) + Column(t)[p]
      BY <3>1, <3>2, <3>3, <3>4, SumAdd
    <3>6. QED
      BY <2>2, <3>1, <3>3, <3>5
  <2>4. CASE t \notin D[p]
    <3>1. Rows(V, t) = Rows(W, t) /\ e[t] = 0
      BY <2>4
    <3> HIDE DEF Rows, A, e
    <3>2. QED
      BY <2>2, <3>1
  <2>5. QED
    BY <2>3, <2>4
<1>11. SumFunctionOnSet(e, T) = b[p]
  <2>1. D[p] \in SUBSET T /\ \A t \in T \ D[p] : e[t] = 0
    BY <1>8
  <2>2. \A t \in T : e[t] \in Int
    BY <1>10
  <2>3. \A t \in D[p] : e[t] = h[p][t]
    BY <2>1
  <2>4. IsFiniteSet(D[p])
    BY <2>1, FS_Subset
  <2>5. b[p] = SumFunctionOnSet(h[p], D[p])
    BY <1>8
  <2> HIDE DEF e, p
  <2>6. SumFunctionOnSet(e, T) = SumFunctionOnSet(e, D[p])
    BY <2>1, <2>2, SumRestrict
  <2>7. SumFunctionOnSet(e, D[p]) = SumFunctionOnSet(h[p], D[p])
    BY <2>3, <2>4, SumAgree
  <2>8. QED
    BY <2>5, <2>6, <2>7
<1>12. SumFunctionOnSet(A(V), T) = SumFunctionOnSet(A(W), T) + SumFunctionOnSet(e, T)
  <2> HIDE DEF A, e, W
  <2>1. QED
    BY <1>10, SumPlus
<1>13. SumFunctionOnSet(A(W), T) = SumFunctionOnSet(b, W)
  BY <1>4, <1>9
<1>14. SumFunctionOnSet(A(W), T) \in Int /\ SumFunctionOnSet(e, T) \in Int
  <2> HIDE DEF A, e, W
  <2>1. QED
    BY <1>10, SumType
<1>15. SumFunctionOnSet(A(V), T) # SumFunctionOnSet(b, V)
  BY <1>4
<1> HIDE DEF A, e, W, p
<1>16. QED
  BY <1>8, <1>11, <1>12, <1>13, <1>14, <1>15

(* The elements of S that have the key t.                                  *)
Class(S, key, t) == {x \in S : key[x] = t}

(* A sum can be taken class by class, the classes being those of a key: a  *)
(* report adds up executions by tenant and by rule (Aggregate).            *)
LEMMA SumByKey ==
  ASSUME NEW f, NEW K, IsFiniteSet(K), \A x \in K : f[x] \in Int,
         NEW key, NEW T, IsFiniteSet(T), \A x \in K : key[x] \in T,
         NEW g, \A t \in T : g[t] = SumFunctionOnSet(f, Class(K, key, t))
  PROVE  SumFunctionOnSet(g, T) = SumFunctionOnSet(f, K)
<1> DEFINE F(V) == SumFunctionOnSet(f, V)
           G(V) == SumFunctionOnSet(g, V)
           In(V) == {x \in K : key[x] \in V}
           B == {V \in SUBSET T : G(V) # F(In(V))}
<1>0. \A V \in SUBSET K : F(V) \in Int /\ IsFiniteSet(V)
  BY SumType, FS_Subset
<1>1. \A t \in T : g[t] = F({x \in K : key[x] = t}) /\ g[t] \in Int
  BY <1>0 DEF Class
<1>2. \A V \in SUBSET T : IsFiniteSet(V) /\ G(V) \in Int
  BY <1>1, SumType, FS_Subset
<1>3. T \in SUBSET T /\ In(T) = K
  OBVIOUS
<1>4. SUFFICES ASSUME B # {} PROVE FALSE
  BY <1>3
<1>5. B \subseteq SUBSET T
  OBVIOUS
<1>6. PICK V \in B : \A W \in SUBSET V : W # V => W \notin B
  <2> HIDE DEF B
  <2>1. QED
    BY <1>4, <1>5, MinimalSubset
<1>7. V # {}
  <2>1. In({}) = {} /\ G({}) = 0 /\ F({}) = 0
    BY SumEmpty
  <2>2. {} \notin B
    BY <2>1
  <2>3. QED
    BY <1>6, <2>2
<1>8. PICK y \in V : TRUE
  BY <1>7
<1> DEFINE W == V \ {y}
           C == {x \in K : key[x] = y}
<1>9. W \in SUBSET V /\ W # V /\ W \in SUBSET T /\ V \in SUBSET T /\ y \in T
  BY <1>8
<1>10. G(W) = F(In(W))
  BY <1>6, <1>9
<1>11. G(V) = g[y] + G(W)
  <2>1. IsFiniteSet(V) /\ \A t \in V : g[t] \in Int
    BY <1>1, <1>2, <1>9
  <2>2. QED
    BY <1>8, <2>1, SumRemove
<1>12. F(In(V)) = F(C) + F(In(V) \ C)
  <2>1. IsFiniteSet(In(V)) /\ (\A x \in In(V) : f[x] \in Int) /\ C \in SUBSET In(V)
    <3>1. In(V) \in SUBSET K
      OBVIOUS
    <3>2. QED
      BY <1>0, <1>8, <3>1
  <2>2. QED
    BY <2>1, SumSplit
<1>13. In(V) \ C = In(W)
  OBVIOUS
<1>14. g[y] = F(C)
  BY <1>1, <1>9
<1>15. G(V) # F(In(V))
  BY <1>6
<1> HIDE DEF F, G, In, C, W
<1>16. QED
  BY <1>10, <1>11, <1>12, <1>13, <1>14, <1>15

(* The size of a set is a sum of ones.                                     *)
LEMMA SumOfOnes ==
  ASSUME NEW K, IsFiniteSet(K), NEW f, \A x \in K : f[x] = 1
  PROVE  SumFunctionOnSet(f, K) = Cardinality(K)
<1> DEFINE P == [x \in K |-> {x}]
           c == [x \in K |-> Cardinality(P[x])]
<1>1. \A x \in K : IsFiniteSet(P[x]) /\ Cardinality(P[x]) = 1
  BY FS_Singleton
<1>2. \A x, y \in K : x # y => P[x] \cap P[y] = {}
  OBVIOUS
<1>3. SumFunctionOnSet(c, K) = Cardinality(UNION {P[x] : x \in K})
  <2>1. \A x \in K : IsFiniteSet(P[x])
    BY <1>1
  <2> HIDE DEF P
  <2>2. QED
    BY <1>2, <2>1, SumOfCardinalities
<1>4. UNION {P[x] : x \in K} = K
  OBVIOUS
<1>5. \A x \in K : f[x] = c[x]
  BY <1>1
<1>6. SumFunctionOnSet(f, K) = SumFunctionOnSet(c, K)
  <2> HIDE DEF c
  <2>1. QED
    BY <1>5, SumAgree
<1>7. QED
  BY <1>3, <1>4, <1>6

(* A sum above zero has a term above zero.                                 *)
LEMMA SumAboveZero ==
  ASSUME NEW f, NEW S, IsFiniteSet(S), \A x \in S : f[x] \in Int, SumFunctionOnSet(f, S) > 0
  PROVE  \E x \in S : f[x] > 0
<1> DEFINE F(V) == SumFunctionOnSet(f, V)
           B == {V \in SUBSET S : F(V) > 0 /\ ~ \E x \in V : f[x] > 0}
<1>0. \A V \in SUBSET S : F(V) \in Int /\ IsFiniteSet(V)
  BY SumType, FS_Subset
<1>1. SUFFICES ASSUME B # {} PROVE FALSE
  OBVIOUS
<1>2. B \subseteq SUBSET S
  OBVIOUS
<1>3. PICK V \in B : \A W \in SUBSET V : W # V => W \notin B
  <2> HIDE DEF B
  <2>1. QED
    BY <1>1, <1>2, MinimalSubset
<1>4. V # {}
  <2>1. F({}) = 0
    BY SumEmpty
  <2>2. F(V) > 0
    BY <1>3
  <2> HIDE DEF F
  <2>3. ~(F({}) > 0)
    BY <2>1
  <2>4. QED
    BY <2>2, <2>3
<1>5. PICK y \in V : TRUE
  BY <1>4
<1> DEFINE W == V \ {y}
<1>6. W \in SUBSET V /\ W # V /\ W \in SUBSET S /\ V \in SUBSET S
  BY <1>5
<1>7. F(V) = f[y] + F(W)
  BY <1>0, <1>5, <1>6, SumRemove
<1>8. F(V) > 0 /\ (\A x \in V : ~(f[x] > 0)) /\ F(W) \in Int /\ f[y] \in Int
  BY <1>0, <1>3, <1>5, <1>6
<1>9. ~(F(W) > 0)
  BY <1>3, <1>6, <1>8
<1> HIDE DEF F, W
<1>10. QED
  BY <1>5, <1>7, <1>8, <1>9

(* The elements ordered before x.                                          *)
Preceding(S, order, x) == {y \in S : <<y, x>> \in order}

(* A strict total order of S.                                              *)
IsOrder(S, order) ==
    /\ \A x \in S : <<x, x>> \notin order
    /\ \A x, y \in S : x # y => <<x, y>> \in order \/ <<y, x>> \in order
    /\ \A x, y, z \in S : <<x, y>> \in order /\ <<y, z>> \in order => <<x, z>> \in order

(* s lists S, every element once.                                          *)
Lists(s, S) ==
    /\ Cardinality(S) \in Nat /\ s \in [1..Cardinality(S) -> S]
    /\ \A x \in S : \E k \in 1..Cardinality(S) : s[k] = x
    /\ \A j, k \in 1..Cardinality(S) : s[j] = s[k] => j = k

--------------------------------------------------------------------------------
(* Sorting.                                                                *)

(* The number of elements before an element is below the size of the set   *)
(* and grows along the order.                                              *)
LEMMA RankGrows ==
  ASSUME NEW S, IsFiniteSet(S), NEW order, IsOrder(S, order)
  PROVE  /\ \A x \in S : Cardinality(Preceding(S, order, x)) \in 0..Cardinality(S) - 1
         /\ \A x, y \in S : <<x, y>> \in order =>
                Cardinality(Preceding(S, order, x)) < Cardinality(Preceding(S, order, y))
<1>1. ASSUME NEW x \in S
      PROVE  /\ IsFiniteSet(Preceding(S, order, x)) /\ Cardinality(Preceding(S, order, x)) \in Nat
             /\ Cardinality(Preceding(S, order, x)) < Cardinality(S)
  <2>1. Preceding(S, order, x) \subseteq S /\ x \notin Preceding(S, order, x)
    BY DEF IsOrder, Preceding
  <2>2. Cardinality(Preceding(S, order, x)) <= Cardinality(S) /\ IsFiniteSet(Preceding(S, order, x))
        /\ Cardinality(Preceding(S, order, x)) # Cardinality(S)
    BY <2>1, FS_Subset
  <2>3. Cardinality(S) \in Nat /\ Cardinality(Preceding(S, order, x)) \in Nat
    BY <2>2, FS_CardinalityType
  <2>4. QED
    BY <2>2, <2>3
<1>2. ASSUME NEW x \in S, NEW y \in S, <<x, y>> \in order
      PROVE  Cardinality(Preceding(S, order, x)) < Cardinality(Preceding(S, order, y))
  <2>1. Preceding(S, order, x) \subseteq Preceding(S, order, y) /\ x \in Preceding(S, order, y)
        /\ x \notin Preceding(S, order, x)
    BY <1>2 DEF Preceding, IsOrder
  <2>2. Cardinality(Preceding(S, order, x)) <= Cardinality(Preceding(S, order, y))
        /\ Cardinality(Preceding(S, order, x)) # Cardinality(Preceding(S, order, y))
    BY <1>1, <2>1, FS_Subset
  <2>3. QED
    BY <1>1, <2>2
<1>3. Cardinality(S) \in Nat
  BY FS_CardinalityType
<1>4. QED
  BY <1>1, <1>2, <1>3

(* InOrder lists a finite, totally ordered set: every element once, in     *)
(* that order.                                                             *)
LEMMA OrderLists ==
  ASSUME NEW S, IsFiniteSet(S), NEW order, IsOrder(S, order), NEW s, s = InOrder(S, order)
  PROVE  /\ Lists(s, S)
         /\ \A j, k \in 1..Cardinality(S) : j < k => <<s[j], s[k]>> \in order
<1> DEFINE n == Cardinality(S)
           rank == [x \in S |-> Cardinality(Preceding(S, order, x))]
<1>1. n \in Nat /\ rank \in [S -> 0..n - 1]
  BY FS_CardinalityType, RankGrows
<1>2. \A x, y \in S : rank[x] = rank[y] => x = y
  <2>1. \A x, y \in S : <<x, y>> \in order => rank[x] < rank[y]
    BY RankGrows
  <2>2. \A x, y \in S : x # y => <<x, y>> \in order \/ <<y, x>> \in order
    BY DEF IsOrder
  <2>3. \A x \in S : rank[x] \in Int
    BY <1>1
  <2> HIDE DEF rank
  <2>4. SUFFICES ASSUME NEW x \in S, NEW y \in S, rank[x] = rank[y], x # y PROVE FALSE
    OBVIOUS
  <2>5. rank[x] < rank[y] \/ rank[y] < rank[x]
    BY <2>1, <2>2, <2>4
  <2>6. QED
    BY <2>3, <2>4, <2>5
<1>3. rank \in Surjection(S, 0..n - 1)
  <2>1. IsFiniteSet(0..n - 1) /\ Cardinality(0..n - 1) = n /\ n = Cardinality(S)
    BY <1>1, FS_Interval
  <2> HIDE DEF rank, n
  <2>2. rank \in Injection(S, 0..n - 1)
    BY <1>1, <1>2 DEF Injection, IsInjective
  <2>3. QED
    BY <2>1, <2>2, FS_Injection
<1>4. s = [k \in 1..n |-> CHOOSE x \in S : rank[x] = k - 1]
  <2>1. InOrder(S, order) = [k \in 1..n |-> CHOOSE x \in S : Cardinality(Preceding(S, order, x)) = k - 1]
    BY DEF InOrder, Preceding
  <2>2. \A k : (CHOOSE x \in S : Cardinality(Preceding(S, order, x)) = k - 1) = (CHOOSE x \in S : rank[x] = k - 1)
    OBVIOUS
  <2>3. QED
    BY <2>1, <2>2
<1>5. \A k \in 1..n : s[k] \in S /\ rank[s[k]] = k - 1
  <2> SUFFICES ASSUME NEW k \in 1..n PROVE s[k] \in S /\ rank[s[k]] = k - 1
    OBVIOUS
  <2>1. \E x \in S : rank[x] = k - 1
    <3>1. k - 1 \in 0..n - 1
      BY <1>1
    <3> HIDE DEF rank, n
    <3>2. QED
      BY <1>3, <3>1 DEF Surjection
  <2>2. QED
    BY <1>4, <2>1
<1> HIDE DEF rank
<1>6. Lists(s, S)
  <2>1. s \in [1..n -> S]
    BY <1>4, <1>5
  <2>2. ASSUME NEW x \in S PROVE \E k \in 1..n : s[k] = x
    <3>1. rank[x] + 1 \in 1..n
      BY <1>1
    <3>2. s[rank[x] + 1] = x
      BY <1>1, <1>2, <1>5, <3>1
    <3>3. QED
      BY <3>1, <3>2
  <2>3. \A j, k \in 1..n : s[j] = s[k] => j = k
    BY <1>1, <1>5
  <2>4. QED
    BY <1>1, <2>1, <2>2, <2>3 DEF Lists
<1>7. ASSUME NEW j \in 1..n, NEW k \in 1..n, j < k PROVE <<s[j], s[k]>> \in order
  <2>1. s[j] \in S /\ s[k] \in S /\ rank[s[j]] < rank[s[k]] /\ s[j] # s[k]
    BY <1>5, <1>7
  <2>2. \A x, y \in S : <<x, y>> \in order => rank[x] < rank[y]
    BY RankGrows DEF rank
  <2>3. <<s[k], s[j]>> \notin order
    BY <1>1, <2>1, <2>2
  <2>4. QED
    BY <2>1, <2>3 DEF IsOrder
<1>8. QED
  BY <1>6, <1>7

(* So Ascending lists a finite set of numbers from the smallest.           *)
LEMMA AscendingLists ==
  ASSUME NEW S, IsFiniteSet(S), S \subseteq Int, NEW s, s = Ascending(S)
  PROVE  Lists(s, S) /\ \A j, k \in 1..Cardinality(S) : j < k => s[j] < s[k]
<1> DEFINE order == {p \in S \X S : p[1] < p[2]}
<1>1. \A x, y \in S : <<x, y>> \in order <=> x < y
  OBVIOUS
<1>2. IsOrder(S, order)
  BY <1>1 DEF IsOrder
<1>3. s = InOrder(S, order)
  BY DEF Ascending
<1> HIDE DEF order
<1>4. Lists(s, S) /\ \A j, k \in 1..Cardinality(S) : j < k => <<s[j], s[k]>> \in order
  BY <1>2, <1>3, OrderLists
<1>5. QED
  BY <1>1, <1>4 DEF Lists

(* At(s, P) is s read at the positions P, in ascending order.              *)
LEMMA AtLists ==
  ASSUME NEW s, NEW n \in Nat, DOMAIN s = 1..n, NEW P \in SUBSET (1..n), NEW t, t = At(s, P)
  PROVE  /\ IsFiniteSet(P) /\ Cardinality(P) \in Nat
         /\ \E pos : Lists(pos, P) /\ t = [k \in 1..Cardinality(P) |-> s[pos[k]]]
<1>1. IsFiniteSet(P) /\ P \subseteq Int
  <2>1. IsFiniteSet(1..n)
    BY FS_Interval
  <2>2. IsFiniteSet(P)
    BY <2>1, FS_Subset
  <2>3. QED
    BY <2>2
<1>2. Lists(Ascending(P), P)
  BY <1>1, AscendingLists
<1>3. DOMAIN Ascending(P) = 1..Cardinality(P)
  BY <1>2 DEF Lists
<1>4. t = [k \in 1..Cardinality(P) |-> s[Ascending(P)[k]]]
  BY <1>3 DEF At
<1>5. QED
  BY <1>1, <1>2, <1>4 DEF Lists

(* It is a sequence of as many entries as P has positions, the entries of  *)
(* s there.                                                                *)
LEMMA AtSeq ==
  ASSUME NEW X, NEW s \in Seq(X), NEW P \in SUBSET DOMAIN s, NEW t, t = At(s, P)
  PROVE  /\ IsFiniteSet(P) /\ t \in Seq(X) /\ Len(t) = Cardinality(P)
         /\ Range(t) = {s[k] : k \in P}
<1>1. Len(s) \in Nat /\ DOMAIN s = 1..Len(s)
  OBVIOUS
<1>2. IsFiniteSet(P) /\ Cardinality(P) \in Nat
  BY <1>1, AtLists
<1>3. PICK pos : Lists(pos, P) /\ t = [k \in 1..Cardinality(P) |-> s[pos[k]]]
  BY <1>1, AtLists
<1>4. \A k \in 1..Cardinality(P) : pos[k] \in P /\ s[pos[k]] \in X
  BY <1>3 DEF Lists
<1>5. t \in Seq(X) /\ Len(t) = Cardinality(P)
  <2>1. PICK n : n = Cardinality(P)
    OBVIOUS
  <2>2. n \in Nat /\ t = [k \in 1..n |-> s[pos[k]]] /\ \A k \in 1..n : s[pos[k]] \in X
    BY <1>2, <1>3, <1>4, <2>1
  <2>3. t \in Seq(X) /\ Len(t) = n
    BY <2>2
  <2>4. QED
    BY <2>1, <2>3
<1>6. Range(t) = {s[k] : k \in P}
  BY <1>3, <1>4, SMTT(60) DEF Range, Lists
<1>7. QED
  BY <1>2, <1>5, <1>6

(* Max picks the greatest element of a finite, non-empty set of numbers.   *)
LEMMA Greatest ==
  ASSUME NEW S, IsFiniteSet(S), S \subseteq Int, S # {}
  PROVE  Max(S) \in S /\ \A x \in S : Max(S) >= x
<1>1. PICK s, n : s = Ascending(S) /\ n = Cardinality(S)
  OBVIOUS
<1>2. n \in Nat /\ n # 0
  BY <1>1, FS_CardinalityType, FS_EmptySet
<1>3. Lists(s, S) /\ \A j, k \in 1..n : j < k => s[j] < s[k]
  BY <1>1, AscendingLists
<1>4. s[n] \in S /\ \A x \in S : s[n] >= x
  <2>1. n \in 1..n /\ s[n] \in S
    BY <1>1, <1>2, <1>3 DEF Lists
  <2>2. ASSUME NEW x \in S PROVE s[n] >= x
    <3>1. PICK k \in 1..n : s[k] = x
      BY <1>1, <1>3 DEF Lists
    <3>2. x \in Int /\ s[n] \in Int
      BY <2>1
    <3>3. CASE k = n
      BY <3>1, <3>2, <3>3
    <3>4. CASE k < n
      BY <1>3, <2>1, <3>1, <3>2, <3>4
    <3>5. QED
      BY <1>2, <3>3, <3>4
  <2>3. QED
    BY <2>1, <2>2
<1>5. QED
  BY <1>4 DEF Max

(* A finite, non-empty set of numbers has a least element.                 *)
LEMMA Least ==
  ASSUME NEW S, IsFiniteSet(S), S \subseteq Int, S # {}
  PROVE  \E x \in S : \A y \in S : x <= y
<1>1. PICK s, n : s = Ascending(S) /\ n = Cardinality(S)
  OBVIOUS
<1>2. n \in Nat /\ n # 0
  BY <1>1, FS_CardinalityType, FS_EmptySet
<1>3. Lists(s, S) /\ \A j, k \in 1..n : j < k => s[j] < s[k]
  BY <1>1, AscendingLists
<1>4. 1 \in 1..n /\ s[1] \in S /\ s[1] \in Int
  <2>1. 1 \in 1..n
    BY <1>2
  <2>2. s[1] \in S
    BY <1>1, <1>3, <2>1 DEF Lists
  <2>3. QED
    BY <2>1, <2>2
<1>5. ASSUME NEW y \in S PROVE s[1] <= y
  <2>1. PICK k \in 1..n : s[k] = y
    BY <1>1, <1>3 DEF Lists
  <2>2. k = 1 \/ 1 < k
    BY <1>2
  <2>3. QED
    BY <1>3, <1>4, <2>1, <2>2
<1>6. QED
  BY <1>4, <1>5

(* Min picks the least element of a finite, non-empty set of numbers.      *)
LEMMA Smallest ==
  ASSUME NEW S, IsFiniteSet(S), S \subseteq Int, S # {}
  PROVE  Min(S) \in S /\ \A x \in S : Min(S) <= x
<1>1. \E x \in S : \A y \in S : x <= y
  BY Least
<1>2. QED
  BY <1>1 DEF Min

(* Positions of a sequence are finitely many numbers.                      *)
LEMMA PositionsFinite ==
  ASSUME NEW X, NEW s \in Seq(X), NEW P \in SUBSET DOMAIN s
  PROVE  IsFiniteSet(P) /\ P \subseteq Int
<1>1. Len(s) \in Nat /\ DOMAIN s = 1..Len(s)
  OBVIOUS
<1>2. IsFiniteSet(1..Len(s))
  BY <1>1, FS_Interval
<1>3. IsFiniteSet(P)
  BY <1>1, <1>2, FS_Subset
<1>4. QED
  BY <1>1, <1>3

(* An image of a finite set is finite.                                     *)
LEMMA ImageFinite ==
  ASSUME NEW S, IsFiniteSet(S), NEW f, NEW T, T = {f[x] : x \in S}
  PROVE  IsFiniteSet(T)
<1> DEFINE g == [x \in S |-> f[x]]
<1>1. g \in Surjection(S, T)
  BY DEF Surjection
<1> HIDE DEF g
<1>2. QED
  BY <1>1, FS_Surjection

(* An injective image is as large as the set.                              *)
LEMMA ImageSize ==
  ASSUME NEW S, IsFiniteSet(S), NEW f, \A x, y \in S : f[x] = f[y] => x = y, NEW T, T = {f[x] : x \in S}
  PROVE  IsFiniteSet(T) /\ Cardinality(T) = Cardinality(S)
<1> DEFINE g == [x \in S |-> f[x]]
<1>1. g \in Surjection(S, T) /\ g \in Injection(S, T)
  BY DEF Surjection, Injection, IsInjective
<1> HIDE DEF g
<1>2. QED
  BY <1>1, FS_Surjection

(* A list of S has S for its entries, and an entry when S has one.         *)
LEMMA ListedAll ==
  ASSUME NEW s, NEW S, Lists(s, S)
  PROVE  /\ DOMAIN s = 1..Cardinality(S) /\ Cardinality(S) \in Nat
         /\ {s[k] : k \in DOMAIN s} = S
         /\ \A k \in DOMAIN s : s[k] \in S
         /\ S # {} => 1 \in DOMAIN s
<1>1. DOMAIN s = 1..Cardinality(S) /\ Cardinality(S) \in Nat /\ \A k \in DOMAIN s : s[k] \in S
  BY DEF Lists
<1>2. \A x \in S : \E k \in DOMAIN s : s[k] = x
  BY <1>1 DEF Lists
<1>3. S # {} => 1 \in DOMAIN s
  BY <1>1, <1>2
<1>4. QED
  BY <1>1, <1>2, <1>3

(* Two lists put one after the other.                                      *)
LEMMA OneAfterOther ==
  ASSUME NEW m \in Nat, NEW n \in Nat, NEW f, NEW g, DOMAIN f = 1..m, DOMAIN g = 1..n,
         NEW r, r = [k \in DOMAIN f |-> f[k]] \o [k \in DOMAIN g |-> g[k]]
  PROVE  /\ Len(r) = m + n /\ DOMAIN r = 1..m + n
         /\ \A k \in 1..m : r[k] = f[k]
         /\ \A k \in 1..n : r[m + k] = g[k]
<1> DEFINE X == {f[k] : k \in 1..m} \cup {g[k] : k \in 1..n}
           a == [k \in 1..m |-> f[k]]
           b == [k \in 1..n |-> g[k]]
<1>1. a \in Seq(X) /\ Len(a) = m /\ \A k \in 1..m : a[k] = f[k]
  <2>1. \A k \in 1..m : f[k] \in X
    OBVIOUS
  <2> HIDE DEF X
  <2>2. QED
    BY <2>1
<1>2. b \in Seq(X) /\ Len(b) = n /\ \A k \in 1..n : b[k] = g[k]
  <2>1. \A k \in 1..n : g[k] \in X
    OBVIOUS
  <2> HIDE DEF X
  <2>2. QED
    BY <2>1
<1>3. r = a \o b
  OBVIOUS
<1> HIDE DEF a, b, X
<1>4. r \in Seq(X) /\ Len(r) = m + n /\ \A k \in 1..m + n : r[k] = IF k <= m THEN a[k] ELSE b[k - m]
  BY <1>1, <1>2, <1>3
<1>5. DOMAIN r = 1..m + n
  BY <1>4
<1>6. ASSUME NEW k \in 1..n PROVE r[m + k] = g[k]
  <2>1. m + k \in 1..m + n /\ ~(m + k <= m) /\ (m + k) - m = k
    OBVIOUS
  <2>2. QED
    BY <1>2, <1>4, <2>1
<1>7. \A k \in 1..m : r[k] = f[k]
  BY <1>1, <1>4
<1>8. QED
  BY <1>4, <1>5, <1>6, <1>7

(* A sum over a list is the sum over what it lists.                        *)
LEMMA SumListed ==
  ASSUME NEW keys, NEW D, Lists(keys, D), NEW a, NEW b, \A x \in D : b[x] \in Int,
         \A k \in DOMAIN keys : a[k] = b[keys[k]]
  PROVE  IsFiniteSet(D) /\ SumFunctionOnSet(a, DOMAIN keys) = SumFunctionOnSet(b, D)
<1>1. PICK N : N = DOMAIN keys
  OBVIOUS
<1>2. N = 1..Cardinality(D) /\ Cardinality(D) \in Nat /\ {keys[k] : k \in N} = D /\ \A k \in N : keys[k] \in D
  BY <1>1, ListedAll
<1>3. IsFiniteSet(N)
  BY <1>2, FS_Interval
<1>4. \A j, k \in N : keys[j] = keys[k] => j = k
  BY <1>2 DEF Lists
<1>5. \A k \in N : b[keys[k]] = a[k]
  BY <1>1
<1>5a. \A k \in N : a[k] \in Int
  BY <1>2, <1>5
<1>6. IsFiniteSet({keys[k] : k \in N}) /\ SumFunctionOnSet(b, {keys[k] : k \in N}) = SumFunctionOnSet(a, N)
  BY <1>3, <1>4, <1>5, <1>5a, SumReindex
<1>7. QED
  BY <1>1, <1>2, <1>6
================================================================================
