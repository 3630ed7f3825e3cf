------------------------- MODULE CostAllocation_proofs -------------------------
(***************************************************************************)
(* Theorems about the cost model's report for any inventories,             *)
(* measurements and expected tenants that CasesAssumption admits: any      *)
(* prices, replica counts, factors and driver values, any number of        *)
(* tenants. ReportInv ties the report to accepted inputs; FromInputs says  *)
(* what each pool's allocation is in terms of those inputs, and every      *)
(* theorem starts from it.                                                 *)
(***************************************************************************)
EXTENDS CostAllocation, CollectionTheorems

(* An inventory of numbers, valid or not.                                  *)
GoodInventory(i) ==
    /\ DOMAIN i = {"currency", "rf", "platform", "ruleEvaluation", "pools"}
    /\ i.rf \in Number /\ i.platform \in Number
    /\ \A id \in DOMAIN i.pools :
        /\ DOMAIN i.pools[id] = {"replicas", "price", "components"}
        /\ Figures(i.pools[id])
        /\ \A k \in DOMAIN i.pools[id].components : Figures(i.pools[id].components[k])

(* One pool's measurement.                                                 *)
GoodMeasurement(x) ==
    /\ x.pool \in KnownPools /\ x.rf \in Number
    /\ IsFiniteSet(DOMAIN x.drivers)
    /\ \A t \in DOMAIN x.drivers : x.drivers[t] \in Int

(* The measurements of the pools that were read.                           *)
GoodMeasurements(given) ==
    /\ DOMAIN given \subseteq KnownPools
    /\ \A id \in DOMAIN given : GoodMeasurement(given[id]) /\ given[id].pool = id

(* Inputs a report is made of.                                             *)
GoodInputs(given, i) == GoodMeasurements(given) /\ GoodInventory(i) /\ Validate(i)

(* The invariant.                                                          *)
ReportInv ==
    /\ GoodInventory(inv) /\ GoodMeasurements(ms)
    /\ phase = "reported" => GoodInputs(ms, inv) /\ report = AllocateAll(ms, inv, expected)

(* ReportInv holds throughout: a report is the allocation of inputs that   *)
(* Validate accepted.                                                      *)
THEOREM ReportInductive == Spec => []ReportInv
<1>1. Init => ReportInv
  BY CasesAssumption DEF Init, ReportInv, GoodInventory, GoodMeasurements, GoodMeasurement
<1>2. ReportInv /\ [Next]_vars => ReportInv'
  <2>1. ASSUME ReportInv, Reject PROVE ReportInv'
    BY <2>1 DEF Reject, ReportInv, GoodMeasurements, GoodMeasurement, GoodInventory
  <2>2. ASSUME ReportInv, Report PROVE ReportInv'
    BY <2>2 DEF Report, ReportInv, GoodInputs, GoodMeasurements, GoodMeasurement, GoodInventory
  <2>3. ASSUME ReportInv, UNCHANGED vars PROVE ReportInv'
    BY <2>3 DEF vars, ReportInv
  <2>4. QED
    BY <2>1, <2>2, <2>3 DEF Next
<1>3. QED
  BY <1>1, <1>2, PTL DEF Spec

--------------------------------------------------------------------------------

(* Products of whole numbers, and of positive ones.                        *)
LEMMA Products ==
  /\ \A a, b \in Int : a * b \in Int
  /\ \A a, b \in Int : a >= 1 /\ b > 0 => a * b > 0
OBVIOUS

(* A pool has finitely many components.                                    *)
LEMMA ComponentsFinite ==
  ASSUME NEW id
  PROVE  IsFiniteSet(PoolComponents(id)) /\ \A S \in SUBSET PoolComponents(id) : IsFiniteSet(S)
<1>1. IsFiniteSet({"query-frontend"} \cup {"querier"}) /\ IsFiniteSet({})
  BY FS_EmptySet, FS_Singleton, FS_Union
<1>2. {"query-frontend"} \cup {"querier"} = {"query-frontend", "querier"}
  OBVIOUS
<1>3. IsFiniteSet(PoolComponents(id))
  BY <1>1, <1>2 DEF PoolComponents
<1>4. QED
  BY <1>3, FS_Subset

(* A priced pool or component that is valid costs something and has a      *)
(* currency.                                                               *)
LEMMA FiguresPositive ==
  ASSUME NEW q, NEW currency, Figures(q), ValidPrice(q, currency), IsPriced(q), None \notin Int
  PROVE  q.replicas * q.price \in Int /\ q.replicas * q.price > 0 /\ currency # ""
<1>1. q.replicas \in Int /\ q.price \in Int /\ q.replicas >= 1 /\ q.price > 0 /\ currency # ""
  BY DEF Figures, Number, ValidPrice, IsPriced
<1>2. QED
  BY <1>1, Products

(* So does every priced component of a valid pool (ComponentCosts).        *)
LEMMA ComponentCostsPositive ==
  ASSUME NEW id, NEW p, NEW currency, ValidPool(id, p, currency), DOMAIN p.components # {},
         \A k \in DOMAIN p.components : Figures(p.components[k]), None \notin Int
  PROVE  \A c \in DOMAIN ComponentCosts(id, p) :
            ComponentCosts(id, p)[c] # None =>
                /\ ComponentCosts(id, p)[c] \in Int /\ ComponentCosts(id, p)[c] > 0
                /\ currency # ""
<1>1. SUFFICES ASSUME NEW c \in PoolComponents(id) \cap DOMAIN p.components,
                      ComponentCosts(id, p)[c] # None
               PROVE  /\ ComponentCosts(id, p)[c] \in Int /\ ComponentCosts(id, p)[c] > 0
                      /\ currency # ""
  BY DEF ComponentCosts
<1>2. IsPriced(p.components[c])
      /\ ComponentCosts(id, p)[c] = p.components[c].replicas * p.components[c].price
  BY <1>1 DEF ComponentCosts
<1>3. ValidPrice(p.components[c], currency) /\ Figures(p.components[c])
  BY DEF ValidPool
<1>4. QED
  BY <1>2, <1>3, FiguresPositive

(* A pool's price, flat or by component, is above zero and in a currency,  *)
(* or missing (Price).                                                     *)
LEMMA PricePositive ==
  ASSUME NEW i, NEW id, GoodInventory(i), Validate(i), None \notin Int,
         Price(id, PoolInventory(i, id)).poolCost # None
  PROVE  /\ Price(id, PoolInventory(i, id)).poolCost \in Int
         /\ Price(id, PoolInventory(i, id)).poolCost > 0
         /\ i.currency # ""
<1>1. PICK p : p = PoolInventory(i, id)
  OBVIOUS
<1>2. CASE id \notin DOMAIN i.pools
  <2>1. p = NoInventory
    BY <1>1, <1>2 DEF PoolInventory
  <2>2. DOMAIN p.components = {} /\ ~IsPriced(p)
    BY <2>1 DEF NoInventory, IsPriced
  <2>3. Price(id, p).poolCost = None
    BY <2>2 DEF Price, PriceFlat
  <2>4. QED
    BY <1>1, <2>3
<1>3. CASE id \in DOMAIN i.pools
  <2>1. /\ ValidPool(id, p, i.currency) /\ Figures(p)
        /\ \A k \in DOMAIN p.components : Figures(p.components[k])
    BY <1>1, <1>3 DEF PoolInventory, Validate, GoodInventory
  <2>2. CASE DOMAIN p.components = {}
    <3>1. Price(id, p).poolCost = IF IsPriced(p) THEN p.replicas * p.price ELSE None
      BY <2>2 DEF Price, PriceFlat
    <3>2. IsPriced(p)
      BY <1>1, <3>1
    <3>3. ValidPrice(p, i.currency)
      BY <2>1 DEF ValidPool
    <3>4. QED
      BY <1>1, <2>1, <3>1, <3>2, <3>3, FiguresPositive
  <2>3. CASE DOMAIN p.components # {}
    <3> DEFINE costs == ComponentCosts(id, p)
               priced == {c \in DOMAIN costs : costs[c] # None}
    <3>1. Price(id, p).poolCost = IF priced = {} THEN None ELSE SumFunction([c \in priced |-> costs[c]])
      BY <2>3 DEF Price, PriceComponents
    <3>2. priced # {}
      BY <1>1, <3>1
    <3>3. \A c \in priced : costs[c] \in Int /\ costs[c] > 0 /\ i.currency # ""
      BY <2>1, <2>3, ComponentCostsPositive
    <3>4. IsFiniteSet(priced)
      <4>1. priced \in SUBSET PoolComponents(id)
        BY DEF ComponentCosts
      <4>2. QED
        BY <4>1, ComponentsFinite
    <3> HIDE DEF costs, priced
    <3>5. SumFunction([c \in priced |-> costs[c]]) = SumFunctionOnSet(costs, priced)
      BY <3>4, SumOfFunction
    <3>6. SumFunctionOnSet(costs, priced) \in Int /\ SumFunctionOnSet(costs, priced) > 0
      BY <3>2, <3>3, <3>4, SumPositive, SumType
    <3>7. QED
      BY <1>1, <3>1, <3>2, <3>3, <3>5, <3>6
  <2>4. QED
    BY <2>2, <2>3
<1>4. QED
  BY <1>2, <1>3

--------------------------------------------------------------------------------

(* What Allocate takes over from the inventory and the pool's price.       *)
LEMMA AllocatePrices ==
  \A x, i, e :
    /\ Allocate(x, i, e).pool = x.pool
    /\ Allocate(x, i, e).currency = i.currency
    /\ Allocate(x, i, e).poolCost = Price(x.pool, PoolInventory(i, x.pool)).poolCost
    /\ Allocate(x, i, e).unpriced = Price(x.pool, PoolInventory(i, x.pool)).unpriced
BY DEF Allocate

(* A pool is costed exactly if it has a price.                             *)
LEMMA AllocateCosted ==
  \A x, i, e : Allocate(x, i, e).costed <=> Allocate(x, i, e).poolCost # None
<1>1. SUFFICES ASSUME NEW x, NEW i, NEW e
               PROVE  Allocate(x, i, e).costed <=> Allocate(x, i, e).poolCost # None
  OBVIOUS
<1>2. PICK p : p = Price(x.pool, PoolInventory(i, x.pool)).poolCost
  OBVIOUS
<1>3. Allocate(x, i, e).costed = (p # None)
  BY <1>2 DEF Allocate
<1>4. QED
  BY <1>2, <1>3, AllocatePrices

(* Who is listed as measured and who as unmeasured.                        *)
LEMMA AllocateTenants ==
  \A x, i, e :
    /\ DOMAIN Allocate(x, i, e).tenants = DOMAIN x.drivers
    /\ Allocate(x, i, e).unmeasured = e \ DOMAIN x.drivers
BY DEF Allocate

(* A tenant's line is its share of the driver.                             *)
LEMMA AllocateShares ==
  \A x, i, e : \A t \in DOMAIN x.drivers :
    Allocate(x, i, e).tenants[t] =
        TenantShare(x.drivers[t], SumFunction(x.drivers), Divisor(x, i).value,
                    Price(x.pool, PoolInventory(i, x.pool)))
BY DEF Allocate

(* The totals of a pool, missing when nobody was measured or the factor is *)
(* unknown.                                                                *)
LEMMA AllocateTotals ==
  \A x, i, e :
    /\ DOMAIN x.drivers = {} => Allocate(x, i, e).totalRaw = None /\ Allocate(x, i, e).total = None
    /\ DOMAIN x.drivers # {} => Allocate(x, i, e).totalRaw = SumFunction(x.drivers)
    /\ Divisor(x, i).value = None => Allocate(x, i, e).total = None
    /\ DOMAIN x.drivers # {} /\ Divisor(x, i).value # None =>
            Allocate(x, i, e).total = Frac(SumFunction(x.drivers), Divisor(x, i).value)
BY DEF Allocate

(* The total of a pool is the sum of its drivers; a positive one is of     *)
(* somebody.                                                               *)
LEMMA TotalIs ==
  ASSUME NEW x, GoodMeasurement(x)
  PROVE  /\ SumFunction(x.drivers) \in Int
         /\ SumFunction(x.drivers) = SumFunctionOnSet(x.drivers, DOMAIN x.drivers)
         /\ SumFunction(x.drivers) > 0 => DOMAIN x.drivers # {}
<1>1. SumFunction(x.drivers) = SumFunctionOnSet(x.drivers, DOMAIN x.drivers)
  BY DEF SumFunction
<1>2. SumFunction(x.drivers) \in Int
  BY <1>1, SumType DEF GoodMeasurement
<1>3. DOMAIN x.drivers = {} => SumFunction(x.drivers) = 0
  BY <1>1, SumEmpty
<1>4. QED
  BY <1>1, <1>2, <1>3

(* The replication factor a report divides by is at least one.             *)
LEMMA FactorPositive ==
  ASSUME NEW x, NEW i, GoodInventory(i), Validate(i), GoodMeasurement(x), None \notin Int
  PROVE  Divisor(x, i).value # None => Divisor(x, i).value \in Int /\ Divisor(x, i).value >= 1
<1>1. i.rf # None => i.rf \in Int /\ i.rf >= 1
  BY DEF GoodInventory, Number, Validate
<1>2. x.rf # None => x.rf \in Int
  BY DEF GoodMeasurement, Number
<1>3. CASE x.unreplicated \/ x.deduplicated
  BY <1>3 DEF Divisor, ResolveReplicationFactor, RF
<1>4. CASE ~x.unreplicated /\ ~x.deduplicated
  BY <1>1, <1>2, <1>4 DEF Divisor, ResolveReplicationFactor, RF
<1>5. QED
  BY <1>3, <1>4

--------------------------------------------------------------------------------
(* The total over the pools.                                               *)

(* The tenants some priced pool saw.                                       *)
ChargedIn(P) == UNION {DOMAIN P[id].tenants : id \in PricedPools(P)}

(* What the priced pools cost together.                                    *)
CostOfPriced(P) == SumFunction([id \in PricedPools(P) |-> P[id].poolCost])

(* Which pools the total says are priced, unpriced, unmeasured and         *)
(* partial.                                                                *)
LEMMA CrossSets ==
  \A P, i, e :
    /\ CrossPool(P, i, e).priced = PricedPools(P)
    /\ CrossPool(P, i, e).unpriced = {id \in DOMAIN P : HasShares(P[id])} \ PricedPools(P)
    /\ CrossPool(P, i, e).unmeasured = DOMAIN P \ {id \in DOMAIN P : HasShares(P[id])}
    /\ CrossPool(P, i, e).partial = {id \in PricedPools(P) : P[id].unpriced # {}}
BY DEF CrossPool

(* What it says they cost.                                                 *)
LEMMA CrossCost == \A P, i, e : CrossPool(P, i, e).pricedCost = CostOfPriced(P)
BY DEF CrossPool, CostOfPriced

(* The total's fraction of the platform is there only when it is at most   *)
(* all of it.                                                              *)
LEMMA CrossFraction ==
  ASSUME NEW P, NEW i, NEW e, CrossPool(P, i, e).fraction # None
  PROVE  /\ PricedPools(P) # {} /\ i.platform # None /\ CostOfPriced(P) <= i.platform
         /\ CrossPool(P, i, e).fraction = Frac(CostOfPriced(P), i.platform)
<1>1. CrossPool(P, i, e).fraction =
        IF PricedPools(P) # {} /\ (i.platform # None /\ CostOfPriced(P) <= i.platform)
        THEN Frac(CostOfPriced(P), i.platform) ELSE None
  BY DEF CrossPool, CostOfPriced
<1>2. QED
  BY <1>1

(* Its lines are those of the tenants some priced pool saw, expected or    *)
(* not.                                                                    *)
LEMMA CrossTenants ==
  ASSUME NEW P, NEW i, NEW e
  PROVE  CrossPool(P, i, e).tenants =
            [t \in ChargedIn(P) |-> TenantTotal(t, P, PricedPools(P), CostOfPriced(P))]
<1> DEFINE R == PricedPools(P)
           universe == e \cup UNION {DOMAIN P[id].tenants : id \in R}
           charged == {t \in universe : \E id \in R : t \in DOMAIN P[id].tenants}
<1>1. charged = ChargedIn(P)
  BY DEF ChargedIn
<1>2. CrossPool(P, i, e).tenants = [t \in charged |-> TenantTotal(t, P, R, CostOfPriced(P))]
  BY DEF CrossPool, CostOfPriced
<1> HIDE DEF charged
<1>3. QED
  BY <1>1, <1>2

(* A report's parts (AllocateAll).                                         *)
LEMMA ReportIs ==
  \A given, i, e :
    /\ AllocateAll(given, i, e).pools = [id \in DOMAIN given |-> Allocate(given[id], i, e)]
    /\ AllocateAll(given, i, e).cross = CrossPool(AllocateAll(given, i, e).pools, i, e)
    /\ AllocateAll(given, i, e).notRead = KnownPools \ DOMAIN given
BY DEF AllocateAll

(* What a report says of its pools, in terms of what was measured and      *)
(* priced.                                                                 *)
FromInputs(given, i, e, P) ==
    /\ DOMAIN P = DOMAIN given
    /\ IsFiniteSet(PricedPools(P)) /\ PricedPools(P) \subseteq DOMAIN P
    /\ \A id \in DOMAIN P : P[id] = Allocate(given[id], i, e) /\ P[id].pool = id
    /\ \A id \in DOMAIN P : DOMAIN P[id].tenants = DOMAIN given[id].drivers
    /\ \A id \in DOMAIN P : id \in PricedPools(P) <=>
            SumFunction(given[id].drivers) > 0 /\ P[id].poolCost # None
    /\ \A id \in DOMAIN P : P[id].poolCost # None =>
            P[id].poolCost \in Int /\ P[id].poolCost > 0 /\ i.currency # ""

(* Every report of accepted inputs is FromInputs.                          *)
LEMMA PricedAre ==
  ASSUME NEW given, NEW i, NEW e, GoodInputs(given, i), NEW P, P = AllocateAll(given, i, e).pools
  PROVE  FromInputs(given, i, e, P)
<1>0. GoodMeasurements(given) /\ GoodInventory(i) /\ Validate(i) /\ None \notin Int
  BY CasesAssumption DEF GoodInputs
<1>1. P = [id \in DOMAIN given |-> Allocate(given[id], i, e)]
  BY ReportIs
<1>2. \A id \in DOMAIN P : P[id] = Allocate(given[id], i, e) /\ GoodMeasurement(given[id]) /\ given[id].pool = id
  BY <1>0, <1>1 DEF GoodMeasurements
<1>3. \A id \in DOMAIN P : P[id].pool = id /\ DOMAIN P[id].tenants = DOMAIN given[id].drivers
  BY <1>2, AllocatePrices, AllocateTenants
<1>4. ASSUME NEW id \in DOMAIN P
      PROVE  id \in PricedPools(P) <=> SumFunction(given[id].drivers) > 0 /\ P[id].poolCost # None
  <2>1. P[id].costed <=> P[id].poolCost # None
    BY <1>2, AllocateCosted
  <2>2. P[id].totalRaw = IF DOMAIN given[id].drivers = {} THEN None ELSE SumFunction(given[id].drivers)
    BY <1>2, AllocateTotals
  <2>3. /\ SumFunction(given[id].drivers) \in Int
        /\ SumFunction(given[id].drivers) > 0 => DOMAIN given[id].drivers # {}
    BY <1>2, TotalIs
  <2>4. HasShares(P[id]) <=> SumFunction(given[id].drivers) > 0
    BY <1>0, <2>2, <2>3 DEF HasShares
  <2>5. QED
    BY <2>1, <2>4 DEF PricedPools
<1>5. ASSUME NEW id \in DOMAIN P, P[id].poolCost # None
      PROVE  P[id].poolCost \in Int /\ P[id].poolCost > 0 /\ i.currency # ""
  <2>1. P[id].poolCost = Price(id, PoolInventory(i, id)).poolCost
    BY <1>2, AllocatePrices
  <2>2. QED
    BY <1>0, <1>5, <2>1, PricePositive
<1>6. DOMAIN P = DOMAIN given /\ PricedPools(P) \subseteq DOMAIN P
  BY <1>1 DEF PricedPools
<1>7. IsFiniteSet(PricedPools(P))
  <2>1. KnownPools = ({PoolIngesterMemory} \cup {PoolQueryPath}) \cup {PoolRulerCPU}
    BY DEF KnownPools, PoolOrder, Range
  <2>2. IsFiniteSet(KnownPools)
    BY <2>1, FS_Singleton, FS_Union
  <2>3. PricedPools(P) \subseteq KnownPools
    BY <1>0, <1>6 DEF GoodMeasurements
  <2>4. QED
    BY <2>2, <2>3, FS_Subset
<1>8. QED
  BY <1>2, <1>3, <1>4, <1>5, <1>6, <1>7 DEF FromInputs

(* What the priced pools cost together is the sum of their costs, and      *)
(* above zero if there is one.                                             *)
LEMMA PricedCostIs ==
  ASSUME NEW given, NEW i, NEW e, NEW P, FromInputs(given, i, e, P)
  PROVE  /\ CostOfPriced(P) \in Int
         /\ PricedPools(P) # {} => CostOfPriced(P) > 0
         /\ CostOfPriced(P) = SumFunctionOnSet([id \in PricedPools(P) |-> P[id].poolCost], PricedPools(P))
<1> DEFINE R == PricedPools(P)
           cost == [id \in R |-> P[id].poolCost]
<1>1. IsFiniteSet(R) /\ \A id \in R : cost[id] \in Int /\ cost[id] > 0
  BY DEF FromInputs
<1>2. CostOfPriced(P) = SumFunctionOnSet(cost, R)
  BY DEF CostOfPriced, SumFunction
<1> HIDE DEF R, cost
<1>3. SumFunctionOnSet(cost, R) \in Int /\ (R # {} => SumFunctionOnSet(cost, R) > 0)
  BY <1>1, SumPositive, SumType
<1>4. QED
  BY <1>2, <1>3 DEF R, cost

--------------------------------------------------------------------------------

(* No report divides by zero, prices without a currency or calls a pool    *)
(* priced that costs nothing, because Validate refused the inventories     *)
(* that could (cost.go:167).                                               *)
THEOREM DefensibleFigures == Spec => []FiguresAreDefensible
<1>1. ReportInv => FiguresAreDefensible
  <2>1. SUFFICES ASSUME ReportInv, phase = "reported" PROVE FiguresAreDefensible
    BY DEF FiguresAreDefensible, Reported
  <2>2. GoodInputs(ms, inv) /\ report = AllocateAll(ms, inv, expected)
    BY <2>1 DEF ReportInv
  <2>3. PICK P : P = AllocateAll(ms, inv, expected).pools
    OBVIOUS
  <2>4. Pools = P /\ Cross = CrossPool(P, inv, expected)
    BY <2>2, <2>3, ReportIs DEF Pools, Cross
  <2>0. FromInputs(ms, inv, expected, P)
    BY <2>2, <2>3, PricedAre
  <2>5. ASSUME NEW a \in Range(P)
        PROVE  /\ a.costed => a.currency # "" /\ a.poolCost > 0
               /\ a.total # None => a.total.den > 0
    <3>1. PICK id \in DOMAIN P : a = P[id]
      BY DEF Range
    <3>2. a = Allocate(ms[id], inv, expected) /\ id \in DOMAIN ms
      BY <2>0, <3>1 DEF FromInputs
    <3>3. a.costed <=> a.poolCost # None
      BY <3>2, AllocateCosted
    <3>4. a.poolCost # None => a.poolCost > 0 /\ inv.currency # ""
      BY <2>0, <3>1 DEF FromInputs
    <3>5. a.currency = inv.currency
      BY <3>2, AllocatePrices
    <3>6. a.total # None => a.total.den > 0
      <4>1. GoodMeasurement(ms[id])
        BY <2>2, <3>2 DEF GoodInputs, GoodMeasurements
      <4>2. SUFFICES ASSUME a.total # None PROVE a.total.den > 0
        OBVIOUS
      <4>3. PICK rf : rf = Divisor(ms[id], inv).value
        OBVIOUS
      <4>4. rf # None /\ a.total = Frac(SumFunction(ms[id].drivers), rf)
        BY <3>2, <4>2, <4>3, AllocateTotals
      <4>5. rf \in Int /\ rf >= 1
        BY <2>2, <4>1, <4>3, <4>4, FactorPositive, CasesAssumption DEF GoodInputs
      <4>6. QED
        BY <4>4, <4>5 DEF Frac
    <3>7. QED
      BY <3>3, <3>4, <3>5, <3>6
  <2>6. Cross.priced = PricedPools(P) /\ Cross.pricedCost = CostOfPriced(P)
    BY <2>4, CrossSets, CrossCost
  <2>7. CostOfPriced(P) \in Int /\ (PricedPools(P) # {} => CostOfPriced(P) > 0)
    BY <2>0, PricedCostIs
  <2>8. Cross.fraction # None => Cross.fraction.den > 0 /\ Cross.fraction.num <= Cross.fraction.den
    <3>1. SUFFICES ASSUME Cross.fraction # None
                   PROVE  Cross.fraction.den > 0 /\ Cross.fraction.num <= Cross.fraction.den
      OBVIOUS
    <3>2. /\ inv.platform # None /\ CostOfPriced(P) <= inv.platform
          /\ Cross.fraction = Frac(CostOfPriced(P), inv.platform)
      BY <2>4, <3>1, CrossFraction
    <3>3. inv.platform # None => inv.platform \in Int /\ inv.platform > 0
      BY <2>2 DEF GoodInputs, GoodInventory, Number, Validate
    <3>4. QED
      BY <3>2, <3>3 DEF Frac
  <2>9. QED
    BY <2>4, <2>5, <2>6, <2>7, <2>8 DEF FiguresAreDefensible
<1>2. QED
  BY <1>1, ReportInductive, PTL

--------------------------------------------------------------------------------

(* A tenant a pool did not measure is named so and gets no line there, and *)
(* the total flags exactly the priced pools that missed it (ADR 0003,      *)
(* decision 5).                                                            *)
THEOREM NoZeroFabricated == Spec => []NoFabricatedZero
<1>1. ReportInv => NoFabricatedZero
  <2>1. SUFFICES ASSUME ReportInv, phase = "reported" PROVE NoFabricatedZero
    BY DEF NoFabricatedZero, Reported
  <2>2. GoodInputs(ms, inv) /\ report = AllocateAll(ms, inv, expected)
    BY <2>1 DEF ReportInv
  <2>3. PICK P : P = AllocateAll(ms, inv, expected).pools
    OBVIOUS
  <2>4. Pools = P /\ Cross = CrossPool(P, inv, expected)
    BY <2>2, <2>3, ReportIs DEF Pools, Cross
  <2>5. FromInputs(ms, inv, expected, P)
    BY <2>2, <2>3, PricedAre
  <2>6. \A id \in DOMAIN P : Measured(id) = DOMAIN P[id].tenants /\ P[id].unmeasured = expected \ Measured(id)
    <3>1. SUFFICES ASSUME NEW id \in DOMAIN P
                   PROVE  Measured(id) = DOMAIN P[id].tenants /\ P[id].unmeasured = expected \ Measured(id)
      OBVIOUS
    <3>2. /\ P[id] = Allocate(ms[id], inv, expected) /\ Measured(id) = DOMAIN ms[id].drivers
          /\ DOMAIN P[id].tenants = DOMAIN ms[id].drivers
      BY <2>5 DEF FromInputs, Measured
    <3>3. QED
      BY <3>2, AllocateTenants
  <2>7. ASSUME NEW a \in Range(Pools), NEW t \in expected \cup DOMAIN a.tenants
        PROVE  IF t \in Measured(a.pool) THEN t \in DOMAIN a.tenants /\ t \notin a.unmeasured
                                         ELSE t \notin DOMAIN a.tenants /\ t \in a.unmeasured
    <3>1. PICK id \in DOMAIN P : a = P[id]
      BY <2>4 DEF Range
    <3>2. a.pool = id
      BY <2>5, <3>1 DEF FromInputs
    <3>3. QED
      BY <2>6, <3>1, <3>2
  <2>8. /\ Cross.priced = PricedPools(P)
        /\ Cross.tenants = [t \in ChargedIn(P) |-> TenantTotal(t, P, PricedPools(P), CostOfPriced(P))]
    BY <2>4, CrossSets, CrossTenants
  <2>9. ASSUME NEW t
        PROVE  LET seen == {id \in Cross.priced : t \in Measured(id)}
               IN  IF seen = {} THEN t \notin DOMAIN Cross.tenants
                   ELSE /\ t \in DOMAIN Cross.tenants
                        /\ Cross.tenants[t].pools = seen
                        /\ Cross.tenants[t].notMeasuredIn = Cross.priced \ seen
    <3> DEFINE seen == {id \in Cross.priced : t \in Measured(id)}
               R    == PricedPools(P)
    <3>1. R \subseteq DOMAIN P
      BY <2>5 DEF FromInputs
    <3>2. seen = {id \in R : t \in DOMAIN P[id].tenants}
      BY <2>6, <2>8, <3>1
    <3>3. DOMAIN Cross.tenants = ChargedIn(P)
      BY <2>8
    <3>4. t \in ChargedIn(P) <=> seen # {}
      BY <3>2 DEF ChargedIn
    <3>5. /\ TenantTotal(t, P, R, CostOfPriced(P)).pools = seen
          /\ TenantTotal(t, P, R, CostOfPriced(P)).notMeasuredIn = R \ seen
      BY <3>2 DEF TenantTotal
    <3> HIDE DEF seen, R
    <3>6. t \in ChargedIn(P) => Cross.tenants[t] = TenantTotal(t, P, R, CostOfPriced(P))
      BY <2>8 DEF R
    <3>7. Cross.priced = R
      BY <2>8 DEF R
    <3>8. QED
      BY <3>3, <3>4, <3>5, <3>6, <3>7 DEF seen
  <2>10. QED
    BY <2>7, <2>9 DEF NoFabricatedZero
<1>2. QED
  BY <1>1, ReportInductive, PTL

--------------------------------------------------------------------------------
(* The replication factor.                                                 *)

(* Two allocations of one pool that differ in absolute driver figures      *)
(* only.                                                                   *)
SameMoney(a, b) ==
    /\ DOMAIN a.tenants = DOMAIN b.tenants
    /\ a.poolCost = b.poolCost /\ (a.costed <=> b.costed) /\ (HasShares(a) <=> HasShares(b))
    /\ \A t \in DOMAIN a.tenants : /\ b.tenants[t].share = a.tenants[t].share
                                   /\ b.tenants[t].cost = a.tenants[t].cost

(* Another replication factor leaves a pool its tenants, shares and costs. *)
LEMMA FactorMovesNothing ==
  ASSUME NEW x, NEW i, NEW rf, NEW e, NEW j, GoodInventory(i), j = [i EXCEPT !.rf = rf]
  PROVE  SameMoney(Allocate(x, i, e), Allocate(x, j, e))
<1> DEFINE a == Allocate(x, i, e)
           b == Allocate(x, j, e)
<1>1. j.pools = i.pools
  BY DEF GoodInventory
<1>2. PICK q : q = Price(x.pool, PoolInventory(i, x.pool))
  OBVIOUS
<1>3. PoolInventory(j, x.pool) = PoolInventory(i, x.pool)
  BY <1>1 DEF PoolInventory
<1>4. DOMAIN a.tenants = DOMAIN x.drivers /\ DOMAIN b.tenants = DOMAIN x.drivers
  BY AllocateTenants
<1>5. a.poolCost = q.poolCost /\ b.poolCost = q.poolCost
  <2>1. a.poolCost = Price(x.pool, PoolInventory(i, x.pool)).poolCost
    BY AllocatePrices
  <2>2. b.poolCost = Price(x.pool, PoolInventory(j, x.pool)).poolCost
    BY AllocatePrices
  <2> HIDE DEF a, b
  <2>3. QED
    BY <1>2, <1>3, <2>1, <2>2
<1>6. a.costed <=> b.costed
  BY <1>5, AllocateCosted
<1>7. HasShares(a) <=> HasShares(b)
  <2>1. a.totalRaw = b.totalRaw
    BY AllocateTotals
  <2> HIDE DEF a, b
  <2>2. QED
    BY <2>1 DEF HasShares
<1>8. ASSUME NEW t \in DOMAIN x.drivers
      PROVE  b.tenants[t].share = a.tenants[t].share /\ b.tenants[t].cost = a.tenants[t].cost
  <2>1. /\ a.tenants[t] = TenantShare(x.drivers[t], SumFunction(x.drivers), Divisor(x, i).value, q)
        /\ b.tenants[t] = TenantShare(x.drivers[t], SumFunction(x.drivers), Divisor(x, j).value, q)
    <3>1. a.tenants[t] = TenantShare(x.drivers[t], SumFunction(x.drivers), Divisor(x, i).value,
                                     Price(x.pool, PoolInventory(i, x.pool)))
      BY AllocateShares
    <3>2. b.tenants[t] = TenantShare(x.drivers[t], SumFunction(x.drivers), Divisor(x, j).value,
                                     Price(x.pool, PoolInventory(j, x.pool)))
      BY AllocateShares
    <3> HIDE DEF a, b
    <3>3. QED
      BY <1>2, <1>3, <3>1, <3>2
  <2>2. \A raw, total, f, g : /\ TenantShare(raw, total, f, q).share = TenantShare(raw, total, g, q).share
                              /\ TenantShare(raw, total, f, q).cost = TenantShare(raw, total, g, q).cost
    BY DEF TenantShare
  <2> HIDE DEF a, b
  <2>3. QED
    BY <2>1, <2>2
<1> HIDE DEF a, b
<1>9. SameMoney(a, b)
  BY <1>4, <1>5, <1>6, <1>7, <1>8 DEF SameMoney
<1>10. QED
  BY <1>9 DEF a, b

(* So the lines of the total stay too.                                     *)
LEMMA TotalsStay ==
  ASSUME NEW P, NEW Q, DOMAIN P = DOMAIN Q, NEW i, NEW j, NEW e,
         \A id \in DOMAIN P : SameMoney(P[id], Q[id])
  PROVE  CrossPool(Q, j, e).tenants = CrossPool(P, i, e).tenants
<1>1. PricedPools(Q) = PricedPools(P)
  BY DEF PricedPools, SameMoney
<1>2. PICK R : R = PricedPools(P)
  OBVIOUS
<1>3. R \subseteq DOMAIN P
  BY <1>2 DEF PricedPools
<1>4. CostOfPriced(Q) = CostOfPriced(P)
  <2>1. [id \in R |-> Q[id].poolCost] = [id \in R |-> P[id].poolCost]
    BY <1>3 DEF SameMoney
  <2>2. QED
    BY <1>1, <1>2, <2>1 DEF CostOfPriced
<1>5. PICK c : c = CostOfPriced(P)
  OBVIOUS
<1>6. ChargedIn(Q) = ChargedIn(P)
  BY <1>1, <1>2, <1>3 DEF ChargedIn, SameMoney
<1>7. ASSUME NEW t PROVE TenantTotal(t, Q, R, c) = TenantTotal(t, P, R, c)
  <2>1. PICK charged : charged = {id \in R : t \in DOMAIN P[id].tenants}
    OBVIOUS
  <2>2. charged = {id \in R : t \in DOMAIN Q[id].tenants}
    BY <1>3, <2>1 DEF SameMoney
  <2>3. [id \in charged |-> Q[id].tenants[t].cost] = [id \in charged |-> P[id].tenants[t].cost]
    BY <1>3, <2>1 DEF SameMoney
  <2>4. QED
    BY <2>1, <2>2, <2>3 DEF TenantTotal
<1>8. /\ CrossPool(P, i, e).tenants = [t \in ChargedIn(P) |-> TenantTotal(t, P, R, c)]
      /\ CrossPool(Q, j, e).tenants = [t \in ChargedIn(Q) |-> TenantTotal(t, Q, R, c)]
  BY <1>1, <1>2, <1>4, <1>5, CrossTenants
<1>9. QED
  BY <1>6, <1>7, <1>8

(* Knowing, not knowing or overriding the replication factor moves no      *)
(* share and no cost (cost.go:561).                                        *)
THEOREM FactorCancels == Spec => []ReplicationFactorCancels
<1>1. ReportInv => ReplicationFactorCancels
  <2>1. SUFFICES ASSUME ReportInv, phase = "reported", NEW rf \in {None, 2, 3}
                 PROVE  LET other == AllocateAll(ms, [inv EXCEPT !.rf = rf], expected)
                        IN  /\ other.cross.tenants = Cross.tenants
                            /\ \A id \in DOMAIN Pools : \A t \in DOMAIN Pools[id].tenants :
                                /\ other.pools[id].tenants[t].share = Pools[id].tenants[t].share
                                /\ other.pools[id].tenants[t].cost = Pools[id].tenants[t].cost
    BY DEF ReplicationFactorCancels, Reported
  <2>2. GoodInventory(inv) /\ report = AllocateAll(ms, inv, expected)
    BY <2>1 DEF ReportInv
  <2>3. PICK j : j = [inv EXCEPT !.rf = rf]
    OBVIOUS
  <2>4. PICK P, Q : P = AllocateAll(ms, inv, expected).pools /\ Q = AllocateAll(ms, j, expected).pools
    OBVIOUS
  <2>5. Pools = P /\ Cross = CrossPool(P, inv, expected) /\ AllocateAll(ms, j, expected).cross = CrossPool(Q, j, expected)
    BY <2>2, <2>4, ReportIs DEF Pools, Cross
  <2>6. /\ P = [id \in DOMAIN ms |-> Allocate(ms[id], inv, expected)]
        /\ Q = [id \in DOMAIN ms |-> Allocate(ms[id], j, expected)]
    BY <2>4, ReportIs
  <2>7. DOMAIN P = DOMAIN Q /\ \A id \in DOMAIN P : SameMoney(P[id], Q[id])
    <3>1. \A id \in DOMAIN ms : SameMoney(Allocate(ms[id], inv, expected), Allocate(ms[id], j, expected))
      BY <2>2, <2>3, FactorMovesNothing
    <3>2. QED
      BY <2>6, <3>1
  <2>8. CrossPool(Q, j, expected).tenants = CrossPool(P, inv, expected).tenants
    BY <2>7, TotalsStay
  <2>9. QED
    BY <2>3, <2>4, <2>5, <2>7, <2>8 DEF SameMoney
<1>2. QED
  BY <1>1, ReportInductive, PTL

--------------------------------------------------------------------------------
(* The components of a pool.                                               *)

(* The components of a pool that have a full price.                        *)
PricedOf(id, p) == {c \in PoolComponents(id) \cap DOMAIN p.components : IsPriced(p.components[c])}

(* Component prices are numbers.                                           *)
GoodComponents(p) == \A k \in DOMAIN p.components : Figures(p.components[k])

(* S is what is priced in costs, at replicas times price.                  *)
CostsKnown(id, p, costs, S) ==
    /\ S = {c \in DOMAIN costs : costs[c] # None} /\ IsFiniteSet(S)
    /\ \A c \in S : costs[c] = p.components[c].replicas * p.components[c].price /\ costs[c] \in Int

(* What the priced components of a pool are and cost.                      *)
LEMMA ComponentsPriced ==
  ASSUME NEW id, NEW p, GoodComponents(p)
  PROVE  CostsKnown(id, p, ComponentCosts(id, p), PricedOf(id, p))
<1> DEFINE costs == ComponentCosts(id, p)
<1>1. /\ DOMAIN costs = PoolComponents(id) \cap DOMAIN p.components
      /\ \A c \in DOMAIN costs : costs[c] = IF IsPriced(p.components[c])
                                            THEN p.components[c].replicas * p.components[c].price ELSE None
  BY DEF ComponentCosts
<1> HIDE DEF costs
<1>2. ASSUME NEW c \in DOMAIN costs, IsPriced(p.components[c])
      PROVE  /\ costs[c] = p.components[c].replicas * p.components[c].price
             /\ costs[c] \in Int /\ costs[c] # None
  <2>1. p.components[c].replicas \in Int /\ p.components[c].price \in Int
    BY <1>1, <1>2, CasesAssumption DEF GoodComponents, Figures, Number, IsPriced
  <2>2. costs[c] = p.components[c].replicas * p.components[c].price
    BY <1>1, <1>2
  <2>3. costs[c] \in Int
    BY <2>1, <2>2, Products
  <2>4. QED
    BY <2>2, <2>3, CasesAssumption
<1>3. \A c \in DOMAIN costs : ~IsPriced(p.components[c]) => costs[c] = None
  BY <1>1
<1>4. PricedOf(id, p) = {c \in DOMAIN costs : costs[c] # None}
  BY <1>1, <1>2, <1>3 DEF PricedOf
<1>5. IsFiniteSet(PricedOf(id, p))
  <2>1. PricedOf(id, p) \in SUBSET PoolComponents(id)
    BY DEF PricedOf
  <2>2. QED
    BY <2>1, ComponentsFinite
<1>6. \A c \in PricedOf(id, p) : c \in DOMAIN costs /\ IsPriced(p.components[c])
  BY <1>1 DEF PricedOf
<1>7. QED
  BY <1>2, <1>4, <1>5, <1>6 DEF costs, CostsKnown

(* The price of a pool by component is the sum over them.                  *)
LEMMA ComponentsPrice ==
  ASSUME NEW id, NEW p, GoodComponents(p)
  PROVE  /\ PriceComponents(id, p).unpriced = PoolComponents(id) \ PricedOf(id, p)
         /\ PricedOf(id, p) = {} => PriceComponents(id, p).poolCost = None
         /\ PricedOf(id, p) # {} =>
                PriceComponents(id, p).poolCost = SumFunctionOnSet(ComponentCosts(id, p), PricedOf(id, p))
<1> DEFINE costs == ComponentCosts(id, p)
           priced == {c \in DOMAIN costs : costs[c] # None}
<1>1. priced = PricedOf(id, p) /\ IsFiniteSet(priced)
  <2>1. CostsKnown(id, p, costs, PricedOf(id, p))
    BY ComponentsPriced
  <2>2. QED
    BY <2>1 DEF CostsKnown
<1>2. PriceComponents(id, p).unpriced = PoolComponents(id) \ priced
  BY DEF PriceComponents
<1>3. PriceComponents(id, p).poolCost = IF priced = {} THEN None ELSE SumFunction([c \in priced |-> costs[c]])
  BY DEF PriceComponents
<1> HIDE DEF costs, priced
<1>4. SumFunction([c \in priced |-> costs[c]]) = SumFunctionOnSet(costs, priced)
  BY <1>1, SumOfFunction
<1>5. QED
  BY <1>1, <1>2, <1>3, <1>4 DEF costs

(* Pricing one more component adds what it costs.                          *)
LEMMA OneMoreComponent ==
  ASSUME NEW id, NEW p, GoodComponents(p), "components" \in DOMAIN p,
         PricedOf(id, p) # {}, NEW c \in PoolComponents(id) \ PricedOf(id, p), NEW q,
         q = [p EXCEPT !.components =
                [d \in DOMAIN p.components \cup {c} |->
                    IF d = c THEN [replicas |-> 1, price |-> 1] ELSE p.components[d]]]
  PROVE  PriceComponents(id, q).poolCost > PriceComponents(id, p).poolCost
<1>1. PICK one : one = [replicas |-> 1, price |-> 1]
  OBVIOUS
<1>2. q.components = [d \in DOMAIN p.components \cup {c} |-> IF d = c THEN one ELSE p.components[d]]
  BY <1>1
<1>3. one.replicas = 1 /\ one.price = 1 /\ Figures(one) /\ IsPriced(one)
  <2>1. one.replicas = 1 /\ one.price = 1 /\ 1 \in Int
    BY <1>1
  <2>2. 1 # None
    BY <2>1, CasesAssumption
  <2>3. QED
    BY <2>1, <2>2 DEF Figures, Number, IsPriced
<1>4. /\ DOMAIN q.components = DOMAIN p.components \cup {c}
      /\ q.components[c] = one
      /\ \A d \in DOMAIN p.components : d # c => q.components[d] = p.components[d]
  BY <1>2
<1>5. GoodComponents(q)
  BY <1>3, <1>4 DEF GoodComponents
<1>6. PricedOf(id, q) = PricedOf(id, p) \cup {c} /\ c \notin PricedOf(id, p)
  BY <1>3, <1>4 DEF PricedOf
<1>7. PICK S, f, g : S = PricedOf(id, p) /\ f = ComponentCosts(id, p) /\ g = ComponentCosts(id, q)
  OBVIOUS
<1>8. IsFiniteSet(S) /\ \A d \in S : f[d] \in Int /\ f[d] = p.components[d].replicas * p.components[d].price
  <2>1. CostsKnown(id, p, f, S)
    BY <1>7, ComponentsPriced
  <2>2. QED
    BY <2>1 DEF CostsKnown
<1>9. \A d \in S \cup {c} : g[d] = q.components[d].replicas * q.components[d].price /\ g[d] \in Int
  <2>1. CostsKnown(id, q, g, S \cup {c})
    BY <1>5, <1>6, <1>7, ComponentsPriced
  <2>2. QED
    BY <2>1 DEF CostsKnown
<1>10. \A d \in S : f[d] = g[d]
  <2>1. \A d \in S : q.components[d] = p.components[d]
    BY <1>4, <1>6, <1>7 DEF PricedOf
  <2>2. SUFFICES ASSUME NEW d \in S PROVE f[d] = g[d]
    OBVIOUS
  <2>3. f[d] = p.components[d].replicas * p.components[d].price
    BY <1>8
  <2>4. g[d] = q.components[d].replicas * q.components[d].price
    BY <1>9
  <2>5. q.components[d] = p.components[d]
    BY <2>1
  <2>6. QED
    BY <2>3, <2>4, <2>5
<1>11. g[c] = 1
  <2>1. g[c] = one.replicas * one.price
    BY <1>4, <1>9
  <2>2. QED
    BY <1>3, <2>1
<1>12. SumFunctionOnSet(g, S \cup {c}) = SumFunctionOnSet(g, S) + g[c]
  <2>1. IsFiniteSet(S) /\ c \notin S
    BY <1>6, <1>7, <1>8
  <2>2. \A d \in S : g[d] \in Int
    BY <1>9
  <2>3. g[c] \in Int
    BY <1>11
  <2>4. QED
    BY <2>1, <2>2, <2>3, SumAdd
<1>13. SumFunctionOnSet(g, S) = SumFunctionOnSet(f, S) /\ SumFunctionOnSet(f, S) \in Int
  BY <1>8, <1>10, SumAgree, SumType
<1>14. PriceComponents(id, p).poolCost = SumFunctionOnSet(f, S)
  BY <1>7, ComponentsPrice
<1>15. PriceComponents(id, q).poolCost = SumFunctionOnSet(g, S \cup {c})
  <2>1. PricedOf(id, q) # {}
    BY <1>6
  <2>2. PriceComponents(id, q).poolCost = SumFunctionOnSet(ComponentCosts(id, q), PricedOf(id, q))
    BY <1>5, <2>1, ComponentsPrice
  <2>3. QED
    BY <1>6, <1>7, <2>2
<1>16. QED
  BY <1>11, <1>12, <1>13, <1>14, <1>15

(* The cost of a partly priced pool is a lower bound, and the total names  *)
(* it as partial (cost.go:630).                                            *)
THEOREM PartialIsLowerBound == Spec => []PartialPriceIsLowerBound
<1>1. ReportInv => PartialPriceIsLowerBound
  <2>1. SUFFICES ASSUME ReportInv, phase = "reported" PROVE PartialPriceIsLowerBound
    BY DEF PartialPriceIsLowerBound, Reported
  <2>2. GoodInputs(ms, inv) /\ report = AllocateAll(ms, inv, expected) /\ None \notin Int
    BY <2>1, CasesAssumption DEF ReportInv
  <2>3. PICK P : P = AllocateAll(ms, inv, expected).pools
    OBVIOUS
  <2>4. Pools = P /\ Cross = CrossPool(P, inv, expected)
    BY <2>2, <2>3, ReportIs DEF Pools, Cross
  <2>5. FromInputs(ms, inv, expected, P)
    BY <2>2, <2>3, PricedAre
  <2>6. Cross.priced = PricedPools(P) /\ Cross.partial = {id \in PricedPools(P) : P[id].unpriced # {}}
    BY <2>4, CrossSets
  <2>7. SUFFICES ASSUME NEW a \in Range(Pools), NEW p, p = PoolInventory(inv, a.pool), NEW unpriced,
                        unpriced = {c \in PoolComponents(a.pool) :
                                      c \notin DOMAIN p.components \/ ~IsPriced(p.components[c])},
                        a.costed, DOMAIN p.components # {}
                 PROVE  /\ unpriced # {} /\ a.pool \in Cross.priced <=> a.pool \in Cross.partial
                        /\ \A c \in unpriced :
                            PriceComponents(a.pool, [p EXCEPT !.components =
                                [d \in DOMAIN p.components \cup {c} |->
                                    IF d = c THEN [replicas |-> 1, price |-> 1] ELSE p.components[d]]]
                              ).poolCost > a.poolCost
    BY DEF PartialPriceIsLowerBound
  <2>8. PICK id \in DOMAIN P : a = P[id] /\ a.pool = id /\ a = Allocate(ms[id], inv, expected)
    <3>1. PICK id \in DOMAIN P : a = P[id]
      BY <2>4 DEF Range
    <3>2. \A j \in DOMAIN P : P[j] = Allocate(ms[j], inv, expected) /\ P[j].pool = j
      BY <2>5 DEF FromInputs
    <3>3. QED
      BY <3>1, <3>2
  <2>9. GoodComponents(p) /\ "components" \in DOMAIN p
    <3>1. id \in DOMAIN inv.pools
      BY <2>7, <2>8 DEF PoolInventory, NoInventory
    <3>2. QED
      BY <2>2, <2>7, <2>8, <3>1 DEF PoolInventory, GoodInputs, GoodInventory, GoodComponents
  <2>10. unpriced = PoolComponents(id) \ PricedOf(id, p)
    BY <2>7, <2>8 DEF PricedOf
  <2>11. a.poolCost = PriceComponents(id, p).poolCost /\ a.unpriced = PriceComponents(id, p).unpriced
    <3>1. ms[id].pool = id
      BY <2>8, AllocatePrices
    <3>2. a.poolCost = Price(id, p).poolCost /\ a.unpriced = Price(id, p).unpriced
      BY <2>7, <2>8, <3>1, AllocatePrices
    <3>3. Price(id, p) = PriceComponents(id, p)
      BY <2>7 DEF Price
    <3>4. QED
      BY <3>2, <3>3
  <2>12. a.unpriced = unpriced
    BY <2>2, <2>9, <2>10, <2>11, ComponentsPrice
  <2>13. PricedOf(id, p) # {}
    <3>1. a.poolCost # None
      BY <2>7, <2>8, AllocateCosted
    <3>2. QED
      BY <2>2, <2>9, <2>11, <3>1, ComponentsPrice
  <2>14. ASSUME NEW c \in unpriced
         PROVE  PriceComponents(a.pool, [p EXCEPT !.components =
                    [d \in DOMAIN p.components \cup {c} |->
                        IF d = c THEN [replicas |-> 1, price |-> 1] ELSE p.components[d]]]
                  ).poolCost > a.poolCost
    <3>1. PICK q : q = [p EXCEPT !.components =
                          [d \in DOMAIN p.components \cup {c} |->
                              IF d = c THEN [replicas |-> 1, price |-> 1] ELSE p.components[d]]]
      OBVIOUS
    <3>2. c \in PoolComponents(id) \ PricedOf(id, p)
      BY <2>10
    <3>3. PriceComponents(id, q).poolCost > PriceComponents(id, p).poolCost
      BY <2>2, <2>9, <2>13, <3>1, <3>2, OneMoreComponent
    <3>4. QED
      BY <2>8, <2>11, <3>1, <3>3
  <2>15. unpriced # {} /\ a.pool \in Cross.priced <=> a.pool \in Cross.partial
    BY <2>6, <2>8, <2>12
  <2>16. QED
    BY <2>14, <2>15
<1>2. QED
  BY <1>1, ReportInductive, PTL

--------------------------------------------------------------------------------
(* Sums of fractions.                                                      *)

(* The recursion SumFracs is defined by.                                   *)
IsFracSum(g, f, S) ==
    g = [s \in SUBSET S |-> IF s = {} THEN Zero ELSE Plus(f[Pick(s)], g[s \ {Pick(s)}])]

(* A sum of fractions is the value of the function its recursion           *)
(* describes.                                                              *)
LEMMA FracsUnfold == \A f : SumFracs(f) = (CHOOSE g : IsFracSum(g, f, DOMAIN f))[DOMAIN f]
BY DEF SumFracs, FoldFunction, FoldFunctionOnSet, MapThenFoldSet, IsFracSum, Pick

(* Two functions that satisfy the recursion agree wherever both are        *)
(* defined.                                                                *)
LEMMA FracsUnique ==
  ASSUME NEW f, NEW g, NEW h, NEW S, NEW T, IsFracSum(g, f, S), IsFracSum(h, f, T),
         NEW U, IsFiniteSet(U), U \subseteq S, U \subseteq T
  PROVE  g[U] = h[U]
<1> DEFINE B == {V \in SUBSET U : g[V] # h[V]}
<1> SUFFICES ASSUME B # {} PROVE FALSE
  OBVIOUS
<1>1. B \subseteq SUBSET U
  OBVIOUS
<1>2. PICK V \in B : \A W \in SUBSET V : W # V => W \notin B
  <2> HIDE DEF B
  <2>1. QED
    BY <1>1, MinimalSubset
<1>3. CASE V = {}
  BY <1>2, <1>3 DEF IsFracSum
<1>4. CASE V # {}
  <2>1. Pick(V) \in V
    BY <1>4 DEF Pick
  <2> DEFINE W == V \ {Pick(V)}
  <2>2. W \in SUBSET V /\ W # V /\ W \in SUBSET S /\ W \in SUBSET T /\ W \in SUBSET U
    BY <2>1
  <2>3. g[W] = h[W]
    BY <1>2, <2>2
  <2>4. g[V] = Plus(f[Pick(V)], g[W]) /\ h[V] = Plus(f[Pick(V)], h[W])
    BY <1>4 DEF IsFracSum
  <2>5. QED
    BY <2>3, <2>4
<1>5. QED
  BY <1>3, <1>4

(* The recursion has a solution over every finite set.                     *)
LEMMA FracsExist ==
  ASSUME NEW f, NEW S, IsFiniteSet(S)
  PROVE  \E g : IsFracSum(g, f, S)
<1> DEFINE B == {V \in SUBSET S : ~ \E g : IsFracSum(g, f, V)}
<1> SUFFICES ASSUME B # {} PROVE FALSE
  OBVIOUS
<1>1. B \subseteq SUBSET S
  OBVIOUS
<1>2. PICK V \in B : \A W \in SUBSET V : W # V => W \notin B
  <2> HIDE DEF B
  <2>1. QED
    BY <1>1, MinimalSubset
<1> DEFINE Sub(W) == CHOOSE g : IsFracSum(g, f, W)
           Rest(s) == s \ {Pick(s)}
           G == [s \in SUBSET V |-> IF s = {} THEN Zero ELSE Plus(f[Pick(s)], Sub(Rest(s))[Rest(s)])]
<1>3. \A W \in SUBSET V : W # V => IsFracSum(Sub(W), f, W)
  BY <1>2
<1>4. ASSUME NEW s \in SUBSET V, s # {} PROVE G[Rest(s)] = Sub(Rest(s))[Rest(s)]
  <2> DEFINE w == Rest(s)
  <2>1. w \in SUBSET V /\ w # V
    BY <1>4 DEF Pick
  <2>2. IsFracSum(Sub(w), f, w)
    BY <1>3, <2>1
  <2>3. CASE w = {}
    BY <2>2, <2>3 DEF IsFracSum
  <2>4. CASE w # {}
    <3> DEFINE v == Rest(w)
    <3>1. v \in SUBSET V /\ v # V /\ v \in SUBSET w
      BY <2>1
    <3>2. IsFracSum(Sub(v), f, v)
      BY <1>3, <3>1
    <3>3. IsFiniteSet(v)
      BY <3>1, FS_Subset
    <3>4. Sub(v)[v] = Sub(w)[v]
      <4> HIDE DEF Sub, v, w
      <4>1. QED
        BY <2>2, <3>1, <3>2, <3>3, FracsUnique
    <3>5. G[w] = Plus(f[Pick(w)], Sub(v)[v])
      BY <2>1, <2>4
    <3>6. Sub(w)[w] = Plus(f[Pick(w)], Sub(w)[v])
      <4> HIDE DEF Sub
      <4>1. QED
        BY <2>2, <2>4 DEF IsFracSum
    <3>7. QED
      BY <3>4, <3>5, <3>6
  <2>5. QED
    BY <2>3, <2>4
<1>5. IsFracSum(G, f, V)
  <2>1. \A s \in SUBSET V : s # {} => G[s] = Plus(f[Pick(s)], G[Rest(s)])
    BY <1>4
  <2>2. G = [s \in SUBSET V |-> G[s]] /\ G[{}] = Zero
    OBVIOUS
  <2> HIDE DEF G
  <2>3. \A s \in SUBSET V : G[s] = IF s = {} THEN Zero ELSE Plus(f[Pick(s)], G[Rest(s)])
    BY <2>1, <2>2
  <2>4. QED
    BY <2>2, <2>3 DEF IsFracSum
<1>6. QED
  <2> HIDE DEF G
  <2>1. QED
    BY <1>2, <1>5

(* q is the number n/d.                                                    *)
Denotes(q, n, d) ==
    /\ q.num \in Int /\ q.den \in Int /\ q.den > 0
    /\ n \in Int
    /\ q.num * d = n * q.den

(* Plus adds.                                                              *)
LEMMA PlusDenotes ==
  ASSUME NEW x, NEW y, NEW n, NEW m, NEW d \in Int, Denotes(x, n, d), Denotes(y, m, d)
  PROVE  Denotes(Plus(x, y), n + m, d)
<1>1. /\ x.num \in Int /\ x.den \in Int /\ x.den > 0 /\ n \in Int /\ x.num * d = n * x.den
      /\ y.num \in Int /\ y.den \in Int /\ y.den > 0 /\ m \in Int /\ y.num * d = m * y.den
  BY DEF Denotes
<1>2. ASSUME NEW a \in Int, NEW b \in Int, NEW u \in Int, NEW v \in Int, NEW k \in Int, NEW l \in Int,
             a * d = k * u, b * d = l * v
      PROVE  (a * v + b * u) * d = (k + l) * (u * v)
  <2>1. (a * v + b * u) * d = (a * d) * v + (b * d) * u
    OBVIOUS
  <2>2. (k * u) * v + (l * v) * u = (k + l) * (u * v)
    OBVIOUS
  <2>3. QED
    BY <1>2, <2>1, <2>2
<1>3. (x.num * y.den + y.num * x.den) * d = (n + m) * (x.den * y.den)
  <2>1. PICK a, b, u, v : a = x.num /\ b = y.num /\ u = x.den /\ v = y.den
    OBVIOUS
  <2>2. a \in Int /\ b \in Int /\ u \in Int /\ v \in Int /\ n \in Int /\ m \in Int
    BY <1>1, <2>1
  <2>3. a * d = n * u /\ b * d = m * v
    BY <1>1, <2>1
  <2>4. (a * v + b * u) * d = (n + m) * (u * v)
    BY <1>2, <2>2, <2>3
  <2>5. QED
    BY <2>1, <2>4
<1>4. \A a, b \in Int : a > 0 /\ b > 0 => a * b \in Int /\ a * b > 0
  OBVIOUS
<1>5. x.den * y.den \in Int /\ x.den * y.den > 0
  BY <1>1, <1>4
<1>6. x.num * y.den + y.num * x.den \in Int /\ n + m \in Int
  BY <1>1, Products
<1>7. Plus(x, y).num = x.num * y.den + y.num * x.den /\ Plus(x, y).den = x.den * y.den
  BY DEF Plus, Frac
<1>8. QED
  BY <1>3, <1>5, <1>6, <1>7 DEF Denotes

(* If every fraction is h[x]/d, their sum is the sum of the h[x] over d.   *)
LEMMA FracsDenote ==
  ASSUME NEW f, NEW S, S = DOMAIN f, IsFiniteSet(S), NEW d \in Int, NEW h,
         \A x \in S : Denotes(f[x], h[x], d)
  PROVE  Denotes(SumFracs(f), SumFunctionOnSet(h, S), d)
<1>1. PICK g : IsFracSum(g, f, S) /\ SumFracs(f) = g[S]
  BY FracsUnfold, FracsExist
<1> DEFINE Sum(V) == SumFunctionOnSet(h, V)
           B == {V \in SUBSET S : ~Denotes(g[V], Sum(V), d)}
<1>2. SUFFICES ASSUME B # {} PROVE FALSE
  BY <1>1
<1>3. B \subseteq SUBSET S
  OBVIOUS
<1>4. PICK V \in B : \A W \in SUBSET V : W # V => W \notin B
  <2> HIDE DEF B
  <2>1. QED
    BY <1>2, <1>3, MinimalSubset
<1>5. CASE V = {}
  <2>1. g[V] = Zero
    BY <1>1, <1>5 DEF IsFracSum
  <2>2. Sum(V) = 0
    BY <1>5, SumEmpty
  <2> HIDE DEF Sum
  <2>3. Denotes(Zero, 0, d)
    BY DEF Denotes, Zero, Frac
  <2>4. Denotes(g[V], Sum(V), d)
    BY <2>1, <2>2, <2>3
  <2>5. QED
    BY <1>4, <2>4
<1>6. CASE V # {}
  <2> DEFINE p == Pick(V)
             W == V \ {p}
  <2>1. IsFiniteSet(V)
    BY FS_Subset
  <2>2. p \in V /\ Sum(V) = h[p] + Sum(W)
    BY <1>6, <2>1, SumPick
  <2>3. W \in SUBSET V /\ W # V
    BY <2>2
  <2>4. g[V] = Plus(f[p], g[W])
    BY <1>1, <1>6 DEF IsFracSum
  <2> HIDE DEF p, W, Sum
  <2>5. Denotes(g[W], Sum(W), d)
    BY <1>4, <2>3
  <2>6. Denotes(f[p], h[p], d)
    BY <2>2
  <2>7. Denotes(g[V], Sum(V), d)
    BY <2>2, <2>4, <2>5, <2>6, PlusDenotes
  <2>8. QED
    BY <1>4, <2>7
<1>7. QED
  BY <1>5, <1>6

(* Finitely many positive numbers have a common multiple.                  *)
LEMMA CommonMultiple ==
  ASSUME NEW n, NEW S, IsFiniteSet(S), \A x \in S : n[x] \in Int /\ n[x] > 0
  PROVE  \E d, k : d \in Int /\ d > 0 /\ \A x \in S : k[x] \in Int /\ n[x] * k[x] = d
<1> DEFINE Common(V) == \E d, k : d \in Int /\ d > 0 /\ \A x \in V : k[x] \in Int /\ n[x] * k[x] = d
           B == {V \in SUBSET S : ~Common(V)}
<1> SUFFICES ASSUME B # {} PROVE FALSE
  OBVIOUS
<1>1. B \subseteq SUBSET S
  OBVIOUS
<1>2. PICK V \in B : \A W \in SUBSET V : W # V => W \notin B
  <2> HIDE DEF B
  <2>1. QED
    BY <1>1, MinimalSubset
<1>3. V # {}
  <2>1. Common({})
    <3>1. 1 \in Int /\ 1 > 0
      OBVIOUS
    <3>2. QED
      BY <3>1
  <2> HIDE DEF Common
  <2>2. QED
    BY <1>2, <2>1
<1>4. PICK y \in V : TRUE
  BY <1>3
<1>5. PICK W : W = V \ {y}
  OBVIOUS
<1>6. Common(W)
  <2>1. W \in SUBSET V /\ W # V /\ W \in SUBSET S
    BY <1>4, <1>5
  <2>2. QED
    BY <1>2, <2>1
<1>7. PICK d, k : d \in Int /\ d > 0 /\ \A x \in W : k[x] \in Int /\ n[x] * k[x] = d
  BY <1>6
<1>8. n[y] \in Int /\ n[y] > 0
  BY <1>4
<1>9. PICK e, j : e = d * n[y] /\ j = [x \in V |-> IF x = y THEN d ELSE k[x] * n[y]]
  OBVIOUS
<1>10. e \in Int /\ e > 0
  <2>1. \A a, b \in Int : a > 0 /\ b > 0 => a * b \in Int /\ a * b > 0
    OBVIOUS
  <2>2. QED
    BY <1>7, <1>8, <1>9, <2>1
<1>11. ASSUME NEW x \in V PROVE j[x] \in Int /\ n[x] * j[x] = e
  <2>1. CASE x = y
    <3>1. j[x] = d
      BY <1>9, <2>1
    <3>2. \A a, b \in Int : a * b = b * a
      OBVIOUS
    <3>3. n[x] * d = d * n[y]
      BY <1>7, <1>8, <2>1, <3>2
    <3>4. QED
      BY <1>7, <1>9, <3>1, <3>3
  <2>2. CASE x # y
    <3>1. x \in W /\ j[x] = k[x] * n[y]
      BY <1>5, <1>9, <2>2
    <3>2. k[x] \in Int /\ n[x] * k[x] = d /\ n[x] \in Int
      BY <1>7, <3>1
    <3>3. \A a, b, c \in Int : a * (b * c) = (a * b) * c
      OBVIOUS
    <3>4. n[x] * (k[x] * n[y]) = d * n[y]
      BY <1>8, <3>2, <3>3
    <3>5. k[x] * n[y] \in Int
      BY <1>8, <3>2, Products
    <3>6. QED
      BY <1>9, <3>1, <3>4, <3>5
  <2>3. QED
    BY <2>1, <2>2
<1>12. Common(V)
  BY <1>10, <1>11
<1>13. QED
  <2> HIDE DEF Common
  <2>1. QED
    BY <1>2, <1>12

--------------------------------------------------------------------------------
(* What a tenant owes, counted in parts of 1/d.                            *)

(* k[id] makes every priced pool's total a divisor of d.                   *)
Scales(given, P, d, k) ==
    /\ d \in Int /\ d > 0
    /\ \A id \in PricedPools(P) :
        k[id] \in Int /\ SumFunction(given[id].drivers) \in Int /\ SumFunction(given[id].drivers) * k[id] = d

(* What each tenant of a pool owes there: its driver times the price of a  *)
(* unit.                                                                   *)
OwedIn(given, P, k) ==
    [id \in PricedPools(P) |->
        [t \in DOMAIN given[id].drivers |-> given[id].drivers[t] * (P[id].poolCost * k[id])]]

(* The priced pools a tenant is charged for.                               *)
PaidBy(given, P, t) == {id \in PricedPools(P) : t \in DOMAIN given[id].drivers}

(* What each tenant owes in all of them.                                   *)
Owed(given, P, k) ==
    [t \in ChargedIn(P) |->
        SumFunctionOnSet([id \in PricedPools(P) |-> OwedIn(given, P, k)[id][t]], PaidBy(given, P, t))]

(* There is a common denominator for all priced pools.                     *)
LEMMA ScalesExist ==
  ASSUME NEW given, NEW i, NEW e, GoodInputs(given, i), NEW P, FromInputs(given, i, e, P)
  PROVE  \E d, k : Scales(given, P, d, k)
<1> DEFINE n == [id \in PricedPools(P) |-> SumFunction(given[id].drivers)]
<1>1. \A id \in PricedPools(P) : n[id] \in Int /\ n[id] > 0 /\ n[id] = SumFunction(given[id].drivers)
  <2>1. SUFFICES ASSUME NEW id \in PricedPools(P)
                 PROVE  SumFunction(given[id].drivers) \in Int /\ SumFunction(given[id].drivers) > 0
    OBVIOUS
  <2>2. id \in DOMAIN P /\ id \in DOMAIN given /\ SumFunction(given[id].drivers) > 0
    BY DEF FromInputs
  <2>3. GoodMeasurement(given[id])
    BY <2>2 DEF GoodInputs, GoodMeasurements
  <2>4. QED
    BY <2>2, <2>3, TotalIs
<1>2. IsFiniteSet(PricedPools(P))
  BY DEF FromInputs
<1> HIDE DEF n
<1>3. PICK d, k : d \in Int /\ d > 0 /\ \A id \in PricedPools(P) : k[id] \in Int /\ n[id] * k[id] = d
  BY <1>1, <1>2, CommonMultiple
<1>4. Scales(given, P, d, k)
  BY <1>1, <1>3 DEF Scales
<1>5. QED
  BY <1>4

(* A tenant's cost in a pool, in parts of 1/d.                             *)
LEMMA OwedInIs ==
  ASSUME NEW given, NEW i, NEW e, GoodInputs(given, i), NEW P, FromInputs(given, i, e, P),
         NEW d, NEW k, Scales(given, P, d, k), NEW id \in PricedPools(P), NEW t \in DOMAIN given[id].drivers
  PROVE  /\ OwedIn(given, P, k)[id][t] \in Int
         /\ Denotes(P[id].tenants[t].cost, OwedIn(given, P, k)[id][t], d)
<1>1. PICK raw, c, m, total : /\ raw = given[id].drivers[t] /\ c = P[id].poolCost /\ m = k[id]
                              /\ total = SumFunction(given[id].drivers)
  OBVIOUS
<1>2. id \in DOMAIN P /\ id \in DOMAIN given /\ total > 0 /\ c \in Int /\ c # None /\ P[id] = Allocate(given[id], i, e)
      /\ given[id].pool = id
  <2>1. id \in DOMAIN P /\ id \in DOMAIN given /\ P[id].poolCost # None /\ SumFunction(given[id].drivers) > 0
    BY DEF FromInputs
  <2>2. P[id].poolCost \in Int /\ P[id] = Allocate(given[id], i, e) /\ P[id].pool = id
    BY <2>1 DEF FromInputs
  <2>3. given[id].pool = id
    BY <2>1 DEF GoodInputs, GoodMeasurements
  <2>4. QED
    BY <1>1, <2>1, <2>2, <2>3
<1>3. raw \in Int /\ m \in Int /\ total \in Int /\ total * m = d /\ d \in Int
  <2>1. raw \in Int
    BY <1>1, <1>2 DEF GoodInputs, GoodMeasurements, GoodMeasurement
  <2>2. QED
    BY <1>1, <2>1 DEF Scales
<1>4. P[id].tenants[t].cost = Frac(raw * c, total)
  <2>1. PICK q, f : q = Price(given[id].pool, PoolInventory(i, given[id].pool)) /\ f = Divisor(given[id], i).value
    OBVIOUS
  <2>2. P[id].tenants[t] = TenantShare(raw, total, f, q)
    BY <1>1, <1>2, <2>1, AllocateShares
  <2>3. q.poolCost = c
    BY <1>1, <1>2, <2>1, AllocatePrices
  <2>4. ~(total <= 0 \/ q.poolCost = None)
    BY <1>2, <1>3, <2>3
  <2>5. TenantShare(raw, total, f, q).cost = Frac(raw * q.poolCost, total)
    BY <2>4 DEF TenantShare
  <2>6. QED
    BY <2>2, <2>3, <2>5
<1>5. OwedIn(given, P, k)[id][t] = raw * (c * m)
  BY <1>1 DEF OwedIn
<1>6. raw * c \in Int /\ raw * (c * m) \in Int
  BY <1>2, <1>3, Products
<1>7. (raw * c) * d = (raw * (c * m)) * total
  <2>1. \A x, y, z, w \in Int : (x * y) * (w * z) = (x * (y * z)) * w
    OBVIOUS
  <2>2. (raw * c) * (total * m) = (raw * (c * m)) * total
    BY <1>2, <1>3, <2>1
  <2>3. QED
    BY <1>3, <2>2
<1>8. QED
  BY <1>2, <1>3, <1>4, <1>5, <1>6, <1>7 DEF Denotes, Frac

(* A tenant's cost over the pools, in parts of 1/d, and its share.         *)
LEMMA TenantOwes ==
  ASSUME NEW given, NEW i, NEW e, GoodInputs(given, i), NEW P, FromInputs(given, i, e, P),
         NEW d, NEW k, Scales(given, P, d, k), NEW t \in ChargedIn(P), NEW pc
  PROVE  /\ Denotes(TenantTotal(t, P, PricedPools(P), pc).cost, Owed(given, P, k)[t], d)
         /\ TenantTotal(t, P, PricedPools(P), pc).share
                = Frac(TenantTotal(t, P, PricedPools(P), pc).cost.num,
                       TenantTotal(t, P, PricedPools(P), pc).cost.den * pc)
<1>1. PICK R, S : R = PricedPools(P) /\ S = PaidBy(given, P, t)
  OBVIOUS
<1>2. S = {id \in R : t \in DOMAIN P[id].tenants}
  <2>1. \A id \in R : DOMAIN P[id].tenants = DOMAIN given[id].drivers
    BY <1>1 DEF FromInputs
  <2>2. QED
    BY <1>1, <2>1 DEF PaidBy
<1>3. IsFiniteSet(S)
  BY <1>1, <1>2, FS_Subset DEF FromInputs
<1>4. PICK f, h : /\ f = [id \in S |-> P[id].tenants[t].cost]
                  /\ h = [id \in R |-> OwedIn(given, P, k)[id][t]]
  OBVIOUS
<1>5. \A id \in S : Denotes(f[id], h[id], d)
  <2>1. SUFFICES ASSUME NEW id \in S PROVE Denotes(f[id], h[id], d)
    OBVIOUS
  <2>2. id \in PricedPools(P) /\ t \in DOMAIN given[id].drivers
    BY <1>1 DEF PaidBy
  <2>3. f[id] = P[id].tenants[t].cost /\ h[id] = OwedIn(given, P, k)[id][t]
    BY <1>1, <1>4, <2>2
  <2>4. QED
    BY <2>2, <2>3, OwedInIs
<1>6. Denotes(SumFracs(f), SumFunctionOnSet(h, S), d)
  <2>1. S = DOMAIN f /\ d \in Int
    BY <1>4 DEF Scales
  <2>2. QED
    BY <1>3, <1>5, <2>1, FracsDenote
<1>7. TenantTotal(t, P, R, pc).cost = SumFracs(f)
  BY <1>2, <1>4 DEF TenantTotal
<1>8. Owed(given, P, k)[t] = SumFunctionOnSet(h, S)
  BY <1>1, <1>4 DEF Owed
<1>9. TenantTotal(t, P, R, pc).share
          = Frac(TenantTotal(t, P, R, pc).cost.num, TenantTotal(t, P, R, pc).cost.den * pc)
  BY DEF TenantTotal
<1>10. QED
  BY <1>1, <1>6, <1>7, <1>8, <1>9

(* Finitely many tenants are charged, all those of the priced pools among  *)
(* them.                                                                   *)
LEMMA ChargedFinite ==
  ASSUME NEW given, NEW i, NEW e, GoodInputs(given, i), NEW P, FromInputs(given, i, e, P)
  PROVE  /\ IsFiniteSet(ChargedIn(P))
         /\ \A id \in PricedPools(P) : DOMAIN given[id].drivers \subseteq ChargedIn(P)
         /\ \A id \in PricedPools(P) : IsFiniteSet(DOMAIN given[id].drivers)
<1>1. \A id \in PricedPools(P) : /\ DOMAIN P[id].tenants = DOMAIN given[id].drivers
                                 /\ IsFiniteSet(DOMAIN given[id].drivers)
  <2>1. SUFFICES ASSUME NEW id \in PricedPools(P)
                 PROVE  /\ DOMAIN P[id].tenants = DOMAIN given[id].drivers
                        /\ IsFiniteSet(DOMAIN given[id].drivers)
    OBVIOUS
  <2>2. id \in DOMAIN P /\ id \in DOMAIN given /\ DOMAIN P[id].tenants = DOMAIN given[id].drivers
    BY DEF FromInputs
  <2>3. QED
    BY <2>2 DEF GoodInputs, GoodMeasurements, GoodMeasurement
<1>2. PICK h : h = [id \in PricedPools(P) |-> DOMAIN P[id].tenants]
  OBVIOUS
<1>3. IsFiniteSet({h[id] : id \in PricedPools(P)})
  <2>1. IsFiniteSet(PricedPools(P))
    BY DEF FromInputs
  <2>2. PICK R : R = PricedPools(P)
    OBVIOUS
  <2>3. IsFiniteSet({h[id] : id \in R})
    <3> DEFINE B == {V \in SUBSET R : ~IsFiniteSet({h[id] : id \in V})}
    <3>1. SUFFICES ASSUME B # {} PROVE FALSE
      OBVIOUS
    <3>2. PICK V \in B : \A W \in SUBSET V : W # V => W \notin B
      <4>1. B \subseteq SUBSET R /\ IsFiniteSet(R)
        BY <2>1, <2>2
      <4> HIDE DEF B
      <4>2. QED
        BY <3>1, <4>1, MinimalSubset
    <3>3. CASE V = {}
      <4>1. {h[id] : id \in V} = {}
        BY <3>3
      <4>2. QED
        BY <3>2, <4>1, FS_EmptySet
    <3>4. CASE V # {}
      <4>1. PICK y \in V : TRUE
        BY <3>4
      <4>2. PICK W : W = V \ {y}
        OBVIOUS
      <4>3. IsFiniteSet({h[id] : id \in W})
        BY <3>2, <4>1, <4>2
      <4>4. {h[id] : id \in V} = {h[id] : id \in W} \cup {h[y]}
        BY <4>1, <4>2
      <4>5. PICK Z : Z = {h[id] : id \in W}
        OBVIOUS
      <4>6. IsFiniteSet(Z \cup {h[y]})
        BY <4>3, <4>5, FS_AddElement
      <4>7. QED
        BY <3>2, <4>4, <4>5, <4>6
    <3>5. QED
      BY <3>3, <3>4
  <2>4. QED
    BY <2>2, <2>3
<1>4. ChargedIn(P) = UNION {h[id] : id \in PricedPools(P)}
  BY <1>2 DEF ChargedIn
<1>5. \A T \in {h[id] : id \in PricedPools(P)} : IsFiniteSet(T)
  BY <1>1, <1>2
<1>6. IsFiniteSet(ChargedIn(P))
  BY <1>3, <1>4, <1>5, FS_UNION
<1>7. \A id \in PricedPools(P) : DOMAIN given[id].drivers \subseteq ChargedIn(P)
  BY <1>1 DEF ChargedIn
<1>8. QED
  BY <1>1, <1>6, <1>7

(* What the tenants of one pool owe is what the pool costs.                *)
LEMMA PoolOwed ==
  ASSUME NEW given, NEW i, NEW e, GoodInputs(given, i), NEW P, FromInputs(given, i, e, P),
         NEW d, NEW k, Scales(given, P, d, k), NEW id \in PricedPools(P)
  PROVE  SumFunctionOnSet(OwedIn(given, P, k)[id], DOMAIN given[id].drivers) = P[id].poolCost * d
<1>1. PICK f, h, S, c, m : /\ f = given[id].drivers /\ S = DOMAIN f /\ h = OwedIn(given, P, k)[id]
                           /\ c = P[id].poolCost /\ m = k[id]
  OBVIOUS
<1>2. id \in DOMAIN P /\ id \in DOMAIN given /\ c \in Int
  <2>1. id \in DOMAIN P /\ id \in DOMAIN given /\ P[id].poolCost # None
    BY DEF FromInputs
  <2>2. QED
    BY <1>1, <2>1 DEF FromInputs
<1>3. GoodMeasurement(given[id])
  BY <1>2 DEF GoodInputs, GoodMeasurements
<1>4. IsFiniteSet(S) /\ \A t \in S : f[t] \in Int
  BY <1>1, <1>3 DEF GoodMeasurement
<1>5. m \in Int /\ SumFunctionOnSet(f, S) \in Int /\ SumFunctionOnSet(f, S) * m = d
  <2>1. SumFunction(given[id].drivers) = SumFunctionOnSet(f, S)
    BY <1>1 DEF SumFunction
  <2>2. QED
    BY <1>1, <2>1 DEF Scales
<1>6. c * m \in Int
  BY <1>2, <1>5, Products
<1>7. \A t \in S : h[t] = f[t] * (c * m)
  BY <1>1 DEF OwedIn
<1>8. SumFunctionOnSet(h, S) = SumFunctionOnSet(f, S) * (c * m)
  BY <1>4, <1>6, <1>7, SumScale
<1>9. SumFunctionOnSet(f, S) * (c * m) = c * d
  <2>1. \A x, y, z \in Int : x * (y * z) = y * (x * z)
    OBVIOUS
  <2>2. QED
    BY <1>2, <1>5, <2>1
<1>10. QED
  BY <1>1, <1>8, <1>9

(* What all tenants owe over all pools is what the priced pools cost:      *)
(* added up by tenant or by pool, it is the same table.                    *)
LEMMA AllOwed ==
  ASSUME NEW given, NEW i, NEW e, GoodInputs(given, i), NEW P, FromInputs(given, i, e, P),
         NEW d, NEW k, Scales(given, P, d, k)
  PROVE  SumFunctionOnSet(Owed(given, P, k), ChargedIn(P)) = CostOfPriced(P) * d
<1>1. PICK R, T, h, a, D : /\ R = PricedPools(P) /\ T = ChargedIn(P) /\ h = OwedIn(given, P, k)
                           /\ a = Owed(given, P, k) /\ D = [id \in R |-> DOMAIN given[id].drivers]
  OBVIOUS
<1>2. PICK b, cost : /\ cost = [id \in R |-> P[id].poolCost]
                     /\ b = [id \in R |-> SumFunctionOnSet(h[id], D[id])]
  OBVIOUS
<1>3. IsFiniteSet(R) /\ IsFiniteSet(T) /\ \A id \in R : D[id] \subseteq T
  <2>1. IsFiniteSet(PricedPools(P))
    BY DEF FromInputs
  <2>2. QED
    BY <1>1, <2>1, ChargedFinite
<1>4. \A id \in R : \A t \in D[id] : h[id][t] \in Int
  <2>1. SUFFICES ASSUME NEW id \in R, NEW t \in D[id] PROVE h[id][t] \in Int
    OBVIOUS
  <2>2. id \in PricedPools(P) /\ t \in DOMAIN given[id].drivers
    BY <1>1
  <2>3. OwedIn(given, P, k)[id][t] \in Int
    BY <2>2, OwedInIs
  <2>4. QED
    BY <1>1, <2>3
<1>5. \A t \in T : a[t] = SumFunctionOnSet([id \in R |-> h[id][t]], {id \in R : t \in D[id]})
  <2>1. SUFFICES ASSUME NEW t \in T
                 PROVE  a[t] = SumFunctionOnSet([id \in R |-> h[id][t]], {id \in R : t \in D[id]})
    OBVIOUS
  <2>2. a[t] = SumFunctionOnSet([id \in R |-> h[id][t]], PaidBy(given, P, t))
    BY <1>1 DEF Owed
  <2>3. PaidBy(given, P, t) = {id \in R : t \in D[id]}
    BY <1>1 DEF PaidBy
  <2>4. QED
    BY <2>2, <2>3
<1>6. \A id \in R : b[id] = SumFunctionOnSet(h[id], D[id])
  BY <1>2
<1>7. SumFunctionOnSet(a, T) = SumFunctionOnSet(b, R)
  <2>1. IsTable(h, D, R, T)
    BY <1>3, <1>4 DEF IsTable
  <2>2. RowSums(b, h, D, R)
    BY <1>6 DEF RowSums
  <2>3. ColumnSums(a, h, D, R, T)
    BY <1>5 DEF ColumnSums
  <2>4. QED
    BY <1>3, <2>1, <2>2, <2>3, SumSwap
<1>8. \A id \in R : cost[id] \in Int /\ b[id] = cost[id] * d
  <2>1. SUFFICES ASSUME NEW id \in R PROVE cost[id] \in Int /\ b[id] = cost[id] * d
    OBVIOUS
  <2>2. id \in PricedPools(P) /\ id \in DOMAIN P /\ P[id].poolCost # None
    BY <1>1 DEF FromInputs
  <2>3. P[id].poolCost \in Int
    BY <2>2 DEF FromInputs
  <2>4. SumFunctionOnSet(OwedIn(given, P, k)[id], DOMAIN given[id].drivers) = P[id].poolCost * d
    BY <2>2, PoolOwed
  <2>5. QED
    BY <1>1, <1>2, <2>3, <2>4
<1>9. d \in Int
  BY DEF Scales
<1>10. SumFunctionOnSet(b, R) = SumFunctionOnSet(cost, R) * d
  BY <1>3, <1>8, <1>9, SumScale
<1>11. CostOfPriced(P) = SumFunctionOnSet(cost, R)
  BY <1>1, <1>2, PricedCostIs
<1>12. QED
  BY <1>1, <1>7, <1>10, <1>11

--------------------------------------------------------------------------------
(* Conservation.                                                           *)

(* Every element of S is in exactly one of the parts.                      *)
InParts(parts, S) ==
    /\ UNION Range(parts) = S
    /\ \A i, j \in DOMAIN parts : i # j => parts[i] \cap parts[j] = {}

(* Nested sets of pools cut the known ones into disjoint parts.            *)
LEMMA PoolsPartition ==
  ASSUME NEW S, NEW D, D \subseteq S, NEW H, H \subseteq D, NEW R, R \subseteq H,
         NEW parts, parts = <<R, H \ R, D \ H, S \ D>>
  PROVE  InParts(parts, S)
<1>1. DOMAIN parts = 1..4
  OBVIOUS
<1>2. parts[1] = R /\ parts[2] = H \ R /\ parts[3] = D \ H /\ parts[4] = S \ D
  OBVIOUS
<1>3. 1..4 = {1, 2, 3, 4}
  OBVIOUS
<1>4. Range(parts) = {R, H \ R, D \ H, S \ D}
  BY <1>1, <1>2, <1>3 DEF Range
<1>5. UNION Range(parts) = S
  BY <1>4
<1>6. \A i, j \in {1, 2, 3, 4} : i # j => parts[i] \cap parts[j] = {}
  BY <1>2
<1>7. DOMAIN parts = {1, 2, 3, 4}
  BY <1>1, <1>3
<1>8. \A i, j \in DOMAIN parts : i # j => parts[i] \cap parts[j] = {}
  <2>1. PICK N : N = DOMAIN parts
    OBVIOUS
  <2>2. \A i, j \in N : i # j => parts[i] \cap parts[j] = {}
    BY <1>6, <1>7, <2>1
  <2>3. QED
    BY <2>1, <2>2
<1>9. QED
  BY <1>5, <1>8 DEF InParts

(* The tenants' costs add up to the priced pools' cost and their shares to *)
(* one.                                                                    *)
LEMMA TotalsAddUp ==
  ASSUME NEW given, NEW i, NEW e, GoodInputs(given, i), NEW P, FromInputs(given, i, e, P),
         PricedPools(P) # {}, NEW lines, DOMAIN lines = ChargedIn(P),
         \A t \in ChargedIn(P) : lines[t] = TenantTotal(t, P, PricedPools(P), CostOfPriced(P))
  PROVE  /\ SameFrac(SumFracs([t \in DOMAIN lines |-> lines[t].cost]), Frac(CostOfPriced(P), 1))
         /\ SameFrac(SumFracs([t \in DOMAIN lines |-> lines[t].share]), Frac(1, 1))
<1>1. PICK d, k : Scales(given, P, d, k)
  BY ScalesExist
<1>2. PICK T, pc, owed, costs, shares :
        /\ T = ChargedIn(P) /\ pc = CostOfPriced(P) /\ owed = Owed(given, P, k)
        /\ costs = [t \in T |-> lines[t].cost] /\ shares = [t \in T |-> lines[t].share]
  OBVIOUS
<1>3. d \in Int /\ d > 0 /\ pc \in Int /\ pc > 0
  BY <1>1, <1>2, PricedCostIs DEF Scales
<1>4. IsFiniteSet(T)
  BY <1>2, ChargedFinite
<1>5. ASSUME NEW t \in T
      PROVE  /\ Denotes(lines[t].cost, owed[t], d)
             /\ lines[t].share = Frac(lines[t].cost.num, lines[t].cost.den * pc)
  <2>1. lines[t] = TenantTotal(t, P, PricedPools(P), pc)
    BY <1>2
  <2>2. t \in ChargedIn(P)
    BY <1>2
  <2>3. PICK line : line = TenantTotal(t, P, PricedPools(P), pc)
    OBVIOUS
  <2>4. Denotes(line.cost, Owed(given, P, k)[t], d) /\ line.share = Frac(line.cost.num, line.cost.den * pc)
    BY <1>1, <2>2, <2>3, TenantOwes
  <2>5. QED
    BY <1>2, <2>1, <2>3, <2>4
<1>6. ASSUME NEW t \in T PROVE Denotes(lines[t].share, owed[t], d * pc)
  <2>1. PICK n, m, o : n = lines[t].cost.num /\ m = lines[t].cost.den /\ o = owed[t]
    OBVIOUS
  <2>2. n \in Int /\ m \in Int /\ m > 0 /\ o \in Int /\ n * d = o * m
    BY <1>5, <2>1 DEF Denotes
  <2>3. \A a, b \in Int : a > 0 /\ b > 0 => a * b \in Int /\ a * b > 0
    OBVIOUS
  <2>4. m * pc \in Int /\ m * pc > 0
    BY <1>3, <2>2, <2>3
  <2>5. n * (d * pc) = o * (m * pc)
    <3>1. \A a, b, c \in Int : a * (b * c) = (a * b) * c
      OBVIOUS
    <3>2. n * (d * pc) = (n * d) * pc /\ o * (m * pc) = (o * m) * pc
      BY <1>3, <2>2, <3>1
    <3>3. QED
      BY <2>2, <3>2
  <2>6. lines[t].share.num = n /\ lines[t].share.den = m * pc
    <3>1. lines[t].share = Frac(n, m * pc)
      BY <1>5, <2>1
    <3>2. \A a, b : Frac(a, b).num = a /\ Frac(a, b).den = b
      BY DEF Frac
    <3>3. QED
      BY <3>1, <3>2
  <2>7. QED
    BY <2>1, <2>2, <2>4, <2>5, <2>6 DEF Denotes
<1>7. SumFunctionOnSet(owed, T) = pc * d
  BY <1>1, <1>2, AllOwed
<1>8. Denotes(SumFracs(costs), pc * d, d)
  <2>1. T = DOMAIN costs /\ \A t \in T : costs[t] = lines[t].cost
    BY <1>2
  <2>2. Denotes(SumFracs(costs), SumFunctionOnSet(owed, T), d)
    BY <1>3, <1>4, <1>5, <2>1, FracsDenote
  <2>3. QED
    BY <1>7, <2>2
<1>9. Denotes(SumFracs(shares), pc * d, d * pc)
  <2>1. T = DOMAIN shares /\ \A t \in T : shares[t] = lines[t].share
    BY <1>2
  <2>2. d * pc \in Int
    BY <1>3, Products
  <2>3. \A t \in T : Denotes(shares[t], owed[t], d * pc)
    BY <1>6, <2>1
  <2>4. Denotes(SumFracs(shares), SumFunctionOnSet(owed, T), d * pc)
    BY <1>4, <2>1, <2>2, <2>3, FracsDenote
  <2>5. QED
    BY <1>7, <2>4
<1>10. ASSUME NEW a \in Int, NEW b \in Int, NEW c \in Int, c > 0, a * c = b * c PROVE a = b
  BY <1>10
<1>11. SameFrac(SumFracs(costs), Frac(pc, 1))
  <2>1. PICK n, m : n = SumFracs(costs).num /\ m = SumFracs(costs).den
    OBVIOUS
  <2>2. n \in Int /\ m \in Int /\ n * d = (pc * d) * m
    BY <1>8, <2>1 DEF Denotes
  <2>3. (pc * d) * m = (pc * m) * d
    BY <1>3, <2>2
  <2>4. pc * m \in Int
    BY <1>3, <2>2, Products
  <2>5. n = pc * m
    BY <1>3, <1>10, <2>2, <2>3, <2>4
  <2>6. n * 1 = pc * m
    BY <2>2, <2>5
  <2>7. QED
    BY <2>1, <2>6 DEF SameFrac, Frac
<1>12. SameFrac(SumFracs(shares), Frac(1, 1))
  <2>1. PICK n, m, x : n = SumFracs(shares).num /\ m = SumFracs(shares).den /\ x = d * pc
    OBVIOUS
  <2>2. pc * d = x /\ x \in Int /\ x > 0
    <3>1. \A a, b \in Int : a > 0 /\ b > 0 => a * b \in Int /\ a * b > 0 /\ b * a = a * b
      OBVIOUS
    <3>2. QED
      BY <1>3, <2>1, <3>1
  <2>3. n \in Int /\ m \in Int /\ n * x = x * m
    BY <1>9, <2>1, <2>2 DEF Denotes
  <2>4. x * m = m * x
    BY <2>2, <2>3
  <2>5. n = m
    BY <1>10, <2>2, <2>3, <2>4
  <2>6. n * 1 = 1 * m
    BY <2>3, <2>5
  <2>7. QED
    BY <2>1, <2>6 DEF SameFrac, Frac
<1>13. QED
  BY <1>2, <1>11, <1>12

(* No cost is counted twice and none is lost: the tenants' costs add up to *)
(* exactly what the priced pools cost, their shares to one, and every      *)
(* other pool is named once (total.go:162).                                *)
THEOREM ConservedCost == Spec => []CostIsConserved
<1>1. ReportInv => CostIsConserved
  <2>1. SUFFICES ASSUME ReportInv, phase = "reported" PROVE CostIsConserved
    BY DEF CostIsConserved, Reported
  <2>2. GoodInputs(ms, inv) /\ report = AllocateAll(ms, inv, expected)
    BY <2>1 DEF ReportInv
  <2>3. PICK P : P = AllocateAll(ms, inv, expected).pools
    OBVIOUS
  <2>4. Cross = CrossPool(P, inv, expected) /\ report.notRead = KnownPools \ DOMAIN ms
    BY <2>2, <2>3, ReportIs DEF Cross
  <2>5. FromInputs(ms, inv, expected, P)
    BY <2>2, <2>3, PricedAre
  <2>6. PICK R, H, lines, pc : /\ R = PricedPools(P) /\ H = {id \in DOMAIN P : HasShares(P[id])}
                               /\ lines = Cross.tenants /\ pc = CostOfPriced(P)
    OBVIOUS
  <2>7. Cross.priced = R /\ Cross.unpriced = H \ R /\ Cross.unmeasured = DOMAIN P \ H
    BY <2>4, <2>6, CrossSets
  <2>8. Cross.pricedCost = pc
    BY <2>4, <2>6, CrossCost
  <2>9. lines = [t \in ChargedIn(P) |-> TenantTotal(t, P, PricedPools(P), CostOfPriced(P))]
    BY <2>4, <2>6, CrossTenants
  <2>10. DOMAIN lines = ChargedIn(P)
         /\ \A t \in ChargedIn(P) : lines[t] = TenantTotal(t, P, PricedPools(P), CostOfPriced(P))
    BY <2>9
  <2>11. ASSUME R # {}
         PROVE  /\ SameFrac(SumFracs([t \in DOMAIN lines |-> lines[t].cost]), Frac(pc, 1))
                /\ SameFrac(SumFracs([t \in DOMAIN lines |-> lines[t].share]), Frac(1, 1))
    BY <2>2, <2>5, <2>6, <2>10, <2>11, TotalsAddUp
  <2>12. PICK parts : parts = <<R, H \ R, DOMAIN P \ H, KnownPools \ DOMAIN P>>
    OBVIOUS
  <2>13. InParts(parts, KnownPools)
    <3>1. DOMAIN P \subseteq KnownPools /\ H \subseteq DOMAIN P /\ R \subseteq H
      BY <2>2, <2>5, <2>6 DEF FromInputs, GoodInputs, GoodMeasurements, PricedPools
    <3>2. QED
      BY <2>12, <3>1, PoolsPartition
  <2>14. parts = <<Cross.priced, Cross.unpriced, Cross.unmeasured, report.notRead>>
    <3>1. DOMAIN P = DOMAIN ms
      BY <2>5 DEF FromInputs
    <3>2. QED
      BY <2>4, <2>7, <2>12, <3>1
  <2>15. QED
    BY <2>6, <2>7, <2>8, <2>11, <2>13, <2>14 DEF CostIsConserved, InParts
<1>2. QED
  BY <1>1, ReportInductive, PTL

(* Tenants are numbers, finitely many are expected, and no driver is       *)
(* below zero.                                                             *)
InputsInv ==
    /\ IsFiniteSet(expected) /\ expected \subseteq Int
    /\ \A id \in DOMAIN ms : /\ DOMAIN ms[id].drivers \subseteq Int
                             /\ \A t \in DOMAIN ms[id].drivers : ms[id].drivers[t] >= 0

(* It holds throughout: a report changes none of its inputs.               *)
LEMMA InputsHold == Spec => []InputsInv
<1>1. Init => InputsInv
  BY TenantsAssumption, DriversNotNegative DEF Init, InputsInv
<1>2. InputsInv /\ [Next]_vars => InputsInv'
  <2>1. ASSUME InputsInv, UNCHANGED <<ms, expected>> PROVE InputsInv'
    BY <2>1 DEF InputsInv
  <2>2. [Next]_vars => UNCHANGED <<ms, expected>>
    BY DEF Next, Reject, Report, vars
  <2>3. QED
    BY <2>1, <2>2
<1>3. QED
  BY <1>1, <1>2, PTL DEF Spec

--------------------------------------------------------------------------------
(* The page: one pool.                                                     *)

(* A figure is not a word, and each cell shows or says one thing.          *)
LEMMA Cells ==
  /\ \A v, w : Shows(v) # Says(w)
  /\ \A v, w : Shows(v) = Shows(w) => v = w
  /\ \A v, w : Says(v) = Says(w) => v = w
<1>1. \A v, w : Shows(v) # Says(w)
  <2>1. SUFFICES ASSUME NEW v, NEW w, Shows(v) = Says(w) PROVE FALSE
    OBVIOUS
  <2>2. DOMAIN Shows(v) = {"shows"} /\ DOMAIN Says(w) = {"says"}
    BY DEF Shows, Says
  <2>3. QED
    BY <2>1, <2>2
<1>2. \A v : Shows(v).shows = v /\ Says(v).says = v
  BY DEF Shows, Says
<1>3. QED
  BY <1>1, <1>2

(* The tenants of a pool's table: all that were measured, once.            *)
LEMMA PoolListed ==
  ASSUME NEW a, IsFiniteSet(DOMAIN a.tenants), DOMAIN a.tenants \subseteq Int,
         \A t \in DOMAIN a.tenants : a.tenants[t].raw \in Int
  PROVE  Lists(PoolTenants(a), DOMAIN a.tenants)
<1>1. PICK T, order : /\ T = DOMAIN a.tenants
                      /\ order = {p \in T \X T : \/ a.tenants[p[1]].raw > a.tenants[p[2]].raw
                                                 \/ a.tenants[p[1]].raw = a.tenants[p[2]].raw /\ p[1] < p[2]}
  OBVIOUS
<1>2. \A s, t \in T : <<s, t>> \in order <=> \/ a.tenants[s].raw > a.tenants[t].raw
                                             \/ a.tenants[s].raw = a.tenants[t].raw /\ s < t
  BY <1>1
<1>3. \A t \in T : t \in Int /\ a.tenants[t].raw \in Int
  BY <1>1
<1>4. IsOrder(T, order)
  <2>1. \A x \in T : <<x, x>> \notin order
    BY <1>2, <1>3
  <2>2. \A x, y \in T : x # y => <<x, y>> \in order \/ <<y, x>> \in order
    BY <1>2, <1>3
  <2>3. \A x, y, z \in T : <<x, y>> \in order /\ <<y, z>> \in order => <<x, z>> \in order
    BY <1>2, <1>3
  <2>4. QED
    BY <2>1, <2>2, <2>3 DEF IsOrder
<1>5. PoolTenants(a) = InOrder(T, order)
  BY <1>1 DEF PoolTenants
<1>6. QED
  BY <1>1, <1>4, <1>5, OrderLists

(* No cell of a measured tenant says that it was not measured, every one   *)
(* of the others does, and none shows a nil.                               *)
LEMMA RowCells ==
  ASSUME NEW a, NEW t, NEW c \in Columns(a)
  PROVE  /\ MeasuredRow(a, t)[c] # Says("not measured") /\ MeasuredRow(a, t)[c] # Shows(None)
         /\ UnmeasuredRow(a, t)[c] = Says("not measured")
<1>1. c \in {"driver", "share", "replicas", "cost"} /\ (c = "cost" => a.costed)
  BY DEF Columns
<1>2. \A v, w : w # "not measured" =>
        LET cell == IF v = None THEN Says(w) ELSE Shows(v)
        IN  cell # Says("not measured") /\ cell # Shows(None)
  BY Cells
<1>3. UnmeasuredRow(a, t)[c] = Says("not measured")
  <2>1. PICK r : r = UnmeasuredRow(a, t)
    OBVIOUS
  <2>2. /\ r["driver"] = Says("not measured") /\ r["share"] = Says("not measured")
        /\ r["replicas"] = Says("not measured") /\ (a.costed => r["cost"] = Says("not measured"))
    BY <2>1 DEF UnmeasuredRow
  <2>3. r[c] = Says("not measured")
    BY <1>1, <2>2, Zenon
  <2>4. QED
    BY <2>1, <2>3
<1>4. PICK s : s = a.tenants[t]
  OBVIOUS
<1>5. CASE c = "driver"
  <2>1. MeasuredRow(a, t)[c] = IF s.driver = None THEN Says("withheld (no RF)") ELSE Shows(s.driver)
    BY <1>4, <1>5 DEF MeasuredRow, DriverCell
  <2>2. "withheld (no RF)" # "not measured"
    OBVIOUS
  <2>3. QED
    BY <1>2, <1>3, <2>1, <2>2, Zenon
<1>6. CASE c = "share"
  <2>1. MeasuredRow(a, t)[c] = IF s.share = None THEN Says("undefined") ELSE Shows(s.share)
    BY <1>4, <1>6 DEF MeasuredRow
  <2>2. "undefined" # "not measured"
    OBVIOUS
  <2>3. QED
    BY <1>2, <1>3, <2>1, <2>2, Zenon
<1>7. CASE c = "replicas"
  <2>1. MeasuredRow(a, t)[c] = IF s.equivalent = None THEN Says("-") ELSE Shows(s.equivalent)
    BY <1>4, <1>7 DEF MeasuredRow
  <2>2. "-" # "not measured"
    OBVIOUS
  <2>3. QED
    BY <1>2, <1>3, <2>1, <2>2, Zenon
<1>8. CASE c = "cost"
  <2>1. MeasuredRow(a, t)[c] = IF s.cost = None THEN Says("undefined") ELSE Shows(s.cost)
    BY <1>1, <1>4, <1>8 DEF MeasuredRow
  <2>2. "undefined" # "not measured"
    OBVIOUS
  <2>3. QED
    BY <1>2, <1>3, <2>1, <2>2, Zenon
<1>9. QED
  BY <1>1, <1>5, <1>6, <1>7, <1>8

(* The tenants a table has a row for.                                      *)
TenantsOf(rows) == {rows[k].tenant : k \in DOMAIN rows}

(* The cells of a table tell the tenants in M from the others, and none    *)
(* shows a nil.                                                            *)
CellsTell(rows, columns, M) ==
    \A k \in DOMAIN rows : \A c \in columns :
        /\ rows[k][c] = Says("not measured") <=> rows[k].tenant \notin M
        /\ rows[k][c] # Shows(None)

(* A pool's table has one row for every tenant, measured or expected and   *)
(* not measured, and its cells tell one from the other.                    *)
LEMMA PoolRows ==
  ASSUME NEW a, IsFiniteSet(DOMAIN a.tenants), DOMAIN a.tenants \subseteq Int,
         \A t \in DOMAIN a.tenants : a.tenants[t].raw \in Int,
         IsFiniteSet(a.unmeasured), a.unmeasured \subseteq Int, a.unmeasured \cap DOMAIN a.tenants = {},
         NEW rows, rows = CostMDPool(a).rows
  PROVE  /\ Len(rows) = Cardinality(DOMAIN a.tenants \cup a.unmeasured)
         /\ TenantsOf(rows) = DOMAIN a.tenants \cup a.unmeasured
         /\ CellsTell(rows, Columns(a), DOMAIN a.tenants)
<1>1. PICK T, U, s, u, m, n : /\ T = DOMAIN a.tenants /\ U = a.unmeasured /\ s = PoolTenants(a) /\ u = Ascending(U)
                              /\ m = Cardinality(T) /\ n = Cardinality(U)
  OBVIOUS
<1>2. Lists(s, T) /\ Lists(u, U)
  BY <1>1, PoolListed, AscendingLists
<1>3. /\ m \in Nat /\ n \in Nat /\ DOMAIN s = 1..m /\ DOMAIN u = 1..n
      /\ (\A k \in 1..m : s[k] \in T) /\ (\A t \in T : \E j \in 1..m : s[j] = t)
      /\ (\A k \in 1..n : u[k] \in U) /\ (\A t \in U : \E j \in 1..n : u[j] = t)
  BY <1>1, <1>2 DEF Lists
<1>4. PICK f, g : f = [k \in DOMAIN s |-> MeasuredRow(a, s[k])] /\ g = [k \in DOMAIN u |-> UnmeasuredRow(a, u[k])]
  OBVIOUS
<1>5. DOMAIN f = 1..m /\ DOMAIN g = 1..n /\ f = [k \in DOMAIN f |-> f[k]] /\ g = [k \in DOMAIN g |-> g[k]]
  BY <1>3, <1>4
<1>6. rows = f \o g
  BY <1>1, <1>4 DEF CostMDPool
<1>7. /\ Len(rows) = m + n /\ DOMAIN rows = 1..m + n
      /\ \A k \in 1..m : rows[k] = f[k]
      /\ \A k \in 1..n : rows[m + k] = g[k]
  <2>1. rows = [k \in DOMAIN f |-> f[k]] \o [k \in DOMAIN g |-> g[k]]
    BY <1>5, <1>6
  <2>2. QED
    BY <1>3, <1>5, <2>1, OneAfterOther
<1>8. /\ \A k \in 1..m : rows[k] = MeasuredRow(a, s[k])
      /\ \A k \in 1..n : rows[m + k] = UnmeasuredRow(a, u[k])
  BY <1>3, <1>4, <1>7
<1>9. Cardinality(T \cup U) = m + n
  <2>1. T \cap U = {} /\ IsFiniteSet(T) /\ IsFiniteSet(U)
    BY <1>1
  <2>2. Cardinality(T \cup U) = Cardinality(T) + Cardinality(U) - Cardinality(T \cap U)
    BY <2>1, FS_Union
  <2>3. Cardinality(T \cap U) = 0
    BY <2>1, FS_EmptySet
  <2>4. QED
    BY <1>1, <1>3, <2>2, <2>3
<1>10. \A t \in T : \E k \in DOMAIN rows : rows[k] = MeasuredRow(a, t)
  <2>1. SUFFICES ASSUME NEW t \in T PROVE \E k \in DOMAIN rows : rows[k] = MeasuredRow(a, t)
    OBVIOUS
  <2>2. PICK j \in 1..m : s[j] = t
    BY <1>3, <2>1
  <2>3. j \in DOMAIN rows
    BY <1>3, <1>7
  <2>4. QED
    BY <1>8, <2>2, <2>3
<1>11. \A t \in U : \E k \in DOMAIN rows : rows[k] = UnmeasuredRow(a, t)
  <2>1. SUFFICES ASSUME NEW t \in U PROVE \E k \in DOMAIN rows : rows[k] = UnmeasuredRow(a, t)
    OBVIOUS
  <2>2. PICK j \in 1..n : u[j] = t
    BY <1>3, <2>1
  <2>3. m + j \in DOMAIN rows
    BY <1>3, <1>7
  <2>4. QED
    BY <1>8, <2>2, <2>3
<1>12. \A k \in DOMAIN rows : \/ \E t \in T : rows[k] = MeasuredRow(a, t)
                              \/ \E t \in U : rows[k] = UnmeasuredRow(a, t)
  <2>1. SUFFICES ASSUME NEW k \in 1..m + n
                 PROVE  \/ \E t \in T : rows[k] = MeasuredRow(a, t)
                        \/ \E t \in U : rows[k] = UnmeasuredRow(a, t)
    BY <1>7
  <2>2. CASE k <= m
    <3>1. k \in 1..m
      BY <2>2
    <3>2. QED
      BY <1>3, <1>8, <3>1
  <2>3. CASE k > m
    <3>1. PICK j \in 1..n : m + j = k
      <4>1. k - m \in 1..n /\ m + (k - m) = k
        BY <1>3, <2>3
      <4>2. QED
        BY <4>1
    <3>2. QED
      BY <1>3, <1>8, <3>1
  <2>4. QED
    BY <1>3, <2>2, <2>3
<1>13. \A t : MeasuredRow(a, t).tenant = t /\ UnmeasuredRow(a, t).tenant = t
  BY DEF MeasuredRow, UnmeasuredRow
<1>14. {rows[k].tenant : k \in DOMAIN rows} = T \cup U
  <2>1. ASSUME NEW k \in DOMAIN rows PROVE rows[k].tenant \in T \cup U
    <3>1. (\E t \in T : rows[k] = MeasuredRow(a, t)) \/ (\E t \in U : rows[k] = UnmeasuredRow(a, t))
      BY <1>12
    <3>2. \E t \in T \cup U : rows[k] = MeasuredRow(a, t) \/ rows[k] = UnmeasuredRow(a, t)
      BY <3>1
    <3>3. QED
      BY <1>13, <3>2
  <2>2. ASSUME NEW t \in T \cup U PROVE \E k \in DOMAIN rows : rows[k].tenant = t
    <3>1. \E k \in DOMAIN rows : rows[k] = MeasuredRow(a, t) \/ rows[k] = UnmeasuredRow(a, t)
      BY <1>10, <1>11
    <3>2. QED
      BY <1>13, <3>1
  <2>3. QED
    BY <2>1, <2>2
<1>15. ASSUME NEW k \in DOMAIN rows, NEW c \in Columns(a)
      PROVE  (rows[k][c] = Says("not measured") <=> rows[k].tenant \notin T) /\ rows[k][c] # Shows(None)
  <2>1. CASE \E t \in T : rows[k] = MeasuredRow(a, t)
    <3>1. PICK t \in T : rows[k] = MeasuredRow(a, t)
      BY <2>1
    <3>2. MeasuredRow(a, t)[c] # Says("not measured") /\ MeasuredRow(a, t)[c] # Shows(None)
      BY RowCells, Zenon
    <3>3. QED
      BY <1>13, <3>1, <3>2
  <2>2. CASE \E t \in U : rows[k] = UnmeasuredRow(a, t)
    <3>1. PICK t \in U : rows[k] = UnmeasuredRow(a, t)
      BY <2>2
    <3>2. UnmeasuredRow(a, t)[c] = Says("not measured")
      BY RowCells, Zenon
    <3>3. t \notin T
      BY <1>1
    <3>4. rows[k][c] # Shows(None)
      BY <3>1, <3>2, Cells
    <3>5. QED
      BY <1>13, <3>1, <3>2, <3>3, <3>4, ZenonT(40)
  <2>3. QED
    BY <1>12, <2>1, <2>2
<1>16. CellsTell(rows, Columns(a), T)
  BY <1>15, Zenon DEF CellsTell
<1>17. QED
  BY <1>1, <1>7, <1>9, <1>14, <1>16 DEF TenantsOf

(* The total row says that a pool was not measured when it was not, and    *)
(* shows no nil either.                                                    *)
LEMMA TotalCells ==
  ASSUME NEW a, a.costed <=> a.poolCost # None, None \notin Int
  PROVE  /\ TotalRow(a).driver = Says("not measured") <=> a.totalRaw = None
         /\ \A c \in Columns(a) : TotalRow(a)[c] # Shows(None)
<1>1. \A v, w : w # "not measured" =>
        LET cell == IF v = None THEN Says(w) ELSE Shows(v)
        IN  cell # Says("not measured") /\ cell # Shows(None)
  BY Cells
<1>2. 1 # None
  OBVIOUS
<1>3. \A w : Says(w) # Shows(None)
  BY Cells
<1>4. /\ TotalRow(a).driver = IF a.totalRaw = None THEN Says("not measured")
                              ELSE IF a.total = None THEN Says("withheld (no RF)") ELSE Shows(a.total)
      /\ TotalRow(a).share = IF HasShares(a) THEN Shows(1) ELSE Says("-")
      /\ TotalRow(a).replicas = IF a.replicas = None THEN Says("-") ELSE Shows(a.replicas)
      /\ TotalRow(a).cost = IF a.costed THEN Shows(a.poolCost) ELSE Says("")
  BY DEF TotalRow, DriverCell
<1>5. TotalRow(a).driver = Says("not measured") <=> a.totalRaw = None
  BY <1>1, <1>4
<1>6. TotalRow(a).driver # Shows(None)
  BY <1>1, <1>3, <1>4
<1>7. TotalRow(a).share # Shows(None)
  BY <1>2, <1>3, <1>4, Cells
<1>8. TotalRow(a).replicas # Shows(None)
  BY <1>1, <1>4
<1>9. TotalRow(a).cost # Shows(None)
  BY <1>3, <1>4, Cells
<1>10. \A c \in Columns(a) : c \in {"driver", "share", "replicas", "cost"}
  BY DEF Columns
<1>11. QED
  BY <1>5, <1>6, <1>7, <1>8, <1>9, <1>10

--------------------------------------------------------------------------------
(* The page: across the pools.                                             *)

(* A positive factor on both sides moves no comparison.                    *)
LEMMA Cancels ==
  ASSUME NEW x \in Int, NEW y \in Int, NEW c \in Int, c > 0
  PROVE  (x < y <=> x * c < y * c) /\ (x = y <=> x * c = y * c)
<1>1. \A a, b \in Int : a < b => a * c < b * c
  <2>1. SUFFICES ASSUME NEW a \in Int, NEW b \in Int, a < b PROVE a * c < b * c
    OBVIOUS
  <2>2. b - a \in Int /\ b - a >= 1
    BY <2>1
  <2>3. (b - a) * c > 0
    BY <2>2, Products
  <2>4. (b - a) * c = b * c - a * c /\ b * c \in Int /\ a * c \in Int
    BY <2>1
  <2>5. QED
    BY <2>3, <2>4
<1>2. x * c \in Int /\ y * c \in Int
  BY Products
<1>3. CASE x < y
  BY <1>1, <1>2, <1>3
<1>4. CASE y < x
  BY <1>1, <1>2, <1>4
<1>5. CASE x = y
  BY <1>2, <1>5
<1>6. QED
  BY <1>3, <1>4, <1>5

(* Fractions over one denominator compare as their numerators do.          *)
LEMMA Compares ==
  ASSUME NEW x, NEW y, NEW n, NEW m, NEW d \in Int, d > 0, Denotes(x, n, d), Denotes(y, m, d)
  PROVE  /\ x.num * y.den \in Int /\ y.num * x.den \in Int
         /\ x.num * y.den < y.num * x.den <=> n < m
         /\ SameFrac(x, y) <=> n = m
<1>1. PICK a, b, u, v : a = x.num /\ b = y.num /\ u = x.den /\ v = y.den
  OBVIOUS
<1>2. /\ a \in Int /\ u \in Int /\ u > 0 /\ n \in Int /\ a * d = n * u
      /\ b \in Int /\ v \in Int /\ v > 0 /\ m \in Int /\ b * d = m * v
  BY <1>1 DEF Denotes
<1>3. a * v \in Int /\ b * u \in Int /\ u * v \in Int
  BY <1>2, Products
<1>4. u * v > 0
  BY <1>2, Products
<1>5. (a * v) * d = n * (u * v) /\ (b * u) * d = m * (u * v)
  <2>1. (a * v) * d = (a * d) * v /\ (b * u) * d = (b * d) * u
    BY <1>2
  <2>2. (n * u) * v = n * (u * v) /\ (m * v) * u = m * (u * v)
    BY <1>2
  <2>3. QED
    BY <1>2, <2>1, <2>2
<1>6. /\ a * v < b * u <=> (a * v) * d < (b * u) * d
      /\ a * v = b * u <=> (a * v) * d = (b * u) * d
  BY <1>3, Cancels
<1>7. /\ n < m <=> n * (u * v) < m * (u * v)
      /\ n = m <=> n * (u * v) = m * (u * v)
  BY <1>2, <1>3, <1>4, Cancels
<1>8. QED
  BY <1>1, <1>3, <1>5, <1>6, <1>7 DEF SameFrac

(* The total's lines list every tenant that is charged, once and the one   *)
(* that owes most first.                                                   *)
LEMMA TotalListed ==
  ASSUME NEW given, NEW i, NEW e, GoodInputs(given, i), NEW P, FromInputs(given, i, e, P),
         ChargedIn(P) \subseteq Int, NEW pc, NEW cp,
         cp.tenants = [t \in ChargedIn(P) |-> TenantTotal(t, P, PricedPools(P), pc)],
         NEW s, s = TotalTenants(cp)
  PROVE  /\ Lists(s, ChargedIn(P))
         /\ \A t \in ChargedIn(P) : /\ s[1] \in ChargedIn(P)
                                    /\ cp.tenants[s[1]].cost.num * cp.tenants[t].cost.den
                                          >= cp.tenants[t].cost.num * cp.tenants[s[1]].cost.den
<1>1. PICK T, c : T = ChargedIn(P) /\ c = [t \in T |-> cp.tenants[t].cost]
  OBVIOUS
<1>2. PICK d, k : Scales(given, P, d, k)
  BY ScalesExist
<1>3. PICK n : n = Owed(given, P, k)
  OBVIOUS
<1>4. d \in Int /\ d > 0 /\ \A t \in T : Denotes(c[t], n[t], d)
  <2>1. \A t \in T : Denotes(TenantTotal(t, P, PricedPools(P), pc).cost, n[t], d)
    BY <1>1, <1>2, <1>3, TenantOwes
  <2>2. QED
    BY <1>1, <1>2, <2>1 DEF Scales
<1>5. \A x, y \in T : /\ c[x].num * c[y].den \in Int /\ c[y].num * c[x].den \in Int
                      /\ c[x].num * c[y].den < c[y].num * c[x].den <=> n[x] < n[y]
                      /\ SameFrac(c[x], c[y]) <=> n[x] = n[y]
  BY <1>4, Compares
<1>6. PICK order : order = {p \in T \X T : \/ c[p[2]].num * c[p[1]].den < c[p[1]].num * c[p[2]].den
                                           \/ SameFrac(c[p[1]], c[p[2]]) /\ p[1] < p[2]}
  OBVIOUS
<1>7. s = InOrder(T, order)
  <2>1. DOMAIN cp.tenants = T
    BY <1>1
  <2>2. order = {p \in T \X T :
                    \/ cp.tenants[p[2]].cost.num * cp.tenants[p[1]].cost.den < cp.tenants[p[1]].cost.num * cp.tenants[p[2]].cost.den
                    \/ SameFrac(cp.tenants[p[1]].cost, cp.tenants[p[2]].cost) /\ p[1] < p[2]}
    BY <1>1, <1>6
  <2>3. QED
    BY <2>1, <2>2 DEF TotalTenants
<1>8. \A x, y \in T : <<x, y>> \in order <=> n[y] < n[x] \/ (n[x] = n[y] /\ x < y)
  BY <1>5, <1>6
<1>9. \A t \in T : t \in Int /\ n[t] \in Int
  BY <1>1, <1>4 DEF Denotes
<1>10. IsOrder(T, order)
  <2>1. \A x \in T : <<x, x>> \notin order
    BY <1>8, <1>9
  <2>2. \A x, y \in T : x # y => <<x, y>> \in order \/ <<y, x>> \in order
    BY <1>8, <1>9
  <2>3. \A x, y, z \in T : <<x, y>> \in order /\ <<y, z>> \in order => <<x, z>> \in order
    BY <1>8, <1>9
  <2>4. QED
    BY <2>1, <2>2, <2>3 DEF IsOrder
<1>11. IsFiniteSet(T)
  BY <1>1, ChargedFinite
<1>12. Lists(s, T) /\ \A j, l \in 1..Cardinality(T) : j < l => <<s[j], s[l]>> \in order
  BY <1>7, <1>10, <1>11, OrderLists
<1>13. ASSUME NEW t \in T
       PROVE  s[1] \in T /\ c[s[1]].num * c[t].den >= c[t].num * c[s[1]].den
  <2>1. PICK l \in 1..Cardinality(T) : s[l] = t
    BY <1>12 DEF Lists
  <2>2. 1 \in 1..Cardinality(T) /\ s[1] \in T
    BY <1>12, <2>1 DEF Lists
  <2>3. ~(n[s[1]] < n[t])
    <3>1. CASE l = 1
      BY <1>9, <2>1, <3>1
    <3>2. CASE l # 1
      <4>1. 1 < l
        BY <1>12, <2>1, <3>2 DEF Lists
      <4>2. <<s[1], t>> \in order
        BY <1>12, <2>1, <2>2, <4>1
      <4>3. QED
        BY <1>8, <1>9, <2>2, <4>2
    <3>3. QED
      BY <3>1, <3>2
  <2>4. PICK x, y : x = c[s[1]].num * c[t].den /\ y = c[t].num * c[s[1]].den
    OBVIOUS
  <2>5. x \in Int /\ y \in Int /\ ~(x < y)
    BY <1>5, <2>2, <2>3, <2>4
  <2>6. QED
    BY <2>2, <2>4, <2>5
<1>14. QED
  BY <1>1, <1>12, <1>13

(* The columns of the total are the priced pools.                          *)
LEMMA HeadersAre ==
  ASSUME NEW cp, cp.priced \subseteq KnownPools, NEW h, h = PricedInOrder(cp)
  PROVE  Range(h) = cp.priced
<1>1. KnownPools = {PoolOrder[k] : k \in DOMAIN PoolOrder} /\ PoolOrder \in Seq(KnownPools)
  <2>1. KnownPools = {PoolIngesterMemory, PoolQueryPath, PoolRulerCPU}
    <3>1. DOMAIN PoolOrder = 1..3
      BY DEF PoolOrder
    <3>2. KnownPools = {PoolOrder[1], PoolOrder[2], PoolOrder[3]}
      BY <3>1 DEF KnownPools, Range
    <3>3. QED
      BY <3>2 DEF PoolOrder
  <2>2. QED
    BY <2>1 DEF KnownPools, Range, PoolOrder
<1>2. PICK Q : Q = {k \in DOMAIN PoolOrder : PoolOrder[k] \in cp.priced}
  OBVIOUS
<1>3. Range(h) = {PoolOrder[k] : k \in Q}
  BY <1>1, <1>2, AtSeq DEF PricedInOrder
<1>4. {PoolOrder[k] : k \in Q} = cp.priced
  <2>1. \A x \in cp.priced : \E k \in Q : PoolOrder[k] = x
    BY <1>1, <1>2
  <2>2. \A k \in Q : PoolOrder[k] \in cp.priced
    BY <1>2
  <2>3. QED
    BY <2>1, <2>2
<1>5. QED
  BY <1>3, <1>4

(* The section of a pool that was allocated from a measurement does.       *)
LEMMA PoolPage ==
  ASSUME NEW x, NEW i, NEW e, GoodMeasurement(x), None \notin Int,
         IsFiniteSet(e), e \subseteq Int, DOMAIN x.drivers \subseteq Int,
         NEW p, p = CostMDPool(Allocate(x, i, e))
  PROVE  SectionTells(p, DOMAIN x.drivers, DOMAIN x.drivers \cup e)
<1> DEFINE M == DOMAIN x.drivers
<1>1. PICK a : a = Allocate(x, i, e)
  OBVIOUS
<1>2. DOMAIN a.tenants = M /\ a.unmeasured = e \ M
  BY <1>1, AllocateTenants
<1>3. IsFiniteSet(M)
  BY DEF GoodMeasurement
<1>4. ASSUME NEW t \in DOMAIN a.tenants PROVE a.tenants[t].raw \in Int
  <2>1. t \in DOMAIN x.drivers
    BY <1>2
  <2>2. a.tenants[t] = TenantShare(x.drivers[t], SumFunction(x.drivers), Divisor(x, i).value,
                                   Price(x.pool, PoolInventory(i, x.pool)))
    BY <1>1, <2>1, AllocateShares
  <2>3. a.tenants[t].raw = x.drivers[t]
    BY <2>2 DEF TenantShare
  <2>4. QED
    BY <2>1, <2>3 DEF GoodMeasurement
<1>5. /\ IsFiniteSet(DOMAIN a.tenants) /\ DOMAIN a.tenants \subseteq Int
      /\ IsFiniteSet(a.unmeasured) /\ a.unmeasured \subseteq Int
      /\ a.unmeasured \cap DOMAIN a.tenants = {} /\ DOMAIN a.tenants \cup a.unmeasured = M \cup e
  BY <1>2, <1>3, FS_Difference
<1>6. PICK rows, cols : rows = p.rows /\ cols = p.columns
  OBVIOUS
<1>7. rows = CostMDPool(a).rows
  BY <1>1, <1>6
<1>8. /\ Len(rows) = Cardinality(DOMAIN a.tenants \cup a.unmeasured)
      /\ TenantsOf(rows) = DOMAIN a.tenants \cup a.unmeasured
      /\ CellsTell(rows, Columns(a), DOMAIN a.tenants)
  <2>1. Len(rows) = Cardinality(DOMAIN a.tenants \cup a.unmeasured)
    BY <1>4, <1>5, <1>7, PoolRows, Zenon
  <2>2. TenantsOf(rows) = DOMAIN a.tenants \cup a.unmeasured
    BY <1>4, <1>5, <1>7, PoolRows, Zenon
  <2>3. CellsTell(rows, Columns(a), DOMAIN a.tenants)
    BY <1>4, <1>5, <1>7, PoolRows, Zenon
  <2>4. QED
    BY <2>1, <2>2, <2>3
<1>9. cols = Columns(a) /\ p.total = TotalRow(a)
  BY <1>1, <1>6 DEF CostMDPool
<1>10. a.totalRaw = None <=> M = {}
  BY <1>1, AllocateTotals, TotalIs
<1>11. a.costed <=> a.poolCost # None
  BY <1>1, AllocateCosted
<1>12. /\ p.total.driver = Says("not measured") <=> M = {}
       /\ (\A c \in cols : p.total[c] # Shows(None))
  BY <1>9, <1>10, <1>11, TotalCells
<1>13. Len(rows) = Cardinality(M \cup e) /\ TenantsOf(rows) = M \cup e
  BY <1>5, <1>8
<1>14. CellsTell(rows, cols, M)
  BY <1>2, <1>8, <1>9
<1>15. CellsTell(p.rows, p.columns, M) /\ TenantsOf(p.rows) = M \cup e /\ Len(p.rows) = Cardinality(M \cup e)
  BY <1>6, <1>13, <1>14
<1>16. QED
  BY <1>6, <1>12, <1>15, Zenon DEF SectionTells, CellsTell, TenantsOf

(* The pools among ids that did not see a tenant.                          *)
MissedBy(ids, t) == {id \in ids : t \notin Measured(id)}

(* What a tenant's line says is missing.                                   *)
LEMMA CrossMisses ==
  ASSUME NEW given, NEW i, NEW e, GoodInputs(given, i), NEW P, FromInputs(given, i, e, P),
         NEW cp, cp = CrossPool(P, i, e), NEW h, h = PricedInOrder(cp), NEW t \in ChargedIn(P),
         \A id \in DOMAIN given : DOMAIN given[id].drivers = Measured(id)
  PROVE  /\ Range(h) = PricedPools(P)
         /\ cp.tenants[t].notMeasuredIn = MissedBy(Range(h), t)
<1>1. cp.priced = PricedPools(P) /\ cp.tenants[t] = TenantTotal(t, P, PricedPools(P), CostOfPriced(P))
  <2>1. cp.priced = PricedPools(P)
    BY CrossSets
  <2>2. cp.tenants = [u \in ChargedIn(P) |-> TenantTotal(u, P, PricedPools(P), CostOfPriced(P))]
    BY CrossTenants
  <2>3. QED
    BY <2>1, <2>2
<1>2. PricedPools(P) \subseteq KnownPools /\ \A id \in PricedPools(P) : DOMAIN P[id].tenants = Measured(id)
  BY DEF FromInputs, GoodInputs, GoodMeasurements
<1>3. Range(h) = PricedPools(P)
  BY <1>1, <1>2, HeadersAre
<1>4. TenantTotal(t, P, PricedPools(P), CostOfPriced(P)).notMeasuredIn
        = PricedPools(P) \ {id \in PricedPools(P) : t \in DOMAIN P[id].tenants}
  BY DEF TenantTotal
<1>5. QED
  BY <1>1, <1>2, <1>3, <1>4 DEF MissedBy

(* So a line of the table tells.                                           *)
LEMMA CrossRowTells ==
  ASSUME NEW r, NEW t, NEW h, h = PricedInOrder(r.cross),
         r.cross.tenants[t].notMeasuredIn = MissedBy(Range(h), t)
  PROVE  /\ LineTells(CrossRow(r, t), h) /\ CrossRow(r, t).tenant = t
         /\ CrossRow(r, t).atLeast <=> r.cross.tenants[t].notMeasuredIn # {}
<1>1. PICK missing, row : missing = r.cross.tenants[t].notMeasuredIn /\ row = CrossRow(r, t)
  OBVIOUS
<1>2. /\ row.tenant = t /\ row.atLeast = (missing # {})
      /\ row.cells = [j \in DOMAIN h |-> IF h[j] \in missing THEN Says("not measured")
                                        ELSE Shows(r.pools[h[j]].tenants[t].cost)]
  BY <1>1 DEF CrossRow
<1>3. \A j \in DOMAIN h : h[j] \in missing <=> t \notin Measured(h[j])
  BY <1>1 DEF MissedBy, Range
<1>4. missing # {} <=> \E j \in DOMAIN h : h[j] \in missing
  BY <1>1 DEF MissedBy, Range
<1>5. \A j \in DOMAIN h : row.cells[j] = Says("not measured") <=> h[j] \in missing
  <2>1. ASSUME NEW j \in DOMAIN h PROVE row.cells[j] = Says("not measured") <=> h[j] \in missing
    <3>1. row.cells[j] = IF h[j] \in missing THEN Says("not measured") ELSE Shows(r.pools[h[j]].tenants[t].cost)
      BY <1>2
    <3>2. QED
      BY <3>1, Cells, Zenon
  <2>2. QED
    BY <2>1
<1>6. LineTells(row, h) /\ row.tenant = t
  BY <1>2, <1>3, <1>4, <1>5 DEF LineTells
<1>7. QED
  BY <1>1, <1>2, <1>6

(* The table across the pools does.                                        *)
LEMMA CrossPage ==
  ASSUME NEW given, NEW i, NEW e, GoodInputs(given, i), NEW P, FromInputs(given, i, e, P),
         ChargedIn(P) \subseteq Int, \A id \in DOMAIN given : DOMAIN given[id].drivers = Measured(id),
         NEW r, r.cross = CrossPool(P, i, e),
         NEW page, page = CostMDCrossPool(r), ~(Cardinality(DOMAIN r.pools) <= 1)
  PROVE  \A k \in DOMAIN page.rows :
            /\ LineTells(page.rows[k], page.headers)
            /\ page.rows[k].atLeast => "lower bound" \in page.notes
<1>1. PICK cp, s, h : cp = r.cross /\ s = TotalTenants(cp) /\ h = PricedInOrder(cp)
  OBVIOUS
<1>2. cp.tenants = [u \in ChargedIn(P) |-> TenantTotal(u, P, PricedPools(P), CostOfPriced(P))]
  BY <1>1, CrossTenants
<1>3. PICK rows : rows = page.rows
  OBVIOUS
<1>4. cp = CrossPool(P, i, e)
  BY <1>1
<1>5. /\ page.headers = h /\ rows = [j \in DOMAIN s |-> CrossRow(r, s[j])]
      /\ (\E t \in DOMAIN cp.tenants : cp.tenants[t].notMeasuredIn # {}) => "lower bound" \in page.notes
  BY <1>1, <1>3 DEF CostMDCrossPool
<1>6. ASSUME NEW k \in DOMAIN rows
      PROVE  LineTells(rows[k], h) /\ (rows[k].atLeast => "lower bound" \in page.notes)
  <2>1. PICK t : t = s[k]
    OBVIOUS
  <2>2. rows[k] = CrossRow(r, t)
    BY <1>5, <2>1
  <2>3. t \in ChargedIn(P)
    <3>1. Lists(s, ChargedIn(P))
      BY <1>1, <1>2, TotalListed
    <3>2. k \in DOMAIN s
      BY <1>5
    <3>3. QED
      BY <2>1, <3>1, <3>2, ListedAll
  <2>4. cp.tenants[t].notMeasuredIn = MissedBy(Range(h), t)
    BY <1>1, <1>4, <2>3, CrossMisses
  <2>5. LineTells(rows[k], h) /\ (rows[k].atLeast <=> cp.tenants[t].notMeasuredIn # {})
    BY <1>1, <2>2, <2>4, CrossRowTells
  <2>6. t \in DOMAIN cp.tenants
    BY <1>2, <2>3
  <2>7. QED
    BY <1>5, <2>5, <2>6
<1>7. QED
  BY <1>3, <1>5, <1>6

(* A tenant a pool did not see is said not to be measured wherever a       *)
(* figure would stand, no figure is a nil, and a sum that misses a pool is *)
(* marked as a lower bound (ADR 0003, decision 5; report/cost.go).         *)
THEOREM UnmeasuredShownAsSuch == Spec => []UnmeasuredNeverAFigure
<1>1. ReportInv /\ InputsInv => UnmeasuredNeverAFigure
  <2>1. SUFFICES ASSUME ReportInv, InputsInv, phase = "reported" PROVE UnmeasuredNeverAFigure
    BY DEF UnmeasuredNeverAFigure, Reported
  <2>2. GoodInputs(ms, inv) /\ report = AllocateAll(ms, inv, expected)
    BY <2>1 DEF ReportInv
  <2>3. PICK P, doc : P = AllocateAll(ms, inv, expected).pools /\ doc = CostMDData(report)
    OBVIOUS
  <2>4. report.pools = P /\ report.cross = CrossPool(P, inv, expected)
    BY <2>2, <2>3, ReportIs
  <2>5. FromInputs(ms, inv, expected, P)
    BY <2>2, <2>3, PricedAre
  <2>6. doc.pools = [id \in DOMAIN P |-> CostMDPool(P[id])] /\ doc.crossPool = CostMDCrossPool(report)
    BY <2>3, <2>4 DEF CostMDData
  <2>7. DOMAIN doc.pools = DOMAIN ms /\ \A id \in DOMAIN ms : P[id] = Allocate(ms[id], inv, expected)
    BY <2>5, <2>6 DEF FromInputs
  <2>8. \A id \in DOMAIN ms : DOMAIN ms[id].drivers = Measured(id)
    BY DEF Measured
  <2>9. ASSUME NEW id \in DOMAIN doc.pools
        PROVE  SectionTells(doc.pools[id], Measured(id), Measured(id) \cup expected)
    <3>1. doc.pools[id] = CostMDPool(Allocate(ms[id], inv, expected))
      BY <2>5, <2>6, <2>7
    <3>2. GoodMeasurement(ms[id])
      BY <2>2, <2>7 DEF GoodInputs, GoodMeasurements
    <3>3. IsFiniteSet(expected) /\ expected \subseteq Int /\ DOMAIN ms[id].drivers \subseteq Int
      BY <2>1, <2>7 DEF InputsInv
    <3>4. SectionTells(doc.pools[id], DOMAIN ms[id].drivers, DOMAIN ms[id].drivers \cup expected)
      BY <3>1, <3>2, <3>3, PoolPage, CasesAssumption
    <3>5. QED
      BY <2>7, <2>8, <3>4
  <2>10. ASSUME doc.crossPool # Says(""), NEW k \in DOMAIN doc.crossPool.rows
         PROVE  /\ LineTells(doc.crossPool.rows[k], doc.crossPool.headers)
                /\ doc.crossPool.rows[k].atLeast => "lower bound" \in doc.crossPool.notes
    <3>1. ~(Cardinality(DOMAIN report.pools) <= 1)
      BY <2>6, <2>10 DEF CostMDCrossPool
    <3>2. ChargedIn(P) \subseteq Int
      BY <2>1, <2>5 DEF ChargedIn, FromInputs, InputsInv
    <3>3. doc.crossPool = CostMDCrossPool(report)
      BY <2>6
    <3>4. QED
      BY <2>2, <2>4, <2>5, <2>8, <2>10, <3>1, <3>2, <3>3, CrossPage
  <2>11. QED
    BY <2>3, <2>9, <2>10 DEF UnmeasuredNeverAFigure
<1>2. QED
  BY <1>1, ReportInductive, InputsHold, PTL

--------------------------------------------------------------------------------
(* What is left out.                                                       *)

(* A pool of the inventory is one Validate accepted, or not listed there.  *)
LEMMA InventoryPool ==
  ASSUME NEW i, NEW id, GoodInventory(i), Validate(i), NEW p, p = PoolInventory(i, id)
  PROVE  /\ Figures(p) \/ p = NoInventory
         /\ GoodComponents(p)
         /\ DOMAIN p.components \subseteq PoolComponents(id)
<1>1. CASE id \notin DOMAIN i.pools
  <2>1. p = NoInventory
    BY <1>1 DEF PoolInventory
  <2>2. DOMAIN p.components = {}
    BY <2>1 DEF NoInventory
  <2>3. QED
    BY <2>1, <2>2 DEF GoodComponents
<1>2. CASE id \in DOMAIN i.pools
  <2>1. /\ ValidPool(id, p, i.currency) /\ Figures(p)
        /\ \A k \in DOMAIN p.components : Figures(p.components[k])
    BY <1>2 DEF PoolInventory, Validate, GoodInventory
  <2>2. DOMAIN p.components \subseteq PoolComponents(id)
    BY <2>1 DEF ValidPool
  <2>3. QED
    BY <2>1, <2>2 DEF GoodComponents
<1>3. QED
  BY <1>1, <1>2

(* What is priced of a pool by its inventory, and what is not.             *)
LEMMA PriceStates ==
  ASSUME NEW i, NEW id, GoodInventory(i), Validate(i), None \notin Int, NEW p, p = PoolInventory(i, id)
  PROVE  IF DOMAIN p.components = {}
         THEN /\ Price(id, p).poolCost # None <=> IsPriced(p)
              /\ Price(id, p).unpriced = {} /\ DOMAIN Price(id, p).components = {}
              /\ Price(id, p).replicas = p.replicas
         ELSE /\ Price(id, p).poolCost # None <=> PricedOf(id, p) # {}
              /\ Price(id, p).unpriced = PoolComponents(id) \ PricedOf(id, p)
              /\ Price(id, p).components = ComponentCosts(id, p)
              /\ DOMAIN ComponentCosts(id, p) # {}
<1>1. (Figures(p) \/ p = NoInventory) /\ GoodComponents(p) /\ DOMAIN p.components \subseteq PoolComponents(id)
  BY InventoryPool
<1>2. CASE DOMAIN p.components = {}
  <2>1. /\ Price(id, p).poolCost = IF IsPriced(p) THEN p.replicas * p.price ELSE None
        /\ Price(id, p).unpriced = {} /\ Price(id, p).replicas = p.replicas
        /\ Price(id, p).components = <<>>
    BY <1>2 DEF Price, PriceFlat
  <2>2. IsPriced(p) => p.replicas * p.price \in Int
    <3>1. CASE Figures(p)
      BY <3>1 DEF Figures, Number, IsPriced
    <3>2. CASE p = NoInventory
      BY <3>2 DEF NoInventory, IsPriced
    <3>3. QED
      BY <1>1, <3>1, <3>2
  <2>3. DOMAIN <<>> = {}
    OBVIOUS
  <2>4. QED
    BY <1>2, <2>1, <2>2, <2>3
<1>3. CASE DOMAIN p.components # {}
  <2>1. Price(id, p) = PriceComponents(id, p)
    BY <1>3 DEF Price
  <2>2. PriceComponents(id, p).components = ComponentCosts(id, p)
    BY DEF PriceComponents
  <2>3. DOMAIN ComponentCosts(id, p) # {}
    BY <1>1, <1>3 DEF ComponentCosts
  <2>4. PricedOf(id, p) # {} => PriceComponents(id, p).poolCost # None
    <3>1. CostsKnown(id, p, ComponentCosts(id, p), PricedOf(id, p))
      BY <1>1, ComponentsPriced
    <3>2. SumFunctionOnSet(ComponentCosts(id, p), PricedOf(id, p)) \in Int
      BY <3>1, SumType DEF CostsKnown
    <3>3. QED
      BY <1>1, <3>2, ComponentsPrice
  <2>5. QED
    BY <1>1, <1>3, <2>1, <2>2, <2>3, <2>4, ComponentsPrice
<1>4. QED
  BY <1>2, <1>3

(* Counters that are not below zero add up to more than zero exactly if    *)
(* one of them is.                                                         *)
LEMMA SomeCounts ==
  ASSUME NEW f, NEW S, IsFiniteSet(S), \A x \in S : f[x] \in Int /\ f[x] >= 0
  PROVE  SumFunctionOnSet(f, S) > 0 <=> \E x \in S : f[x] > 0
<1>1. PICK T : T = {x \in S : f[x] > 0}
  OBVIOUS
<1>2. T \in SUBSET S /\ \A x \in S \ T : f[x] = 0
  BY <1>1
<1>3. SumFunctionOnSet(f, S) = SumFunctionOnSet(f, T)
  BY <1>2, SumRestrict
<1>4. IsFiniteSet(T)
  BY <1>2, FS_Subset
<1>5. CASE T = {}
  BY <1>1, <1>3, <1>5, SumEmpty
<1>6. CASE T # {}
  BY <1>1, <1>3, <1>4, <1>6, SumPositive
<1>7. QED
  BY <1>5, <1>6

(* A pool's capacity line: of a pool priced as a whole, and by component.  *)
LEMMA CapacityFlat ==
  ASSUME NEW a, NEW line, line = Capacity(a), a.costed <=> a.poolCost # None,
         DOMAIN a.components = {}, a.poolCost # None => a.replicas # None
  PROVE  /\ a.poolCost # None <=> "shows" \in DOMAIN line
         /\ a.poolCost # None => line.notPriced = {}
<1>1. "shows" \notin DOMAIN Says("not costed, no price") /\ "shows" \notin DOMAIN Says("not costed, shares only")
  BY DEF Says
<1>2. CASE a.replicas # None /\ a.poolCost # None
  <2>1. line = [shows |-> a.poolCost, of |-> a.replicas, notPriced |-> {}]
    BY <1>2 DEF Capacity
  <2>2. "shows" \in DOMAIN line /\ line.notPriced = {}
    BY <2>1
  <2>3. QED
    BY <1>2, <2>2
<1>3. CASE a.replicas # None /\ a.poolCost = None
  <2>1. line = Says("not costed, no price")
    BY <1>3 DEF Capacity
  <2>2. QED
    BY <1>1, <1>3, <2>1
<1>4. CASE a.replicas = None
  <2>1. line = Says("not costed, shares only")
    BY <1>4 DEF Capacity
  <2>2. QED
    BY <1>1, <1>4, <2>1
<1>5. QED
  BY <1>2, <1>3, <1>4

(* So it does of a pool priced per component.                              *)
LEMMA CapacityByComponent ==
  ASSUME NEW a, NEW line, line = Capacity(a), DOMAIN a.components # {},
         NEW priced, priced = {c \in DOMAIN a.components : a.components[c] # None}
  PROVE  /\ "shows" \in DOMAIN line <=> priced # {}
         /\ "shows" \in DOMAIN line => line.notPriced = a.unpriced
<1>1. "shows" \notin DOMAIN Says("not costed, shares only")
  BY DEF Says
<1>2. line = IF priced = {} THEN Says("not costed, shares only")
             ELSE [shows |-> a.poolCost, of |-> priced, notPriced |-> a.unpriced]
  BY DEF Capacity, ComponentCapacity
<1>3. CASE priced = {}
  BY <1>1, <1>2, <1>3
<1>4. CASE priced # {}
  <2>1. line = [shows |-> a.poolCost, of |-> priced, notPriced |-> a.unpriced]
    BY <1>2, <1>4
  <2>2. "shows" \in DOMAIN line /\ line.notPriced = a.unpriced
    BY <2>1
  <2>3. QED
    BY <1>4, <2>2
<1>5. QED
  BY <1>3, <1>4

(* More of what Allocate takes over from the pool's price.                 *)
LEMMA AllocateStates ==
  \A x, i, e :
    /\ Allocate(x, i, e).replicas = Price(x.pool, PoolInventory(i, x.pool)).replicas
    /\ Allocate(x, i, e).components = Price(x.pool, PoolInventory(i, x.pool)).components
BY DEF Allocate

(* What a pool's allocation says of its price, against the inventory.      *)
LEMMA PriceTold ==
  ASSUME GoodInventory(inv), Validate(inv), None \notin Int, NEW x, NEW e, NEW a, a = Allocate(x, inv, e),
         NEW id, x.pool = id
  PROVE  /\ a.poolCost # None <=> HasPrice(id)
         /\ a.unpriced = NotPriced(id)
         /\ CapacityTells(Capacity(a), id)
<1>1. PICK p, q, line : p = PoolInventory(inv, id) /\ q = Price(id, p) /\ line = Capacity(a)
  OBVIOUS
<1>2. a.poolCost = q.poolCost /\ a.unpriced = q.unpriced /\ a.replicas = q.replicas /\ a.components = q.components
  BY <1>1, AllocatePrices, AllocateStates
<1>3. a.costed <=> a.poolCost # None
  BY AllocateCosted
<1>4. CASE DOMAIN p.components = {}
  <2>1. /\ q.poolCost # None <=> IsPriced(p)
        /\ q.unpriced = {} /\ DOMAIN q.components = {} /\ q.replicas = p.replicas
    BY <1>1, <1>4, PriceStates
  <2>2. (HasPrice(id) <=> IsPriced(p)) /\ NotPriced(id) = {}
    BY <1>1, <1>4 DEF HasPrice, NotPriced, ByComponent
  <2>3. a.poolCost # None => a.replicas # None
    BY <1>2, <2>1 DEF IsPriced
  <2>4. (a.poolCost # None <=> "shows" \in DOMAIN line) /\ (a.poolCost # None => line.notPriced = {})
    BY <1>1, <1>2, <1>3, <2>1, <2>3, CapacityFlat
  <2>5. QED
    BY <1>1, <1>2, <2>1, <2>2, <2>4 DEF CapacityTells
<1>5. CASE DOMAIN p.components # {}
  <2>1. /\ q.poolCost # None <=> PricedOf(id, p) # {}
        /\ q.unpriced = PoolComponents(id) \ PricedOf(id, p)
        /\ q.components = ComponentCosts(id, p) /\ DOMAIN ComponentCosts(id, p) # {}
    BY <1>1, <1>5, PriceStates
  <2>2. Priceless(id) = PoolComponents(id) \ PricedOf(id, p) /\ PricedOf(id, p) \subseteq PoolComponents(id)
    BY <1>1 DEF Priceless, PricedOf
  <2>3. (HasPrice(id) <=> PricedOf(id, p) # {}) /\ NotPriced(id) = Priceless(id)
    BY <1>1, <1>5, <2>2 DEF HasPrice, NotPriced, ByComponent
  <2>4. PICK priced : priced = {c \in DOMAIN a.components : a.components[c] # None}
    OBVIOUS
  <2>5. priced = PricedOf(id, p)
    <3>1. GoodComponents(p)
      BY <1>1, InventoryPool
    <3>2. CostsKnown(id, p, ComponentCosts(id, p), PricedOf(id, p))
      BY <3>1, ComponentsPriced
    <3>3. QED
      BY <1>2, <2>1, <2>4, <3>2 DEF CostsKnown
  <2>6. /\ "shows" \in DOMAIN line <=> priced # {}
        /\ "shows" \in DOMAIN line => line.notPriced = a.unpriced
    BY <1>1, <1>2, <2>1, <2>4, CapacityByComponent
  <2>7. QED
    BY <1>1, <1>2, <2>1, <2>2, <2>3, <2>5, <2>6 DEF CapacityTells
<1>6. QED
  BY <1>4, <1>5

(* What it says of who was measured.                                       *)
LEMMA MeasuredTold ==
  ASSUME InputsInv, NEW id \in DOMAIN ms, NEW x, x = ms[id], GoodMeasurement(x), None \notin Int,
         NEW i, NEW e, NEW a, a = Allocate(x, i, e)
  PROVE  /\ Measured(id) = DOMAIN x.drivers /\ DOMAIN a.tenants = Measured(id)
         /\ HasShares(a) <=> Counts(id)
         /\ SumFunction(x.drivers) > 0 <=> Counts(id)
<1>1. Measured(id) = DOMAIN x.drivers /\ DOMAIN a.tenants = Measured(id)
  BY AllocateTenants DEF Measured
<1>2. /\ SumFunction(x.drivers) \in Int
      /\ SumFunction(x.drivers) = SumFunctionOnSet(x.drivers, DOMAIN x.drivers)
  BY TotalIs
<1>3. IsFiniteSet(DOMAIN x.drivers) /\ \A t \in DOMAIN x.drivers : x.drivers[t] \in Int /\ x.drivers[t] >= 0
  BY DEF InputsInv, GoodMeasurement
<1>4. SumFunction(x.drivers) > 0 <=> Counts(id)
  <2>1. SumFunctionOnSet(x.drivers, DOMAIN x.drivers) > 0 <=> \E t \in DOMAIN x.drivers : x.drivers[t] > 0
    BY <1>3, SomeCounts
  <2>2. QED
    BY <1>1, <1>2, <2>1 DEF Counts
<1>5. HasShares(a) <=> Counts(id)
  <2>1. CASE DOMAIN x.drivers = {}
    <3>1. a.totalRaw = None
      BY <2>1, AllocateTotals
    <3>2. ~Counts(id)
      BY <1>1, <2>1 DEF Counts
    <3>3. QED
      BY <3>1, <3>2 DEF HasShares
  <2>2. CASE DOMAIN x.drivers # {}
    <3>1. a.totalRaw = SumFunction(x.drivers)
      BY <2>2, AllocateTotals
    <3>2. QED
      BY <1>2, <1>4, <3>1 DEF HasShares
  <2>3. QED
    BY <2>1, <2>2
<1>6. QED
  BY <1>1, <1>4, <1>5

(* The report's pools, in terms of the inputs.                             *)
PoolsTold(P) ==
    /\ DOMAIN P = DOMAIN ms /\ DOMAIN ms \subseteq KnownPools /\ PricedPools(P) \subseteq DOMAIN ms
    /\ \A id \in DOMAIN ms :
        /\ P[id].unpriced = NotPriced(id) /\ DOMAIN P[id].tenants = Measured(id)
        /\ CapacityTells(Capacity(P[id]), id)
        /\ HasShares(P[id]) <=> Counts(id)
        /\ id \in PricedPools(P) <=> Counts(id) /\ HasPrice(id)

(* Each pool of the report is what its measurement and its prices make it. *)
LEMMA PoolsTell ==
  ASSUME InputsInv, GoodInputs(ms, inv), NEW P, FromInputs(ms, inv, expected, P), None \notin Int
  PROVE  PoolsTold(P)
<1>1. DOMAIN P = DOMAIN ms /\ DOMAIN ms \subseteq KnownPools /\ PricedPools(P) \subseteq DOMAIN ms
  BY DEF FromInputs, GoodInputs, GoodMeasurements
<1>2. ASSUME NEW id \in DOMAIN ms
      PROVE  /\ P[id].unpriced = NotPriced(id) /\ DOMAIN P[id].tenants = Measured(id)
             /\ CapacityTells(Capacity(P[id]), id)
             /\ HasShares(P[id]) <=> Counts(id)
             /\ id \in PricedPools(P) <=> Counts(id) /\ HasPrice(id)
  <2>1. PICK x, a : x = ms[id] /\ a = P[id]
    OBVIOUS
  <2>2. a = Allocate(x, inv, expected) /\ GoodMeasurement(x) /\ x.pool = id
    BY <1>1, <1>2, <2>1 DEF FromInputs, GoodInputs, GoodMeasurements
  <2>3. /\ a.poolCost # None <=> HasPrice(id)
        /\ a.unpriced = NotPriced(id)
        /\ CapacityTells(Capacity(a), id)
    BY <2>2, PriceTold DEF GoodInputs
  <2>4. /\ DOMAIN a.tenants = Measured(id)
        /\ HasShares(a) <=> Counts(id)
        /\ SumFunction(x.drivers) > 0 <=> Counts(id)
    BY <2>1, <2>2, MeasuredTold
  <2>5. id \in PricedPools(P) <=> SumFunction(x.drivers) > 0 /\ a.poolCost # None
    BY <1>1, <2>1 DEF FromInputs
  <2>6. QED
    BY <2>1, <2>3, <2>4, <2>5
<1>3. QED
  BY <1>1, <1>2 DEF PoolsTold

(* So the total is made of the pools that count and have a price.          *)
LEMMA TotalTold ==
  ASSUME NEW P, PoolsTold(P)
  PROVE  InTotal = PricedPools(P)
<1>1. \A id \in KnownPools : Fate(id) = "in the total" <=> id \in PricedPools(P)
  <2>1. SUFFICES ASSUME NEW id \in KnownPools PROVE Fate(id) = "in the total" <=> id \in PricedPools(P)
    OBVIOUS
  <2>2. CASE id \notin DOMAIN ms
    <3>1. Measured(id) = {} /\ ~Counts(id)
      BY <2>2 DEF Measured, Counts
    <3>2. Fate(id) = "not read in this run"
      BY <2>2, <3>1 DEF Fate
    <3>3. QED
      BY <2>2, <3>2 DEF PoolsTold
  <2>3. CASE id \in DOMAIN ms
    <3>1. /\ id \in PricedPools(P) <=> Counts(id) /\ HasPrice(id)
          /\ Counts(id) => Measured(id) # {}
      BY <2>3 DEF PoolsTold, Counts
    <3>2. CASE Measured(id) = {}
      <4>1. Fate(id) = "not measured"
        BY <2>3, <3>1, <3>2 DEF Fate
      <4>2. QED
        BY <3>1, <3>2, <4>1
    <3>3. CASE Measured(id) # {} /\ ~Counts(id)
      <4>1. Fate(id) = "has no share (every tenant measured 0)"
        BY <2>3, <3>3 DEF Fate
      <4>2. QED
        BY <3>1, <3>3, <4>1
    <3>4. CASE Counts(id) /\ ~HasPrice(id)
      <4>1. Fate(id) = "not costed"
        BY <2>3, <3>1, <3>4 DEF Fate
      <4>2. QED
        BY <3>1, <3>4, <4>1
    <3>5. CASE Counts(id) /\ HasPrice(id)
      <4>1. Fate(id) = "in the total"
        BY <2>3, <3>1, <3>5 DEF Fate
      <4>2. QED
        BY <3>1, <3>5, <4>1
    <3>6. QED
      BY <3>2, <3>3, <3>4, <3>5
  <2>4. QED
    BY <2>2, <2>3
<1>2. PricedPools(P) \subseteq KnownPools
  BY DEF PoolsTold
<1>3. QED
  BY <1>1, <1>2 DEF InTotal

(* And the list of what is left out says of each other pool what it is.    *)
LEMMA LeftOutTold ==
  ASSUME NEW P, PoolsTold(P), NEW r, r.pools = P, r.notRead = KnownPools \ DOMAIN ms,
         r.cross.priced = PricedPools(P),
         r.cross.unpriced = {id \in DOMAIN P : HasShares(P[id])} \ PricedPools(P),
         r.cross.unmeasured = DOMAIN P \ {id \in DOMAIN P : HasShares(P[id])}
  PROVE  LeftOut(r) = [id \in KnownPools \ InTotal |-> Fate(id)]
<1>1. InTotal = PricedPools(P)
  BY TotalTold
<1>2. ASSUME NEW id \in KnownPools \ InTotal PROVE LeftOutAs(r, id) = Fate(id)
  <2>1. LeftOutAs(r, id) = CASE id \in r.cross.unpriced -> "not costed"
                  [] id \in r.cross.unmeasured /\ DOMAIN P[id].tenants # {} -> "has no share (every tenant measured 0)"
                  [] id \in r.cross.unmeasured /\ DOMAIN P[id].tenants = {} -> "not measured"
                  [] id \in r.notRead -> "not read in this run"
    BY DEF LeftOutAs
  <2>2. CASE id \notin DOMAIN ms
    <3>1. id \notin r.cross.unpriced /\ id \notin r.cross.unmeasured /\ id \in r.notRead
      BY <2>2 DEF PoolsTold
    <3>2. LeftOutAs(r, id) = "not read in this run"
      BY <2>1, <3>1
    <3>3. Measured(id) = {} /\ ~Counts(id)
      BY <2>2 DEF Measured, Counts
    <3>4. Fate(id) = "not read in this run"
      BY <2>2, <3>3 DEF Fate
    <3>5. QED
      BY <3>2, <3>4
  <2>3. CASE id \in DOMAIN ms
    <3>1. /\ id \in DOMAIN P /\ id \notin r.notRead /\ DOMAIN P[id].tenants = Measured(id)
          /\ HasShares(P[id]) <=> Counts(id)
          /\ ~(Counts(id) /\ HasPrice(id))
          /\ Counts(id) => Measured(id) # {}
      BY <1>1, <1>2, <2>3 DEF PoolsTold, Counts
    <3>2. id \in r.cross.unpriced <=> Counts(id)
      BY <1>1, <1>2, <3>1
    <3>3. id \in r.cross.unmeasured <=> ~Counts(id)
      BY <3>1
    <3>4. CASE Counts(id)
      <4>1. LeftOutAs(r, id) = "not costed"
        BY <2>1, <3>1, <3>2, <3>3, <3>4
      <4>2. Fate(id) = "not costed"
        BY <2>3, <3>1, <3>4 DEF Fate
      <4>3. QED
        BY <4>1, <4>2
    <3>5. CASE ~Counts(id) /\ Measured(id) # {}
      <4>1. LeftOutAs(r, id) = "has no share (every tenant measured 0)"
        BY <2>1, <3>1, <3>2, <3>3, <3>5
      <4>2. Fate(id) = "has no share (every tenant measured 0)"
        BY <2>3, <3>1, <3>5 DEF Fate
      <4>3. QED
        BY <4>1, <4>2
    <3>6. CASE ~Counts(id) /\ Measured(id) = {}
      <4>1. LeftOutAs(r, id) = "not measured"
        BY <2>1, <3>1, <3>2, <3>3, <3>6
      <4>2. Fate(id) = "not measured"
        BY <2>3, <3>1, <3>6 DEF Fate
      <4>3. QED
        BY <4>1, <4>2
    <3>7. QED
      BY <3>4, <3>5, <3>6
  <2>4. QED
    BY <2>2, <2>3
<1>3. LeftOut(r) = [id \in KnownPools \ InTotal |-> LeftOutAs(r, id)]
  BY <1>1 DEF LeftOut
<1>4. QED
  BY <1>2, <1>3

(* The largest cost is the largest share, all of them being of the same    *)
(* whole.                                                                  *)
LEMMA ShareOfWhole ==
  ASSUME NEW a \in Int, NEW b \in Int, NEW u \in Int, NEW v \in Int, NEW w \in Int, w > 0, a * v >= b * u
  PROVE  a * (v * w) >= b * (u * w)
<1>1. PICK x, y : x = a * v /\ y = b * u
  OBVIOUS
<1>2. x \in Int /\ y \in Int
  BY <1>1, Products
<1>3. x * w \in Int /\ y * w \in Int
  BY <1>2, Products
<1>4. y < x => y * w < x * w
  BY <1>2, Cancels
<1>5. x * w >= y * w
  <2>1. CASE x = y
    BY <1>3, <2>1
  <2>2. CASE x # y
    <3>1. y < x
      BY <1>1, <1>2, <2>2
    <3>2. QED
      BY <1>3, <1>4, <3>1
  <2>3. QED
    BY <2>1, <2>2
<1>6. a * (v * w) = (a * v) * w /\ b * (u * w) = (b * u) * w
  OBVIOUS
<1>7. QED
  BY <1>1, <1>5, <1>6

(* The statement quotes the largest share of the total.                    *)
LEMMA TopShare ==
  ASSUME NEW given, NEW i, NEW e, GoodInputs(given, i), NEW P, FromInputs(given, i, e, P),
         ChargedIn(P) \subseteq Int, NEW cp, cp = CrossPool(P, i, e), NEW top, top = TotalTenants(cp)[1],
         PricedPools(P) # {}
  PROVE  /\ DOMAIN cp.tenants = ChargedIn(P)
         /\ \A t \in ChargedIn(P) :
                cp.tenants[top].share.num * cp.tenants[t].share.den >= cp.tenants[t].share.num * cp.tenants[top].share.den
<1>1. PICK pc, c : pc = CostOfPriced(P) /\ c = cp.tenants
  OBVIOUS
<1>2. c = [t \in ChargedIn(P) |-> TenantTotal(t, P, PricedPools(P), pc)]
  BY <1>1, CrossTenants
<1>3. pc \in Int /\ pc > 0
  BY <1>1, PricedCostIs
<1>4. PICK d, k : Scales(given, P, d, k)
  BY ScalesExist
<1>5. \A t \in ChargedIn(P) : /\ c[t].cost.num \in Int /\ c[t].cost.den \in Int
                              /\ c[t].share = Frac(c[t].cost.num, c[t].cost.den * pc)
  <2>1. SUFFICES ASSUME NEW t \in ChargedIn(P)
                 PROVE  /\ c[t].cost.num \in Int /\ c[t].cost.den \in Int
                        /\ c[t].share = Frac(c[t].cost.num, c[t].cost.den * pc)
    OBVIOUS
  <2>2. c[t] = TenantTotal(t, P, PricedPools(P), pc)
    BY <1>2
  <2>3. Denotes(c[t].cost, Owed(given, P, k)[t], d)
    BY <1>4, <2>2, TenantOwes
  <2>4. c[t].share = Frac(c[t].cost.num, c[t].cost.den * pc)
    BY <1>4, <2>2, TenantOwes
  <2>5. QED
    BY <2>3, <2>4 DEF Denotes
<1>6. ASSUME NEW t \in ChargedIn(P)
      PROVE  c[top].share.num * c[t].share.den >= c[t].share.num * c[top].share.den
  <2>1. top \in ChargedIn(P) /\ c[top].cost.num * c[t].cost.den >= c[t].cost.num * c[top].cost.den
    <3>1. PICK s : s = TotalTenants(cp)
      OBVIOUS
    <3>2. cp.tenants = [u \in ChargedIn(P) |-> TenantTotal(u, P, PricedPools(P), pc)]
      BY <1>1, <1>2
    <3>3. \A u \in ChargedIn(P) :
             /\ s[1] \in ChargedIn(P)
             /\ cp.tenants[s[1]].cost.num * cp.tenants[u].cost.den >= cp.tenants[u].cost.num * cp.tenants[s[1]].cost.den
      BY <3>1, <3>2, TotalListed
    <3>4. /\ s[1] \in ChargedIn(P)
          /\ c[s[1]].cost.num * c[t].cost.den >= c[t].cost.num * c[s[1]].cost.den
      BY <1>1, <1>6, <3>3
    <3>5. top = s[1]
      BY <3>1
    <3>6. QED
      BY <3>4, <3>5
  <2>2. PICK a, b, u, v : a = c[top].cost.num /\ b = c[t].cost.num /\ u = c[top].cost.den /\ v = c[t].cost.den
    OBVIOUS
  <2>3. a \in Int /\ b \in Int /\ u \in Int /\ v \in Int
    BY <1>5, <2>1, <2>2
  <2>4. a * (v * pc) >= b * (u * pc)
    BY <1>3, <2>1, <2>2, <2>3, ShareOfWhole
  <2>5. c[top].share.num = a /\ c[t].share.num = b /\ c[top].share.den = u * pc /\ c[t].share.den = v * pc
    <3>1. c[top].share = Frac(a, u * pc) /\ c[t].share = Frac(b, v * pc)
      BY <1>5, <2>1, <2>2
    <3>2. \A n, m : Frac(n, m).num = n /\ Frac(n, m).den = m
      BY DEF Frac
    <3>3. QED
      BY <3>1, <3>2
  <2>6. QED
    BY <2>4, <2>5
<1>7. DOMAIN c = ChargedIn(P)
  BY <1>2
<1>8. QED
  BY <1>1, <1>6, <1>7

(* The section across pools.                                               *)
LEMMA CrossTold ==
  ASSUME GoodInputs(ms, inv), NEW P, FromInputs(ms, inv, expected, P), PoolsTold(P), ChargedIn(P) \subseteq Int,
         report.pools = P, report.cross = CrossPool(P, inv, expected), report.notRead = KnownPools \ DOMAIN ms
  PROVE  StatementTells(Statement(report))
<1>1. PICK cp, s : cp = report.cross /\ s = Statement(report)
  OBVIOUS
<1>2. /\ cp.priced = PricedPools(P)
      /\ cp.unpriced = {id \in DOMAIN P : HasShares(P[id])} \ PricedPools(P)
      /\ cp.unmeasured = DOMAIN P \ {id \in DOMAIN P : HasShares(P[id])}
      /\ cp.partial = {id \in PricedPools(P) : P[id].unpriced # {}}
  <2>1. cp = CrossPool(P, inv, expected)
    BY <1>1
  <2>2. QED
    BY <2>1, CrossSets
<1>3. InTotal = PricedPools(P)
  BY TotalTold
<1>4. s.leftOut = LeftOut(report)
  BY <1>1 DEF Statement
<1>5. LeftOut(report) = [id \in KnownPools \ InTotal |-> Fate(id)]
  <2>1. /\ report.cross.priced = PricedPools(P)
        /\ report.cross.unpriced = {id \in DOMAIN P : HasShares(P[id])} \ PricedPools(P)
        /\ report.cross.unmeasured = DOMAIN P \ {id \in DOMAIN P : HasShares(P[id])}
    BY <1>1, <1>2
  <2>2. QED
    BY <2>1, LeftOutTold
<1>6. ASSUME PricedPools(P) # {}
      PROVE  /\ s.covers = [id \in InTotal |-> NotPriced(id)]
             /\ \A t \in DOMAIN Cross.tenants :
                    s.share.num * Cross.tenants[t].share.den >= Cross.tenants[t].share.num * s.share.den
  <2>1. PICK top : top = TotalTenants(cp)[1]
    OBVIOUS
  <2>2. /\ s.covers = [id \in cp.priced |-> IF id \in cp.partial THEN P[id].unpriced ELSE {}]
        /\ s.share = cp.tenants[top].share
    BY <1>1, <1>2, <1>6, <2>1 DEF Statement
  <2>3. \A id \in InTotal : (IF id \in cp.partial THEN P[id].unpriced ELSE {}) = NotPriced(id)
    BY <1>2, <1>3 DEF PoolsTold
  <2>4. s.covers = [id \in InTotal |-> NotPriced(id)]
    BY <1>2, <1>3, <2>2, <2>3
  <2>5. cp = CrossPool(P, inv, expected) /\ Cross = cp
    BY <1>1 DEF Cross
  <2>6. /\ DOMAIN cp.tenants = ChargedIn(P)
        /\ \A t \in ChargedIn(P) :
             cp.tenants[top].share.num * cp.tenants[t].share.den >= cp.tenants[t].share.num * cp.tenants[top].share.den
    <3>1. cp = CrossPool(P, inv, expected)
      BY <2>5
    <3>2. \A t \in ChargedIn(P) :
             cp.tenants[top].share.num * cp.tenants[t].share.den >= cp.tenants[t].share.num * cp.tenants[top].share.den
      BY <1>6, <2>1, <3>1, TopShare
    <3>3. DOMAIN cp.tenants = ChargedIn(P)
      BY <1>6, <2>1, <3>1, TopShare
    <3>4. QED
      BY <3>2, <3>3
  <2>7. QED
    BY <2>2, <2>4, <2>5, <2>6
<1>7. QED
  BY <1>1, <1>3, <1>4, <1>5, <1>6 DEF StatementTells

(* The table across pools has a line exactly if a pool is in the total.    *)
LEMMA TableThere ==
  ASSUME GoodInputs(ms, inv), NEW P, FromInputs(ms, inv, expected, P), PoolsTold(P), ChargedIn(P) \subseteq Int,
         NEW r, r.cross = CrossPool(P, inv, expected),
         NEW rows, rows = [k \in DOMAIN TotalTenants(r.cross) |-> CrossRow(r, TotalTenants(r.cross)[k])]
  PROVE  rows # <<>> <=> InTotal # {}
<1>1. PICK s, T : s = TotalTenants(r.cross) /\ T = ChargedIn(P)
  OBVIOUS
<1>2. Lists(s, T)
  <2>1. r.cross.tenants = [t \in ChargedIn(P) |-> TenantTotal(t, P, PricedPools(P), CostOfPriced(P))]
    BY CrossTenants
  <2>2. QED
    BY <1>1, <2>1, TotalListed
<1>3. InTotal # {} <=> T # {}
  <2>1. \A id \in PricedPools(P) : DOMAIN P[id].tenants # {}
    BY DEF PoolsTold, Counts
  <2>2. T # {} <=> PricedPools(P) # {}
    BY <1>1, <2>1 DEF ChargedIn
  <2>3. QED
    BY <2>2, TotalTold
<1>4. DOMAIN rows = DOMAIN s /\ DOMAIN s = 1..Cardinality(T) /\ (T # {} => 1 \in DOMAIN s)
  BY <1>1, <1>2, ListedAll
<1>5. T # {} => rows # <<>>
  <2>1. DOMAIN <<>> = {}
    OBVIOUS
  <2>2. T # {} => DOMAIN rows # {}
    BY <1>4
  <2>3. QED
    BY <2>1, <2>2
<1>6. T = {} => rows = <<>>
  <2>1. SUFFICES ASSUME T = {} PROVE rows = <<>>
    OBVIOUS
  <2>2. DOMAIN rows = {}
    BY <1>4, <2>1, FS_EmptySet
  <2>3. rows = [k \in DOMAIN s |-> rows[k]] /\ DOMAIN s = {}
    BY <1>1, <1>4, <2>2
  <2>4. rows = [k \in {} |-> rows[k]]
    BY <2>3
  <2>5. QED
    BY <2>4
<1>7. QED
  BY <1>3, <1>5, <1>6

(* The capacity line of each pool's section.                               *)
LEMMA SectionCapacity ==
  \A a : CostMDPool(a).capacity = Capacity(a)
BY DEF CostMDPool

(* The section across pools: absent for a single pool.                     *)
LEMMA SectionAcross ==
  ASSUME NEW r
  PROVE  /\ Cardinality(DOMAIN r.pools) <= 1 => CostMDCrossPool(r) = Says("")
         /\ ~(Cardinality(DOMAIN r.pools) <= 1) =>
                /\ CostMDCrossPool(r) # Says("")
                /\ CostMDCrossPool(r).statement = Statement(r)
                /\ CostMDCrossPool(r).rows
                    = [k \in DOMAIN TotalTenants(r.cross) |-> CrossRow(r, TotalTenants(r.cross)[k])]
<1>1. CASE Cardinality(DOMAIN r.pools) <= 1
  BY <1>1 DEF CostMDCrossPool
<1>2. CASE ~(Cardinality(DOMAIN r.pools) <= 1)
  <2>1. PICK st, hs, rs, ns :
            /\ st = Statement(r)
            /\ rs = [k \in DOMAIN TotalTenants(r.cross) |-> CrossRow(r, TotalTenants(r.cross)[k])]
            /\ CostMDCrossPool(r) = [statement |-> st, headers |-> hs, rows |-> rs, notes |-> ns]
    BY <1>2 DEF CostMDCrossPool
  <2>2. CostMDCrossPool(r) # Says("")
    <3>1. PICK X : X = CostMDCrossPool(r)
      OBVIOUS
    <3>2. "statement" \in DOMAIN X
      BY <2>1, <3>1
    <3>3. DOMAIN Says("") = {"says"} /\ "statement" # "says"
      BY DEF Says
    <3>4. X # Says("")
      BY <3>2, <3>3
    <3>5. QED
      BY <3>1, <3>4
  <2>3. CostMDCrossPool(r).statement = st /\ CostMDCrossPool(r).rows = rs
    BY <2>1
  <2>4. QED
    BY <1>2, <2>1, <2>2, <2>3
<1>3. QED
  BY <1>1, <1>2

(* No share of the total is shown without saying which pools it leaves out *)
(* and why, and no pool's cost without the components it leaves out        *)
(* (report/cost.go:311).                                                   *)
THEOREM LeftOutIsNamed == Spec => []EverythingLeftOutIsNamed
<1>1. ReportInv /\ InputsInv => EverythingLeftOutIsNamed
  <2>1. SUFFICES ASSUME ReportInv, InputsInv, phase = "reported" PROVE EverythingLeftOutIsNamed
    BY DEF EverythingLeftOutIsNamed, Reported
  <2>2. GoodInputs(ms, inv) /\ report = AllocateAll(ms, inv, expected)
    BY <2>1 DEF ReportInv
  <2>3. PICK P, doc : P = AllocateAll(ms, inv, expected).pools /\ doc = CostMDData(report)
    OBVIOUS
  <2>4. report.pools = P /\ report.cross = CrossPool(P, inv, expected) /\ report.notRead = KnownPools \ DOMAIN ms
    BY <2>2, <2>3, ReportIs
  <2>5. FromInputs(ms, inv, expected, P)
    BY <2>2, <2>3, PricedAre
  <2>6. PoolsTold(P)
    BY <2>1, <2>2, <2>5, PoolsTell, CasesAssumption
  <2>7. doc.pools = [id \in DOMAIN P |-> CostMDPool(P[id])] /\ doc.crossPool = CostMDCrossPool(report)
    BY <2>3, <2>4 DEF CostMDData
  <2>8. DOMAIN P = DOMAIN ms
    BY <2>6 DEF PoolsTold
  <2>9. ASSUME NEW id \in DOMAIN ms PROVE CapacityTells(doc.pools[id].capacity, id)
    <3>1. doc.pools[id].capacity = Capacity(P[id])
      BY <2>7, <2>8, SectionCapacity
    <3>2. CapacityTells(Capacity(P[id]), id)
      BY <2>6 DEF PoolsTold
    <3>3. QED
      BY <3>1, <3>2
  <2>10. doc.crossPool = Says("") <=> Cardinality(DOMAIN ms) <= 1
    BY <2>4, <2>7, <2>8, SectionAcross
  <2>11. ChargedIn(P) \subseteq Int
    BY <2>1, <2>5 DEF ChargedIn, FromInputs, InputsInv
  <2>12. ASSUME doc.crossPool # Says("")
         PROVE  /\ StatementTells(doc.crossPool.statement)
                /\ doc.crossPool.rows # <<>> <=> InTotal # {}
    <3>1. ~(Cardinality(DOMAIN report.pools) <= 1)
      BY <2>4, <2>8, <2>10, <2>12
    <3>2. PICK rows : rows = doc.crossPool.rows
      OBVIOUS
    <3>3. /\ doc.crossPool.statement = Statement(report)
          /\ rows = [k \in DOMAIN TotalTenants(report.cross) |-> CrossRow(report, TotalTenants(report.cross)[k])]
      BY <2>7, <3>1, <3>2, SectionAcross
    <3>4. StatementTells(Statement(report))
      BY <2>2, <2>4, <2>5, <2>6, <2>11, CrossTold
    <3>5. rows # <<>> <=> InTotal # {}
      BY <2>2, <2>4, <2>5, <2>6, <2>11, <3>3, TableThere
    <3>6. QED
      BY <3>2, <3>3, <3>4, <3>5
  <2>13. QED
    BY <2>3, <2>9, <2>10, <2>12 DEF EverythingLeftOutIsNamed
<1>2. QED
  BY <1>1, ReportInductive, InputsHold, PTL

================================================================================
