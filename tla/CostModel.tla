------------------------------- MODULE CostModel -------------------------------
(***************************************************************************)
(* internal/cost: what one resource pool costs and how it is split across  *)
(* tenants (cost.go), and the total over several pools (total.go).  Pure:  *)
(* every operator is a function of the measurements, the operator's        *)
(* inventory and the expected tenants.                                     *)
(*                                                                         *)
(* Driver values, replica counts and prices are numbers; a figure the code *)
(* computes in float64 is an exact fraction here.  A nil pointer is None.  *)
(* An assumption-trail line is left out; a note is a name for its text.    *)
(***************************************************************************)
EXTENDS Integers, Sequences, FiniteSets, Functions

CONSTANTS None      \* nil

PoolIngesterMemory == "ingester_memory"
PoolQueryPath      == "query_path"
PoolRulerCPU       == "ruler_cpu"

PoolOrder  == <<PoolIngesterMemory, PoolQueryPath, PoolRulerCPU>>
KnownPools == Range(PoolOrder)

(* The components a pool is priced from; none for a pool of one component. *)
PoolComponents(id) == IF id = PoolQueryPath THEN {"query-frontend", "querier"} ELSE {}

RuleEvaluations == {"", "local", "remote"}

--------------------------------------------------------------------------------
(* Fractions with a positive denominator.                                  *)
Frac(num, den)  == [num |-> num, den |-> den]
Plus(x, y)      == Frac(x.num * y.den + y.num * x.den, x.den * y.den)
SameFrac(x, y)  == x.num * y.den = y.num * x.den
Zero            == Frac(0, 1)
SumFracs(f)     == FoldFunction(Plus, Zero, f)

--------------------------------------------------------------------------------
(* Inventory.Validate.  An inventory is                                    *)
(*   [currency, rf, platform, ruleEvaluation, pools]                       *)
(* where pools maps a pool ID to [replicas, price, components] and         *)
(* components maps a component name to [replicas, price].                  *)

(* Mutant: a price needs no currency.                                      *)
ValidPrice_NoCurrency(p, currency) ==
    /\ p.replicas # None => p.replicas >= 1
    /\ p.price # None => p.price > 0

ValidPrice(p, currency) ==
    /\ p.replicas # None => p.replicas >= 1
    /\ p.price # None => p.price > 0 /\ currency # ""

ValidPool(id, p, currency) ==
    /\ id \in KnownPools
    /\ ValidPrice(p, currency)
    /\ DOMAIN p.components # {} =>
        /\ p.replicas = None /\ p.price = None
        /\ DOMAIN p.components \subseteq PoolComponents(id)
        /\ \A c \in DOMAIN p.components : ValidPrice(p.components[c], currency)

Validate(inv) ==
    /\ inv.rf # None => inv.rf >= 1
    /\ inv.ruleEvaluation \in RuleEvaluations
    /\ inv.platform # None => inv.platform > 0 /\ inv.currency # ""
    /\ \A id \in DOMAIN inv.pools : ValidPool(id, inv.pools[id], inv.currency)

--------------------------------------------------------------------------------
(* resolveReplicationFactor, and Allocate's shortcut for a counter that    *)
(* was counted once.  A measurement is                                     *)
(*   [pool, drivers, unreplicated, deduplicated, rf, ruleEvaluation]       *)
(* with drivers a function from the measured tenants.                      *)

RF(value, notes) == [value |-> value, notes |-> notes]

ResolveReplicationFactor(m, inv) ==
    CASE m.deduplicated ->
            RF(1, IF inv.rf \notin {None, 1} THEN {"replication factor ignored"} ELSE {})
      [] ~m.deduplicated /\ inv.rf # None ->
            RF(inv.rf, IF m.rf \notin {None, inv.rf} THEN {"replication factor overridden"} ELSE {})
      [] ~m.deduplicated /\ inv.rf = None /\ m.rf # None /\ m.rf >= 1 -> RF(m.rf, {})
      [] OTHER -> RF(None, {"replication factor unknown"})

Divisor(m, inv) ==
    IF m.unreplicated THEN RF(1, {}) ELSE ResolveReplicationFactor(m, inv)

--------------------------------------------------------------------------------
(* priceFlat and priceComponents.                                          *)

NoInventory == [replicas |-> None, price |-> None, components |-> <<>>]
PoolInventory(inv, id) == IF id \in DOMAIN inv.pools THEN inv.pools[id] ELSE NoInventory

IsPriced(p) == p.replicas # None /\ p.price # None

PriceFlat(p) ==
    [replicas |-> p.replicas,
     poolCost |-> IF IsPriced(p) THEN p.replicas * p.price ELSE None,
     components |-> <<>>,
     unpriced |-> {},
     notes    |-> IF p.price # None /\ p.replicas = None
                  THEN {"price without replicas"} ELSE {}]

(* What each listed component costs, nil when it is not priced.            *)
ComponentCosts(id, p) ==
    [c \in PoolComponents(id) \cap DOMAIN p.components |->
        LET q == p.components[c] IN IF IsPriced(q) THEN q.replicas * q.price ELSE None]

(* Mutant: a listed component counts as priced.                            *)
PriceComponents_ListedIsPriced(id, p) ==
    LET costs  == ComponentCosts(id, p)
        priced == {c \in DOMAIN costs : costs[c] # None}
        left   == PoolComponents(id) \ DOMAIN p.components
    IN  [replicas |-> None,
         poolCost |-> IF priced = {} THEN None ELSE SumFunction([c \in priced |-> costs[c]]),
         components |-> costs,
         unpriced |-> left,
         notes    |-> IF priced # {} /\ left # {} THEN {"lower bound"} ELSE {}]

PriceComponents(id, p) ==
    LET costs  == ComponentCosts(id, p)
        priced == {c \in DOMAIN costs : costs[c] # None}
        left   == PoolComponents(id) \ priced
    IN  [replicas |-> None,
         poolCost |-> IF priced = {} THEN None ELSE SumFunction([c \in priced |-> costs[c]]),
         components |-> costs,
         unpriced |-> left,
         notes    |-> IF priced # {} /\ left # {} THEN {"lower bound"} ELSE {}]

Price(id, p) == IF DOMAIN p.components # {} THEN PriceComponents(id, p) ELSE PriceFlat(p)

--------------------------------------------------------------------------------
(* Allocate: one pool across its measured tenants.                         *)

(* Mutant: the cost is split by the deduplicated driver.                   *)
TenantShare_CostByDriver(raw, totalRaw, rf, price) ==
    [raw    |-> raw,
     driver |-> IF rf = None THEN None ELSE Frac(raw, rf),
     share  |-> IF totalRaw <= 0 THEN None ELSE Frac(raw, totalRaw),
     equivalent |-> IF totalRaw <= 0 \/ price.replicas = None THEN None
                    ELSE Frac(raw * price.replicas, totalRaw),
     cost   |-> IF totalRaw <= 0 \/ price.poolCost = None THEN None
                ELSE Frac(raw * price.poolCost, totalRaw * IF rf = None THEN 1 ELSE rf)]

TenantShare(raw, totalRaw, rf, price) ==
    [raw    |-> raw,
     driver |-> IF rf = None THEN None ELSE Frac(raw, rf),
     share  |-> IF totalRaw <= 0 THEN None ELSE Frac(raw, totalRaw),
     equivalent |-> IF totalRaw <= 0 \/ price.replicas = None THEN None
                    ELSE Frac(raw * price.replicas, totalRaw),
     cost   |-> IF totalRaw <= 0 \/ price.poolCost = None THEN None
                ELSE Frac(raw * price.poolCost, totalRaw)]

Allocate(m, inv, expected) ==
    LET measured == DOMAIN m.drivers
        totalRaw == SumFunction(m.drivers)
        rf       == Divisor(m, inv)
        price    == Price(m.pool, PoolInventory(inv, m.pool))
    IN  [pool       |-> m.pool,
         tenants    |-> [t \in measured |-> TenantShare(m.drivers[t], totalRaw, rf.value, price)],
         unmeasured |-> expected \ measured,
         totalRaw   |-> IF measured = {} THEN None ELSE totalRaw,
         total      |-> IF measured = {} \/ rf.value = None THEN None ELSE Frac(totalRaw, rf.value),
         rf         |-> IF m.unreplicated THEN None ELSE rf.value,
         replicas   |-> price.replicas,
         components |-> price.components,
         poolCost   |-> price.poolCost,
         unpriced   |-> price.unpriced,
         costed     |-> price.poolCost # None,
         currency   |-> inv.currency,
         ruleEvaluation |-> m.ruleEvaluation,
         notes      |-> rf.notes \cup price.notes \cup
                        IF measured # {} /\ totalRaw <= 0 THEN {"all zero"} ELSE {}]

HasShares(a) == a.totalRaw # None /\ a.totalRaw > 0

--------------------------------------------------------------------------------
(* crossPool and AllocateAll: the total over the priced pools.  pools maps *)
(* the pools that were read to their allocation.                           *)

(* Remote rules show up in the query path's driver as well.                *)
WeighsRuleQueriesTwice(pools, priced) ==
    /\ \E id \in priced : pools[id].ruleEvaluation = "remote"
    /\ {PoolQueryPath, PoolRulerCPU} \subseteq priced

(* Mutant: pools that did not see the tenant are not flagged.              *)
TenantTotal_Unflagged(t, pools, priced, pricedCost) ==
    LET charged == {id \in priced : t \in DOMAIN pools[id].tenants}
        cost    == SumFracs([id \in charged |-> pools[id].tenants[t].cost])
    IN  [cost  |-> cost,
         share |-> Frac(cost.num, cost.den * pricedCost),
         pools |-> charged,
         notMeasuredIn |-> {}]

(* A tenant's line of the total; pools lists what it is charged for.       *)
TenantTotal(t, pools, priced, pricedCost) ==
    LET charged == {id \in priced : t \in DOMAIN pools[id].tenants}
        cost    == SumFracs([id \in charged |-> pools[id].tenants[t].cost])
    IN  [cost  |-> cost,
         share |-> Frac(cost.num, cost.den * pricedCost),
         pools |-> charged,
         notMeasuredIn |-> priced \ charged]

(* Mutant: a pool nobody has a share of carries cost.                      *)
PricedPools_Unshared(pools) == {id \in DOMAIN pools : pools[id].costed}

PricedPools(pools) == {id \in DOMAIN pools : HasShares(pools[id]) /\ pools[id].costed}

(* Which pools enter the total, what they cost, and who pays it.           *)
CrossPool(pools, inv, expected) ==
    LET shared     == {id \in DOMAIN pools : HasShares(pools[id])}
        priced     == PricedPools(pools)
        pricedCost == SumFunction([id \in priced |-> pools[id].poolCost])
        universe   == expected \cup UNION {DOMAIN pools[id].tenants : id \in priced}
        charged    == {t \in universe : \E id \in priced : t \in DOMAIN pools[id].tenants}
        fits       == inv.platform # None /\ pricedCost <= inv.platform
    IN  [priced     |-> priced,
         unpriced   |-> shared \ priced,
         unmeasured |-> DOMAIN pools \ shared,
         partial    |-> {id \in priced : pools[id].unpriced # {}},
         pricedCost |-> pricedCost,
         platform   |-> inv.platform,
         fraction   |-> IF priced # {} /\ fits THEN Frac(pricedCost, inv.platform) ELSE None,
         tenants    |-> [t \in charged |-> TenantTotal(t, pools, priced, pricedCost)],
         notes      |-> IF priced = {} THEN {} ELSE
                          (IF WeighsRuleQueriesTwice(pools, priced) THEN {"weighs rule queries twice"} ELSE {})
                          \cup (IF inv.platform # None /\ ~fits THEN {"priced above platform"} ELSE {})]

(* ms maps the pools that were read to their measurement.                  *)
AllocateAll(ms, inv, expected) ==
    LET pools == [id \in DOMAIN ms |-> Allocate(ms[id], inv, expected)]
    IN  [pools   |-> pools,
         cross   |-> CrossPool(pools, inv, expected),
         notRead |-> KnownPools \ DOMAIN ms]
================================================================================
