--------------------------- MODULE MCCostAllocation ----------------------------
(* Two sets of inputs.  "Prices" crosses the ways to price the pools with  *)
(* every driver map of two tenants; "Validation" crosses every inventory   *)
(* field's missing, zero, smallest and ordinary values with few drivers.   *)
EXTENDS CostAllocation, TLC

Given(r, p) == [replicas |-> r, price |-> p]
Flat(r, p)  == [replicas |-> r, price |-> p, components |-> <<>>]
Split(c)    == [replicas |-> None, price |-> None, components |-> c]
NoPools     == [id \in {} |-> NoInventory]
Inv(c, rf, platform, mode, pools) ==
    [currency |-> c, rf |-> rf, platform |-> platform, ruleEvaluation |-> mode, pools |-> pools]

(* Maps from some of S to V.                                               *)
Partial(S, V) == UNION {[D -> V] : D \in SUBSET S}

FE == "query-frontend"
QU == "querier"

--------------------------------------------------------------------------------
(* Prices.                                                                 *)
IngesterPrices == {Flat(None, None), Flat(3, None), Flat(None, 2), Flat(3, 2)}
QueryPrices    == {Flat(None, None), Flat(2, 5), Split(FE :> Given(1, 4)),
                   Split(FE :> Given(1, 4) @@ QU :> Given(2, 3)),
                   Split(FE :> Given(1, None) @@ QU :> Given(2, 3)),
                   Split(QU :> Given(None, 3))}
RulerPrices    == {Flat(None, None), Flat(1, 7)}

PricedInventories ==
    {Inv("EUR", None, platform, "", PoolIngesterMemory :> i @@ PoolQueryPath :> q @@ PoolRulerCPU :> r) :
        platform \in {None, 13}, i \in IngesterPrices, q \in QueryPrices, r \in RulerPrices}

Drivers == Partial({1, 2}, 0..2)
FewDrivers == Partial({1, 2}, 0..1)
OneDriver == Partial({2}, 0..1)

IngesterM(d, rf, dedup) ==
    [pool |-> PoolIngesterMemory, drivers |-> d, unreplicated |-> FALSE,
     deduplicated |-> dedup, rf |-> rf, ruleEvaluation |-> ""]
CounterM(id, d, mode) ==
    [pool |-> id, drivers |-> d, unreplicated |-> TRUE,
     deduplicated |-> FALSE, rf |-> None, ruleEvaluation |-> mode]

ById(S) == [id \in {x.pool : x \in S} |-> CHOOSE x \in S : x.pool = id]

PricedMeasurements ==
    {ById({IngesterM(i, 3, FALSE), CounterM(PoolQueryPath, q, "remote"), CounterM(PoolRulerCPU, r, "remote")}) :
        i \in Drivers, q \in FewDrivers, r \in OneDriver}
    \cup {ById({CounterM(PoolQueryPath, q, "local"), CounterM(PoolRulerCPU, r, "local")}) :
        q \in Drivers, r \in OneDriver}

PricedExpected == {{}, {1, 3}}

--------------------------------------------------------------------------------
(* Validation.                                                             *)
Choices3 == {None, -1, 0, 1, 4}
FlatPools == {Flat(r, p) : r \in Choices3, p \in Choices3}
SplitPools == {Split(FE :> Given(r, p)) : r \in Choices3, p \in Choices3}
              \cup {[Split(QU :> Given(1, 1)) EXCEPT !.replicas = 2], Split("store-gateway" :> Given(1, 1))}

AnyInventories ==
    {Inv(c, rf, platform, mode, pools) :
        c \in {"", "EUR"}, rf \in {None, 0, 1, 3}, platform \in {None, 0, 2, 20},
        mode \in {"", "remote", "sometimes"},
        pools \in {NoPools, "compactor" :> Flat(1, 1), PoolIngesterMemory :> Split(FE :> Given(1, 1))}
                  \cup {PoolIngesterMemory :> p : p \in FlatPools}
                  \cup {PoolQueryPath :> p : p \in SplitPools \cup FlatPools}}

FewMeasurements ==
    {ById({IngesterM(i, rf, dedup), CounterM(PoolQueryPath, q, "unknown")}) :
        i \in {1 :> 2 @@ 2 :> 1, 1 :> 0}, q \in {<<>>, 2 :> 2},
        rf \in {None, 0, 2}, dedup \in BOOLEAN}
FewExpected == {{1, 2}}

MCCases ==
    {[inventories |-> PricedInventories, measurements |-> PricedMeasurements, expected |-> PricedExpected],
     [inventories |-> AnyInventories, measurements |-> FewMeasurements, expected |-> FewExpected]}
================================================================================
