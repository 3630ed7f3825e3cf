----------------------------- MODULE CostAllocation ----------------------------
(***************************************************************************)
(* The cost model run on one set of inputs: an inventory, the measurements *)
(* of the pools that were read, and the tenants the operator named.  The   *)
(* command validates the inventory first and allocates only an accepted    *)
(* one; the properties say what a reader may conclude from the report.     *)
(***************************************************************************)
EXTENDS CostRender

CONSTANT Cases     \* sets of inputs, each crossed: inventories, measurements, expected

(* Replica counts, prices, factors and driver values are numbers, some of  *)
(* them missing; a measurement is of its own pool and of finitely many     *)
(* tenants.  Nothing is said of what Validate is there to check.           *)
Number == Int \cup {None}
Figures(p) == p.replicas \in Number /\ p.price \in Number

ASSUME CasesAssumption ==
    /\ None \notin Int
    /\ \A c \in Cases :
        /\ \A i \in c.inventories :
            /\ DOMAIN i = {"currency", "rf", "platform", "ruleEvaluation", "pools"}
            /\ i.rf \in Number /\ i.platform \in Number
            /\ \A id \in DOMAIN i.pools :
                /\ DOMAIN i.pools[id] = {"replicas", "price", "components"}
                /\ Figures(i.pools[id])
                /\ \A k \in DOMAIN i.pools[id].components : Figures(i.pools[id].components[k])
        /\ \A given \in c.measurements :
            /\ DOMAIN given \subseteq KnownPools
            /\ \A id \in DOMAIN given :
                /\ given[id].pool = id /\ given[id].rf \in Number
                /\ IsFiniteSet(DOMAIN given[id].drivers)
                /\ \A t \in DOMAIN given[id].drivers : given[id].drivers[t] \in Int

(* Tenants are numbers in their sort order, and finitely many are expected *)
(* in a report.                                                            *)
ASSUME TenantsAssumption ==
    \A c \in Cases :
        /\ \A e \in c.expected : IsFiniteSet(e) /\ e \subseteq Int
        /\ \A given \in c.measurements : \A id \in DOMAIN given : DOMAIN given[id].drivers \subseteq Int

(* A driver is a count of series or the increase of a counter.             *)
ASSUME DriversNotNegative ==
    \A c \in Cases : \A given \in c.measurements : \A id \in DOMAIN given :
        \A t \in DOMAIN given[id].drivers : given[id].drivers[t] >= 0

VARIABLES inv, ms, expected, phase, report

vars == <<inv, ms, expected, phase, report>>

Init ==
    /\ \E c \in Cases : inv \in c.inventories /\ ms \in c.measurements /\ expected \in c.expected
    /\ phase = "given"
    /\ report = None

Reject ==
    /\ phase = "given"
    /\ ~Validate(inv)
    /\ phase' = "rejected"
    /\ UNCHANGED <<inv, ms, expected, report>>

Report ==
    /\ phase = "given"
    /\ Validate(inv)
    /\ report' = AllocateAll(ms, inv, expected)
    /\ phase' = "reported"
    /\ UNCHANGED <<inv, ms, expected>>

Next == Reject \/ Report

Spec == Init /\ [][Next]_vars

--------------------------------------------------------------------------------
(* Properties.                                                             *)

Reported == phase = "reported"
Cross    == report.cross
Pools    == report.pools
Measured(id) == IF id \in DOMAIN ms THEN DOMAIN ms[id].drivers ELSE {}

(* "Each pool's cost is still split once, so no cost is counted twice"     *)
(* (total.go:162): the tenants' costs add up to exactly the priced pools'  *)
(* cost, whatever mix of pools is measured, priced or zero, and their      *)
(* shares to one; every pool outside that sum is named exactly once as     *)
(* unpriced, unmeasured or not read.                                       *)
CostIsConserved ==
    Reported =>
        LET costs  == SumFracs([t \in DOMAIN Cross.tenants |-> Cross.tenants[t].cost])
            shares == SumFracs([t \in DOMAIN Cross.tenants |-> Cross.tenants[t].share])
            parts  == <<Cross.priced, Cross.unpriced, Cross.unmeasured, report.notRead>>
        IN  /\ Cross.priced # {} => /\ SameFrac(costs, Frac(Cross.pricedCost, 1))
                                    /\ SameFrac(shares, Frac(1, 1))
            /\ UNION Range(parts) = KnownPools
            /\ \A i, j \in DOMAIN parts : i # j => parts[i] \cap parts[j] = {}

(* Validate "rejects inventories that would produce a figure nobody could  *)
(* defend" (cost.go:167): an accepted inventory never yields a money       *)
(* figure without a currency, a priced pool that costs nothing (so that a  *)
(* share of the priced cost is 0/0), or a division by a zero replication   *)
(* factor or platform cost.                                                *)
FiguresAreDefensible ==
    Reported =>
        /\ \A a \in Range(Pools) :
            /\ a.costed => a.currency # "" /\ a.poolCost > 0
            /\ a.total # None => a.total.den > 0
        /\ Cross.priced # {} => Cross.pricedCost > 0
        /\ Cross.fraction # None => Cross.fraction.den > 0 /\ Cross.fraction.num <= Cross.fraction.den

(* A tenant that was expected and not measured is never given a zero: it   *)
(* is listed as unmeasured, stays out of every pool's tenants, and in the  *)
(* total it is flagged for exactly the priced pools that did not see it -  *)
(* or absent when no priced pool did.                                      *)
NoFabricatedZero ==
    Reported =>
        /\ \A a \in Range(Pools) : \A t \in expected \cup DOMAIN a.tenants :
            IF t \in Measured(a.pool) THEN t \in DOMAIN a.tenants /\ t \notin a.unmeasured
                                      ELSE t \notin DOMAIN a.tenants /\ t \in a.unmeasured
        /\ \A t \in expected \cup UNION {Measured(id) : id \in KnownPools} :
            LET seen == {id \in Cross.priced : t \in Measured(id)}
            IN  IF seen = {} THEN t \notin DOMAIN Cross.tenants
                ELSE /\ t \in DOMAIN Cross.tenants
                     /\ Cross.tenants[t].pools = seen
                     /\ Cross.tenants[t].notMeasuredIn = Cross.priced \ seen

(* "a uniform divisor cancels in a ratio" (cost.go:561): knowing, not      *)
(* knowing or overriding the replication factor moves no share and no      *)
(* cost, only the absolute figures.                                        *)
ReplicationFactorCancels ==
    Reported => \A rf \in {None, 2, 3} :
        LET other == AllocateAll(ms, [inv EXCEPT !.rf = rf], expected)
        IN  /\ other.cross.tenants = Cross.tenants
            /\ \A id \in DOMAIN Pools : \A t \in DOMAIN Pools[id].tenants :
                /\ other.pools[id].tenants[t].share = Pools[id].tenants[t].share
                /\ other.pools[id].tenants[t].cost = Pools[id].tenants[t].cost

(* A partial component list "prices what it lists - the pool is costed,    *)
(* its cost is a lower bound" (cost.go:630): pricing one more component    *)
(* never lowers the pool's cost, and a pool some component of which has no *)
(* full price is named as partial wherever its cost enters the total.      *)
PartialPriceIsLowerBound ==
    Reported => \A a \in Range(Pools) :
        LET p == PoolInventory(inv, a.pool)
            unpriced == {c \in PoolComponents(a.pool) :
                            c \notin DOMAIN p.components \/ ~IsPriced(p.components[c])}
        IN  (a.costed /\ DOMAIN p.components # {}) =>
            /\ unpriced # {} /\ a.pool \in Cross.priced <=> a.pool \in Cross.partial
            /\ \A c \in unpriced :
                PriceComponents(a.pool, [p EXCEPT !.components =
                    [d \in DOMAIN p.components \cup {c} |->
                        IF d = c THEN [replicas |-> 1, price |-> 1] ELSE p.components[d]]]
                  ).poolCost > a.poolCost

(* A pool's section has a row for every tenant, and says of exactly those  *)
(* the pool did not see that they were not measured; a figure is no nil.   *)
SectionTells(p, seen, all) ==
    /\ Len(p.rows) = Cardinality(all)
    /\ {p.rows[k].tenant : k \in DOMAIN p.rows} = all
    /\ \A k \in DOMAIN p.rows : \A c \in p.columns :
        /\ p.rows[k][c] = Says("not measured") <=> p.rows[k].tenant \notin seen
        /\ p.rows[k][c] # Shows(None)
    /\ p.total.driver = Says("not measured") <=> seen = {}
    /\ \A c \in p.columns : p.total[c] # Shows(None)

(* So does a line of the total, pool by pool: its sum is a lower bound if  *)
(* one of them did not see the tenant.                                     *)
LineTells(row, headers) ==
    LET sees(k) == row.tenant \in Measured(headers[k])
    IN  /\ \A k \in DOMAIN headers : row.cells[k] = Says("not measured") <=> ~sees(k)
        /\ row.atLeast <=> \E k \in DOMAIN headers : ~sees(k)

(* 'A missing driver is "not measured", never zero' (ADR 0003, decision 5) *)
(* carried to the page by report/cost.go: every cell of a tenant a pool    *)
(* did not see says so and none of a tenant it did see; a figure is never  *)
(* a nil; and a total is marked as at least that much exactly for the      *)
(* tenants some priced pool missed.                                        *)
UnmeasuredNeverAFigure ==
    Reported =>
        LET doc   == CostMDData(report)
            cross == doc.crossPool
        IN  /\ \A id \in DOMAIN doc.pools : SectionTells(doc.pools[id], Measured(id), Measured(id) \cup expected)
            /\ cross # Says("") => \A k \in DOMAIN cross.rows :
                /\ LineTells(cross.rows[k], cross.headers)
                /\ cross.rows[k].atLeast => "lower bound" \in cross.notes

(* What the inventory and the measurements make of a pool.                 *)
ByComponent(id) == DOMAIN PoolInventory(inv, id).components # {}
Priceless(id) ==
    LET p == PoolInventory(inv, id)
    IN  {c \in PoolComponents(id) : c \notin DOMAIN p.components \/ ~IsPriced(p.components[c])}
NotPriced(id) == IF ByComponent(id) THEN Priceless(id) ELSE {}
HasPrice(id) ==
    IF ByComponent(id) THEN Priceless(id) # PoolComponents(id) ELSE IsPriced(PoolInventory(inv, id))
Counts(id) == \E t \in Measured(id) : ms[id].drivers[t] > 0
Fate(id) ==
    CASE id \notin DOMAIN ms -> "not read in this run"
      [] id \in DOMAIN ms /\ Measured(id) = {} -> "not measured"
      [] Measured(id) # {} /\ ~Counts(id) -> "has no share (every tenant measured 0)"
      [] Counts(id) /\ ~HasPrice(id) -> "not costed"
      [] OTHER -> "in the total"
InTotal == {id \in KnownPools : Fate(id) = "in the total"}

(* A pool's capacity line shows a cost if the pool has a price, and names  *)
(* the components that are not in it.                                      *)
CapacityTells(line, id) ==
    /\ HasPrice(id) <=> "shows" \in DOMAIN line
    /\ HasPrice(id) => line.notPriced = NotPriced(id)

(* The statement across pools says what became of every pool that is not   *)
(* in the total and what is missing from those that are, and quotes the    *)
(* largest share.                                                          *)
StatementTells(s) ==
    /\ s.leftOut = [id \in KnownPools \ InTotal |-> Fate(id)]
    /\ InTotal # {} =>
        /\ s.covers = [id \in InTotal |-> NotPriced(id)]
        /\ \A t \in DOMAIN Cross.tenants :
            s.share.num * Cross.tenants[t].share.den >= Cross.tenants[t].share.num * s.share.den

(* "There is deliberately no code path here that prints a share of the     *)
(* total without the coverage sentence" (report/cost.go:311): across pools *)
(* the statement names every pool once, by what the inputs made of it - in *)
(* the total, and without which components; not costed; all zero; not      *)
(* measured; not read - and no tenant has more than the one it quotes.  In *)
(* a pool's own section the capacity line says the same about its price.   *)
EverythingLeftOutIsNamed ==
    Reported =>
        LET doc == CostMDData(report)
        IN  /\ \A id \in DOMAIN ms : CapacityTells(doc.pools[id].capacity, id)
            /\ doc.crossPool = Says("") <=> Cardinality(DOMAIN ms) <= 1
            /\ doc.crossPool # Says("") =>
                /\ StatementTells(doc.crossPool.statement)
                /\ doc.crossPool.rows # <<>> <=> InTotal # {}
================================================================================
