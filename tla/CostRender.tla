------------------------------- MODULE CostRender ------------------------------
(***************************************************************************)
(* report/cost.go: the Markdown form of a cost report, one table per pool  *)
(* and the section across pools.  A cell either shows a figure or says     *)
(* something in words; the wording of a figure (units, digits, commas) is  *)
(* left out.  Tenants are numbers in their sort order.                     *)
(***************************************************************************)
EXTENDS CostModel, Ordering

Says(words)  == [says |-> words]
Shows(value) == [shows |-> value]

(* The largest driver first, then by name.                                 *)
PoolTenants(a) ==
    LET T == DOMAIN a.tenants
        raw(t) == a.tenants[t].raw
    IN  InOrder(T, {p \in T \X T : raw(p[1]) > raw(p[2]) \/ (raw(p[1]) = raw(p[2]) /\ p[1] < p[2])})

(* The largest cost first, then by name.                                   *)
TotalTenants(cp) ==
    LET T == DOMAIN cp.tenants
        cost(t) == cp.tenants[t].cost
        less(x, y) == x.num * y.den < y.num * x.den
    IN  InOrder(T, {p \in T \X T : \/ less(cost(p[2]), cost(p[1]))
                                   \/ SameFrac(cost(p[1]), cost(p[2])) /\ p[1] < p[2]})

--------------------------------------------------------------------------------
(* One pool's section.                                                     *)

DriverCell(v) == IF v = None THEN Says("withheld (no RF)") ELSE Shows(v)

MeasuredRow(a, t) ==
    LET s == a.tenants[t]
        cell(v, otherwise) == IF v = None THEN Says(otherwise) ELSE Shows(v)
    IN  [tenant   |-> t,
         driver   |-> DriverCell(s.driver),
         share    |-> cell(s.share, "undefined"),
         replicas |-> cell(s.equivalent, "-"),
         cost     |-> cell(s.cost, IF a.costed THEN "undefined" ELSE "")]

UnmeasuredRow(a, t) ==
    LET no == Says("not measured")
    IN  [tenant |-> t, driver |-> no, share |-> no, replicas |-> no, cost |-> IF a.costed THEN no ELSE Says("")]

TotalRow(a) ==
    [driver   |-> IF a.totalRaw = None THEN Says("not measured") ELSE DriverCell(a.total),
     share    |-> IF HasShares(a) THEN Shows(1) ELSE Says("-"),
     replicas |-> IF a.replicas = None THEN Says("-") ELSE Shows(a.replicas),
     cost     |-> IF a.costed THEN Shows(a.poolCost) ELSE Says("")]

(* A pool priced per component has no single replica count to show.        *)
Columns(a) ==
    {"driver", "share"} \cup (IF DOMAIN a.components = {} THEN {"replicas"} ELSE {})
                        \cup (IF a.costed THEN {"cost"} ELSE {})

(* The largest tenant's share, in replicas and in money where known.       *)
CostHeadline(a) ==
    IF DOMAIN a.tenants = {} THEN Says("no tenant reported any")
    ELSE LET top == PoolTenants(a)[1]
             s   == a.tenants[top]
         IN  IF s.share = None THEN Says("every measured tenant reported 0")
             ELSE [tenant |-> top, share |-> s.share, cost |-> s.cost, replicas |-> a.replicas,
                   equivalent |-> IF a.replicas = None THEN None ELSE s.equivalent]

ComponentCapacity(a) ==
    LET priced == {c \in DOMAIN a.components : a.components[c] # None}
    IN  IF priced = {} THEN Says("not costed, shares only")
        ELSE [shows |-> a.poolCost, of |-> priced, notPriced |-> a.unpriced]

Capacity(a) ==
    CASE DOMAIN a.components # {} -> ComponentCapacity(a)
      [] DOMAIN a.components = {} /\ a.replicas # None /\ a.costed ->
            [shows |-> a.poolCost, of |-> a.replicas, notPriced |-> {}]
      [] DOMAIN a.components = {} /\ a.replicas # None /\ ~a.costed -> Says("not costed, no price")
      [] OTHER -> Says("not costed, shares only")

CostMDPool(a) ==
    LET measured   == PoolTenants(a)
        unmeasured == Ascending(a.unmeasured)
    IN  [columns  |-> Columns(a),
         capacity |-> Capacity(a),
         headline |-> CostHeadline(a),
         rows     |-> [k \in DOMAIN measured |-> MeasuredRow(a, measured[k])]
                      \o [k \in DOMAIN unmeasured |-> UnmeasuredRow(a, unmeasured[k])],
         total    |-> TotalRow(a)]

--------------------------------------------------------------------------------
(* The section across pools.                                               *)

(* Mutant: a pool in which every tenant measured 0 is not measured.        *)
LeftOutAs_AllZero(r, id) ==
    CASE id \in r.cross.unpriced   -> "not costed"
      [] id \in r.cross.unmeasured -> "not measured"
      [] id \in r.notRead          -> "not read in this run"

(* What a pool that is not in the total is said to be.                     *)
LeftOutAs(r, id) ==
    CASE id \in r.cross.unpriced -> "not costed"
      [] id \in r.cross.unmeasured /\ DOMAIN r.pools[id].tenants # {} -> "has no share (every tenant measured 0)"
      [] id \in r.cross.unmeasured /\ DOMAIN r.pools[id].tenants = {} -> "not measured"
      [] id \in r.notRead -> "not read in this run"

LeftOut(r) == [id \in KnownPools \ r.cross.priced |-> LeftOutAs(r, id)]

PricedInOrder(cp) == At(PoolOrder, {k \in DOMAIN PoolOrder : PoolOrder[k] \in cp.priced})

(* No share of the total is stated without what it covers.                 *)
Statement(r) ==
    LET cp == r.cross
    IN  IF cp.priced = {} THEN [says |-> "no pool is priced", leftOut |-> LeftOut(r)]
        ELSE LET top == TotalTenants(cp)[1]
             IN  [tenant |-> top, share |-> cp.tenants[top].share, of |-> cp.fraction,
                  covers  |-> [id \in cp.priced |-> IF id \in cp.partial THEN r.pools[id].unpriced ELSE {}],
                  leftOut |-> LeftOut(r)]

(* Mutant: a pool the tenant was not measured in costs it the map's zero.  *)
CrossRow_MapDefault(r, t) ==
    LET cp   == r.cross
        line == cp.tenants[t]
        ids  == PricedInOrder(cp)
    IN  [tenant |-> t, total |-> line.cost, share |-> line.share,
         atLeast |-> line.notMeasuredIn # {},
         cells |-> [k \in DOMAIN ids |-> IF ids[k] \in line.pools THEN Shows(r.pools[ids[k]].tenants[t].cost)
                                         ELSE Shows(Zero)]]

CrossRow(r, t) ==
    LET cp   == r.cross
        line == cp.tenants[t]
        ids  == PricedInOrder(cp)
    IN  [tenant |-> t, total |-> line.cost, share |-> line.share,
         atLeast |-> line.notMeasuredIn # {},
         cells |-> [k \in DOMAIN ids |-> IF ids[k] \in line.notMeasuredIn THEN Says("not measured")
                                         ELSE Shows(r.pools[ids[k]].tenants[t].cost)]]

(* Skipped for a single pool, whose own table already says it all; without *)
(* a price there is a statement and no table.                              *)
CostMDCrossPool(r) ==
    IF Cardinality(DOMAIN r.pools) <= 1 THEN Says("")
    ELSE LET ts == TotalTenants(r.cross)
         IN  [statement |-> Statement(r),
              headers   |-> PricedInOrder(r.cross),
              rows      |-> [k \in DOMAIN ts |-> CrossRow(r, ts[k])],
              notes     |-> r.cross.notes \cup
                            IF \E t \in DOMAIN r.cross.tenants : r.cross.tenants[t].notMeasuredIn # {}
                            THEN {"lower bound"} ELSE {}]

CostMDData(r) ==
    [pools |-> [id \in DOMAIN r.pools |-> CostMDPool(r.pools[id])], crossPool |-> CostMDCrossPool(r)]
================================================================================
