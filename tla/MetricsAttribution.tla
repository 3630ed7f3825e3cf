--------------------------- MODULE MetricsAttribution --------------------------
(***************************************************************************)
(* The metrics path of the workload report: three instant queries merged   *)
(* per tenant (mimirmetrics.Read), then made a group-granularity report    *)
(* (attribution.AggregateObservations).  Operators only; ReportRun runs    *)
(* them.  A value is counted in halves, so that rounding can be seen:      *)
(* increase() extrapolates and an evaluation count need not be whole.      *)
(***************************************************************************)
EXTENDS LogAttribution

INSTANCE PromAPI

Queries == <<"duration", "count", "groups">>

NewAccum == [duration |-> 0, observed |-> FALSE, evaluations |-> 0, groups |-> <<>>]

(* userValue: a sample without a user or without a finite value is skipped *)
Usable(smp) == smp.user # None /\ Float(smp) # None

(* splitRuleGroup keeps the base name of the path: the directory goes.     *)
SplitRuleGroup(label) == <<label.file, label.group>>

(* The usable samples of a query, added to their tenant's accumulator:     *)
(* `sum by` promises one sample each, and a second is added rather than    *)
(* kept.                                                                   *)
AddSamples(query, a, smps) ==
    LET group(k) == SplitRuleGroup(smps[k].label)
        sumOf(K) == SumFunction([k \in K |-> Float(smps[k])])
        all      == DOMAIN smps
    IN  CASE query = "duration" -> [a EXCEPT !.duration = @ + sumOf(all), !.observed = @ \/ all # {}]
          [] query = "count"    -> [a EXCEPT !.evaluations = @ + sumOf(all)]
          [] query = "groups"   -> [a EXCEPT !.groups = [g \in DOMAIN @ \cup {group(k) : k \in all} |->
                    (IF g \in DOMAIN @ THEN @[g] ELSE 0) + sumOf({k \in all : group(k) = g})]]

AccumOf(t, accums) == IF t \in DOMAIN accums THEN accums[t] ELSE NewAccum

UsableOf(samples) == Restrict(samples, {k \in DOMAIN samples : Usable(samples[k])})
UsersOf(smps) == {smps[k].user : k \in DOMAIN smps}

Accumulate(query, accums, smps, tenants) ==
    [t \in tenants |->
        AddSamples(query, AccumOf(t, accums), Restrict(smps, {k \in DOMAIN smps : smps[k].user = t}))]

(* Mutant: the queries are intersected: only the first makes tenants.      *)
Merge_Intersects(query, accums, samples) ==
    LET smps == UsableOf(samples)
    IN  Accumulate(query, accums, smps, IF query = "duration" THEN UsersOf(smps) ELSE DOMAIN accums)

(* "merged by tenant, not intersected": the first query that mentions a    *)
(* tenant makes its accumulator.                                           *)
Merge(query, accums, samples) ==
    LET smps == UsableOf(samples) IN Accumulate(query, accums, smps, DOMAIN accums \cup UsersOf(smps))

--------------------------------------------------------------------------------
(* AggregateObservations.  The command passes every accumulator as a       *)
(* tenant observation, so the code's extra row for a tenant that only the  *)
(* groups mention is never needed here.                                    *)

(* math.Round of a value in halves.                                        *)
Round(v) == (v + 1) \div 2

(* GroupAggregate: shares are of the groups the tenant reported.           *)
ObservedGroups(groups) ==
    Ranked([g \in DOMAIN groups |->
                [file |-> g[1], group |-> g[2], rules |-> <<>>, executions |-> Round(groups[g]),
                 rankValue |-> groups[g], rankShare |-> Share(groups[g], SumFunction(groups)),
                 rankObserved |-> TRUE]],
           GroupOrder(DOMAIN groups))

AggregateObservations(accums) ==
    LET anyDuration == \E t \in DOMAIN accums : accums[t].observed /\ accums[t].duration > 0
        executions  == [t \in DOMAIN accums |-> Round(accums[t].evaluations)]
        rankValue   == [t \in DOMAIN accums |->
                            IF anyDuration THEN accums[t].duration ELSE accums[t].evaluations]
        row(t) == [tenant |-> t, executions |-> executions[t],
                   executionShare |-> Share(executions[t], SumFunction(executions)),
                   duration |-> accums[t].duration, durationObserved |-> accums[t].observed,
                   rankValue |-> rankValue[t], rankShare |-> Share(rankValue[t], SumFunction(rankValue)),
                   groups |-> ObservedGroups(accums[t].groups)]
    IN  [granularity |-> "group", total |-> SumFunction(executions),
         rankMetric |-> IF anyDuration THEN "duration" ELSE "executions",
         groupRankMetric |-> "executions",
         tenants |-> Ranked([t \in DOMAIN accums |-> row(t)], TenantOrder(DOMAIN accums))]
================================================================================
