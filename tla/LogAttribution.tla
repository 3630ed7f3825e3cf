----------------------------- MODULE LogAttribution ----------------------------
(***************************************************************************)
(* The log path of the workload report: telemetry records become rule      *)
(* executions (mimirlogs, ndjson), executions become tenants, groups and   *)
(* rules (attribution.Aggregate).  Operators only; ReportRun runs them.    *)
(*                                                                         *)
(* Names, files, groups, tenants and expressions are numbers in their sort *)
(* order; an expression stands for all texts with one canonical form.      *)
(***************************************************************************)
EXTENDS Ordering, FiniteSetsExt, Functions

CONSTANTS None      \* a nil pointer, an empty or a missing field

(* The five optional figures of an execution, in pickRankMetric's order.   *)
RankChain == <<"bytes", "chunks", "series", "duration", "samples">>
Stats == Range(RankChain)

(* RuleID, of a definition as of an execution.                             *)
RuleID(x) == <<x.tenant, x.file, x.group, x.name>>

Before(id, jd) ==
    \E k \in 1..4 : id[k] < jd[k] /\ \A h \in 1..(k-1) : id[h] = jd[h]

--------------------------------------------------------------------------------
(* Reading.  A line gives an execution, or None: a ReadError.              *)

(* The loaded definitions that share an expression with a log line; one    *)
(* that was loaded twice counts twice.                                     *)
Sharing(defs, tenant, expr) ==
    {k \in DOMAIN defs : defs[k].tenant = tenant /\ defs[k].expr = expr}

(* Mutant: the first of several definitions is taken.                      *)
Lookup_First(defs, tenant, expr) ==
    LET same == Sharing(defs, tenant, expr) IN IF same = {} THEN None ELSE defs[Min(same)]

(* buildExprIndex and lookup: no definition is no match, several are       *)
(* ambiguous, and neither is an answer.                                    *)
Lookup(defs, tenant, expr) ==
    LET same == Sharing(defs, tenant, expr)
    IN  IF Cardinality(same) = 1 THEN defs[CHOOSE k \in same : TRUE] ELSE None

(* What a log line says of an execution of def; it never carries samples.  *)
ExecutionOf(l, def) ==
    [tenant |-> l.tenant, file |-> def.file, group |-> def.group, name |-> def.name,
     ts |-> l.ts, expr |-> l.expr, stats |-> [l.stats EXCEPT !["samples"] = None]]

(* mimirlogs: a ruler query-stats line names a tenant and an expression;   *)
(* who ran is recovered from the definitions.                              *)
ReadLogLine(l, defs) ==
    IF l.kind = "malformed" \/ None \in {l.tenant, l.expr, l.ts} THEN None
    ELSE LET def == Lookup(defs, l.tenant, l.expr)
         IN  IF def = None THEN None ELSE ExecutionOf(l, def)

(* ndjson: a record says itself which rule ran; only the name and the time *)
(* are required.                                                           *)
ReadJSONLine(l) ==
    IF l.kind = "malformed" \/ None \in {l.name, l.ts} THEN None
    ELSE [tenant |-> l.tenant, file |-> l.file, group |-> l.group, name |-> l.name,
          ts |-> l.ts, expr |-> None, stats |-> l.stats]

--------------------------------------------------------------------------------
(* Sums over executions, given by their positions in what was read.        *)

ValueOr(v, fallback) == IF v = None THEN fallback ELSE v

Sum(s, es)        == SumFunction([k \in DOMAIN es |-> ValueOr(es[k].stats[s], 0)])
ObservedIn(s, es) == \E k \in DOMAIN es : es[k].stats[s] # None

(* Mutant: a figure counts as measured because something ran.              *)
Observed_Ran(es)  == [s \in Stats |-> DOMAIN es # {}]

Observed(es)      == [s \in Stats |-> ObservedIn(s, es)]

(* The first metric with a nonzero total, else the execution count.        *)
PickRankMetric(es) ==
    LET nonzero == {k \in DOMAIN RankChain : Sum(RankChain[k], es) > 0}
    IN  IF nonzero = {} THEN "executions" ELSE RankChain[Min(nonzero)]

Count(es) == Cardinality(DOMAIN es)

MetricValue(m, es) == IF m = "executions" THEN Count(es) ELSE Sum(m, es)

(* pct, pctf: a share is kept as the fraction it is.                       *)
Share(part, total) == IF total = 0 THEN <<0, 1>> ELSE <<part, total>>

Figures(es) == [executions |-> Count(es), sums |-> [s \in Stats |-> Sum(s, es)], observed |-> Observed(es)]

--------------------------------------------------------------------------------
(* Aggregate.                                                              *)

(* The rows of a tier, each with its key, as they stand in the report: the *)
(* largest figure first, then in the order of the keys.                    *)
Ranked(rows, order) ==
    LET K == DOMAIN rows
        keys == InOrder(K, {p \in K \X K :
                    \/ rows[p[1]].rankValue > rows[p[2]].rankValue
                    \/ rows[p[1]].rankValue = rows[p[2]].rankValue /\ p \in order})
    IN  [k \in DOMAIN keys |-> rows[keys[k]]]

(* defsByID: of several definitions with one identity the last is kept.    *)
KindOf(id, defs) == defs[Max({k \in DOMAIN defs : RuleID(defs[k]) = id})].kind

IsKnown(id, defs) == \E k \in DOMAIN defs : RuleID(defs[k]) = id

(* RuleAggregate of one rule of a tenant with the given rank total; its    *)
(* shares by executions and samples follow from the figures and are left   *)
(* out, as are the tenant's.                                               *)
RuleRow(id, es, defs, metric, total) ==
    LET own == Restrict(es, {k \in DOMAIN es : RuleID(es[k]) = id})
    IN  [id |-> id, kind |-> KindOf(id, defs), figures |-> Figures(own),
         rankValue |-> MetricValue(metric, own),
         rankShare |-> Share(MetricValue(metric, own), total),
         rankObserved |-> metric = "executions" \/ ObservedIn(metric, own)]

RuleOrder(ids) == {p \in ids \X ids : Before(p[1], p[2])}

(* Mutant: groups of one name are one group, whatever their files.         *)
GroupKey_Name(id) == <<0, id[3]>>

(* "two files can define groups with the same name".                       *)
GroupKey(id) == <<id[2], id[3]>>

GroupOrder(keys) == {p \in keys \X keys : p[1][2] < p[2][2] \/ (p[1][2] = p[2][2] /\ p[1][1] < p[2][1])}

(* GroupAggregate: the rules of one group of one file.                     *)
GroupRow(key, rules, total) ==
    LET own   == Restrict(rules, {id \in DOMAIN rules : GroupKey(id) = key})
        value == SumFunction([id \in DOMAIN own |-> own[id].rankValue])
    IN  [file |-> key[1], group |-> key[2], rules |-> Ranked(own, RuleOrder(DOMAIN own)),
         executions |-> SumFunction([id \in DOMAIN own |-> own[id].figures.executions]),
         rankValue |-> value, rankShare |-> Share(value, total),
         rankObserved |-> \E id \in DOMAIN own : own[id].rankObserved]

GroupRules(rules, total) ==
    LET keys == {GroupKey(id) : id \in DOMAIN rules}
    IN  Ranked([key \in keys |-> GroupRow(key, rules, total)], GroupOrder(keys))

(* Executions whose identity no loaded rule has.                           *)
Unmatched(es, defs) == Restrict(es, {k \in DOMAIN es : ~IsKnown(RuleID(es[k]), defs)})

(* TenantAggregate: everything with this tenant counts, matched or not.    *)
TenantRow(t, all, defs, metric) ==
    LET es        == Restrict(all, {k \in DOMAIN all : all[k].tenant = t})
        unmatched == Unmatched(es, defs)
        total     == MetricValue(metric, es)
        rules     == [id \in {RuleID(es[k]) : k \in DOMAIN es \ DOMAIN unmatched} |->
                        RuleRow(id, es, defs, metric, total)]
    IN  [tenant |-> t, ruleCount |-> Cardinality({RuleID(defs[k]) : k \in {j \in DOMAIN defs : defs[j].tenant = t}}),
         figures |-> Figures(es), rankValue |-> total,
         rankShare |-> Share(total, MetricValue(metric, all)),
         rules |-> Ranked(rules, RuleOrder(DOMAIN rules)), groups |-> GroupRules(rules, total),
         unmatchedExecutions |-> Count(unmatched), unmatchedSamples |-> Sum("samples", unmatched)]

TenantOrder(ts) == {p \in ts \X ts : p[1] < p[2]}

(* A tenant that owns rules has its row whether or not they ran.           *)
ReportedTenants(es, defs) == {es[k].tenant : k \in DOMAIN es} \cup {defs[k].tenant : k \in DOMAIN defs}

(* By rule, then by time.                                                  *)
UnmatchedOrder(es) ==
    {p \in (DOMAIN es) \X (DOMAIN es) :
        LET e == es[p[1]]
            f == es[p[2]]
        IN  \/ Before(RuleID(e), RuleID(f))
            \/ RuleID(e) = RuleID(f) /\ (e.ts < f.ts \/ (e.ts = f.ts /\ p[1] < p[2]))}

Aggregate(es, defs) ==
    LET metric    == PickRankMetric(es)
        unmatched == Unmatched(es, defs)
        listed    == InOrder(DOMAIN unmatched, UnmatchedOrder(unmatched))
        ts        == ReportedTenants(es, defs)
    IN  [granularity |-> "rule", total |-> Count(es), totalSamples |-> Sum("samples", es),
         definitions |-> Len(defs), rankMetric |-> metric, groupRankMetric |-> metric,
         tenants |-> Ranked([t \in ts |-> TenantRow(t, es, defs, metric)], TenantOrder(ts)),
         unmatched |-> [k \in DOMAIN listed |-> es[listed[k]]]]
================================================================================
