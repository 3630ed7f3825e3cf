----------------------------- MODULE WorkloadRender ----------------------------
(***************************************************************************)
(* report/workload_md.go and workload_html.go: the two pages a workload    *)
(* report can become.  Both take the same result; the HTML page works out  *)
(* tenant shares itself where the Markdown page takes them over.  A cell   *)
(* shows a value or says something; units, digits and layout are left out. *)
(***************************************************************************)
EXTENDS MetricsAttribution

Says(words)  == [says |-> words]
Shows(value) == [shows |-> value]

(* TenantAggregate.Observed, of the two kinds of report.                   *)
TenantObserved(agg, t) ==
    CASE agg.rankMetric = "executions" -> TRUE
      [] agg.rankMetric # "executions" /\ agg.granularity = "rule" -> t.figures.observed[agg.rankMetric]
      [] OTHER -> t.durationObserved

ExecutionsOf(agg, x) == IF agg.granularity = "rule" THEN x.figures.executions ELSE x.executions

FormatMeasured(observed, v) == IF observed THEN Shows(v) ELSE Says("not measured")
FormatMeasuredPct(observed, share) == IF observed THEN Shows(share) ELSE Says("-")

(* Mutant: a share of a figure nobody measured is a share of zero.         *)
HTMLShare_Unchecked(observed, share) == Shows(share)

(* An unmeasured figure takes the place of its share and its bar.          *)
HTMLShare(observed, share) == IF observed THEN Shows(share) ELSE Says("not measured")

(* How either page writes a share.                                         *)
ShareCell(page, observed, share) ==
    IF page = "html" THEN HTMLShare(observed, share) ELSE FormatMeasuredPct(observed, share)

FormatOptional(v) == IF v = None THEN Says("unknown") ELSE Shows(v)

--------------------------------------------------------------------------------
(* What both templates do with the tiers and the coverage.                 *)

(* At group granularity the absence of rules is a property of the source.  *)
RulesAbsent(agg, g) ==
    IF g.rules # <<>> THEN Says("")
    ELSE IF agg.granularity = "group" THEN Says("rule-level detail not available from this source")
    ELSE Says("no matched rule executions in this group")

GroupsAbsent(agg, t) ==
    IF t.groups # <<>> THEN Says("")
    ELSE IF agg.granularity = "group" THEN Says("no rule groups reported for this tenant")
    ELSE Says("no matched rule executions")

(* The line under a tenant's groups.                                       *)
UnmatchedLine(agg, t) ==
    IF agg.granularity = "group" \/ t.unmatchedExecutions = 0 THEN None
    ELSE [executions |-> t.unmatchedExecutions, samples |-> Shows(t.unmatchedSamples)]

UnmatchedTable(agg) ==
    IF agg.granularity = "group" THEN <<>>
    ELSE [k \in DOMAIN agg.unmatched |->
            [id |-> RuleID(agg.unmatched[k]), ts |-> agg.unmatched[k].ts,
             samples |-> FormatOptional(agg.unmatched[k].stats["samples"])]]

(* The coverage sentence, which a group-granularity page does not have.    *)
Coverage(agg, skipped) ==
    IF agg.granularity = "group" THEN None
    ELSE LET matched == agg.total - Len(agg.unmatched)
         IN  [captured |-> agg.total + skipped, matched |-> matched,
              unmatched |-> Len(agg.unmatched), skipped |-> skipped,
              pct |-> IF agg.total + skipped > 0 THEN Shows(<<matched, agg.total + skipped>>) ELSE Says("n/a")]

(* Both pages lay the tiers out alike.                                     *)
Rules(g, page) ==
    [k \in DOMAIN g.rules |->
        LET r == g.rules[k]
        IN  [id |-> r.id, kind |-> r.kind, executions |-> r.figures.executions,
             value |-> FormatMeasured(r.rankObserved, r.rankValue),
             share |-> ShareCell(page, r.rankObserved, Share(r.rankValue, g.rankValue))]]

Groups(agg, t, page) ==
    [k \in DOMAIN t.groups |->
        LET g == t.groups[k]
        IN  [file |-> g.file, group |-> g.group, executions |-> g.executions,
             value |-> FormatMeasured(g.rankObserved, g.rankValue),
             share |-> ShareCell(page, g.rankObserved, g.rankShare),
             rules |-> Rules(g, page), absent |-> RulesAbsent(agg, g)]]

Tenant(agg, t, shared, page) ==
    [tenant |-> t.tenant, executions |-> ExecutionsOf(agg, t),
     value |-> FormatMeasured(TenantObserved(agg, t), t.rankValue),
     share |-> ShareCell(page, TenantObserved(agg, t), shared),
     groups |-> Groups(agg, t, page), absent |-> GroupsAbsent(agg, t), unmatched |-> UnmatchedLine(agg, t)]

--------------------------------------------------------------------------------

(* workloadMDReporter.Render.                                              *)
MarkdownPage(agg, skipped) ==
    [coverage  |-> Coverage(agg, skipped),
     tenants   |-> [k \in DOMAIN agg.tenants |->
                        Tenant(agg, agg.tenants[k], agg.tenants[k].rankShare, "markdown")],
     unmatched |-> UnmatchedTable(agg)]

(* "What's driving workload": the first three tenants, with their shares   *)
(* where measured.                                                         *)
TopSummary(tenants) ==
    IF tenants = <<>> THEN Says("no matched rule executions in this window")
    ELSE [k \in 1..Min({3, Len(tenants)}) |-> [tenant |-> tenants[k].tenant,
            share |-> IF tenants[k].share = Says("not measured") THEN Says("") ELSE tenants[k].share]]

(* workloadHTMLReporter.Render and buildGroups: a tenant's share is worked *)
(* out over the tenants on the page.                                       *)
HTMLPage(agg, skipped) ==
    LET total == SumFunction([k \in DOMAIN agg.tenants |-> agg.tenants[k].rankValue])
        tenants == [k \in DOMAIN agg.tenants |->
                        LET t == agg.tenants[k] IN Tenant(agg, t, Share(t.rankValue, total), "html")]
    IN  [coverage |-> Coverage(agg, skipped), summary |-> TopSummary(tenants),
         tenants |-> tenants, unmatched |-> UnmatchedTable(agg)]
================================================================================
