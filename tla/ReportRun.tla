------------------------------- MODULE ReportRun -------------------------------
(***************************************************************************)
(* cli.runReport: one run of the report command.  With --telemetry it      *)
(* loads rule definitions, reads the telemetry file line by line, applies  *)
(* --strict and --since and aggregates (LogAttribution).  Without it, it   *)
(* asks Mimir's rule metrics three queries (MetricsAttribution).  The      *)
(* result goes to the renderer of the format asked for (WorkloadRender).   *)
(***************************************************************************)
EXTENDS WorkloadRender

CONSTANTS
    DefinitionLists,    \* what a load of the rule files may give, in load order
    LogLines,           \* lines of a ruler log
    JSONLines,          \* lines of an ndjson file
    MaxLines,           \* bound: lines of the telemetry file
    Cutoffs,            \* now - since, None without --since
    Answers             \* per query: what may come back over the wire

(* Nil is no definition and no execution; a line is malformed or a record. *)
ASSUME ReportAssumption ==
    /\ \A l \in LogLines : l.kind \in {"malformed", "record"}
    /\ \A defs \in DefinitionLists :
        /\ IsFiniteSet(DOMAIN defs)
        /\ \A k \in DOMAIN defs :
            /\ defs[k] # None
            /\ \A l \in LogLines : l.kind = "record" => ExecutionOf(l, defs[k]) # None

(* Names and times are numbers, in their sort order; a time or a figure    *)
(* may be missing, and so may the name or the tenant a line should give.   *)
ASSUME TypesAssumption ==
    /\ None \notin Int
    /\ \A defs \in DefinitionLists : \A k \in DOMAIN defs :
        {defs[k].tenant, defs[k].file, defs[k].group, defs[k].name} \subseteq Int
    /\ \A l \in LogLines \cup JSONLines : l.kind # "malformed" =>
        {l.tenant, l.ts} \subseteq Int \cup {None} /\ l.stats \in [Stats -> Int \cup {None}]
    /\ \A l \in JSONLines : l.kind # "malformed" => {l.tenant, l.file, l.group} \subseteq Int /\ l.name \in Int \cup {None}
    /\ \A q \in Range(Queries) : \A resp \in Answers[q] : Instant(resp).ok =>
        /\ IsFiniteSet(DOMAIN resp.result)
        /\ \A k \in DOMAIN resp.result :
            LET smp == resp.result[k]
            IN  /\ smp.user \in Int \cup {None}
                /\ smp.pair.kind = "finite" => smp.pair.number \in Int
                /\ q = "groups" => {smp.label.file, smp.label.group} \subseteq Int

VARIABLES
    source,     \* "mimirlogs", "ndjson" or "metrics"
    strict, cutoff,
    main,       \* where runReport is
    definitions,
    lines,      \* history: the records read so far, foreign lines left out
    executions, readErrs,
    asked,      \* history: the responses so far
    accums,
    report      \* what is rendered

vars == <<source, strict, cutoff, main, definitions, lines, executions, readErrs, asked, accums, report>>

Init ==
    /\ source \in {"mimirlogs", "ndjson", "metrics"}
    /\ strict \in BOOLEAN /\ cutoff \in Cutoffs
    /\ source = "metrics" => ~strict /\ cutoff = None    \* nothing to skip or filter there
    /\ main = IF source = "metrics" THEN "querying" ELSE "loading"
    /\ definitions = <<>> /\ lines = <<>> /\ executions = <<>> /\ readErrs = 0
    /\ asked = <<>> /\ accums = <<>> /\ report = None

(* A rule file that does not load, a telemetry file that cannot be read:   *)
(* no report.                                                              *)
Fail ==
    /\ main \in {"loading", "reading"}
    /\ main' = "failed"
    /\ UNCHANGED <<source, strict, cutoff, definitions, lines, executions, readErrs, asked, accums, report>>

LoadDefinitions ==
    /\ main = "loading"
    /\ definitions' \in DefinitionLists
    /\ main' = "reading"
    /\ UNCHANGED <<source, strict, cutoff, lines, executions, readErrs, asked, accums, report>>

(* One line of Read's loop.  A blank line, or one of another component, is *)
(* passed over without a trace.                                            *)
ReadLine(l) ==
    /\ main = "reading" /\ Len(lines) < MaxLines
    /\ lines' = Append(lines, l)
    /\ LET e == IF source = "mimirlogs" THEN ReadLogLine(l, definitions) ELSE ReadJSONLine(l)
       IN  IF e = None THEN readErrs' = readErrs + 1 /\ UNCHANGED executions
                       ELSE executions' = Append(executions, e) /\ UNCHANGED readErrs
    /\ UNCHANGED <<source, strict, cutoff, main, definitions, asked, accums, report>>

(* --strict: any record that could not be read is fatal.                   *)
StrictFails ==
    /\ main = "reading" /\ strict /\ readErrs > 0
    /\ main' = "failed"
    /\ UNCHANGED <<source, strict, cutoff, definitions, lines, executions, readErrs, asked, accums, report>>

(* --since: an execution at the cutoff counts.                             *)
InWindow(e) == cutoff = None \/ e.ts >= cutoff

(* observedRange.                                                          *)
ObservedRange(es) ==
    LET times == {es[k].ts : k \in DOMAIN es}
    IN  IF times = {} THEN None ELSE <<Min(times), Max(times)>>

RenderLog ==
    /\ main = "reading" /\ ~(strict /\ readErrs > 0)
    /\ LET es == Restrict(executions, {k \in DOMAIN executions : InWindow(executions[k])})
       IN  report' = [agg |-> Aggregate(es, definitions), observedRange |-> ObservedRange(es), skipped |-> readErrs]
    /\ main' = "rendered"
    /\ UNCHANGED <<source, strict, cutoff, definitions, lines, executions, readErrs, asked, accums>>

(* The next of Read's three queries; any that fails fails the run.         *)
Query ==
    /\ main = "querying" /\ Len(asked) < Len(Queries)
    /\ LET q == Queries[Len(asked) + 1]
       IN  \E resp \in Answers[q] :
            /\ Instant(resp).ok
            /\ asked' = Append(asked, resp)
            /\ accums' = Merge(q, accums, Instant(resp).samples)
    /\ UNCHANGED <<source, strict, cutoff, main, definitions, lines, executions, readErrs, report>>

QueryFails ==
    /\ main = "querying" /\ Len(asked) < Len(Queries)
    /\ \E resp \in Answers[Queries[Len(asked) + 1]] : ~Instant(resp).ok
    /\ main' = "failed"
    /\ UNCHANGED <<source, strict, cutoff, definitions, lines, executions, readErrs, asked, accums, report>>

RenderMetrics ==
    /\ main = "querying" /\ Len(asked) = Len(Queries)
    /\ report' = [agg |-> AggregateObservations(accums), skipped |-> 0]
    /\ main' = "rendered"
    /\ UNCHANGED <<source, strict, cutoff, definitions, lines, executions, readErrs, asked, accums>>

Next ==
    \/ LoadDefinitions \/ Fail
    \/ \E l \in (IF source = "mimirlogs" THEN LogLines ELSE JSONLines) : ReadLine(l)
    \/ StrictFails \/ RenderLog
    \/ Query \/ QueryFails \/ RenderMetrics

Spec == Init /\ [][Next]_vars

--------------------------------------------------------------------------------
(* Properties.                                                             *)

Agg     == report.agg
Rows    == Agg.tenants
ByLog   == main = "rendered" /\ source # "metrics"
ByQuery == main = "rendered" /\ source = "metrics"

SumOver(seq, f(_)) == SumFunction([k \in DOMAIN seq |-> f(seq[k])])

(* The executions a report is about; with --since, from the cutoff on.     *)
Window == {k \in DOMAIN executions : cutoff # None => executions[k].ts >= cutoff}

(* "picking one would be a guess presented as a fact" (exprindex.go:52):   *)
(* an execution read from a ruler log bears the identity of the one and    *)
(* only loaded definition of its tenant with its expression - one that was *)
(* loaded twice is two - and no record that identifies one is passed over. *)
NeverGuessed ==
    source = "mimirlogs" =>
        LET of(t, x) == {k \in DOMAIN definitions : definitions[k].tenant = t /\ definitions[k].expr = x}
        IN  /\ \A e \in Range(executions) :
                /\ Cardinality(of(e.tenant, e.expr)) = 1
                /\ \A k \in of(e.tenant, e.expr) : RuleID(definitions[k]) = RuleID(e)
            /\ Len(executions) = Cardinality({i \in DOMAIN lines :
                    LET l == lines[i]
                    IN  /\ l.kind = "record" /\ None \notin {l.tenant, l.expr, l.ts}
                        /\ Cardinality(of(l.tenant, l.expr)) = 1})

(* A tenant's rules and its unmatched executions add up to the tenant.     *)
TenantAddsUp(r) ==
    /\ r.figures.executions = SumOver(r.rules, LAMBDA q : q.figures.executions) + r.unmatchedExecutions
    /\ \A s \in Stats :
        r.figures.sums[s] = SumOver(r.rules, LAMBDA q : q.figures.sums[s])
            + SumOver(Agg.unmatched, LAMBDA e : IF e.tenant = r.tenant THEN ValueOr(e.stats[s], 0) ELSE 0)

(* Each rule of a tenant stands in one group, that of its name and file.   *)
GroupsHoldTheRules(r) ==
    /\ SumOver(r.groups, LAMBDA g : Len(g.rules)) = Len(r.rules)
    /\ \A g \in Range(r.groups) : \A q \in Range(g.rules) :
        q \in Range(r.rules) /\ q.id[2] = g.file /\ q.id[3] = g.group

(* Every execution of the window is counted once: the tenants add up to    *)
(* the total ("by construction", attribution.go:171), each tenant's rules  *)
(* and unmatched executions to the tenant, for every figure, and each rule *)
(* stands in exactly the group and file that define it.                    *)
WorkCountedOnce ==
    /\ ByLog =>
        /\ Agg.total = Cardinality(Window)
        /\ SumOver(Rows, LAMBDA r : r.figures.executions) = Agg.total
        /\ SumOver(Rows, LAMBDA r : r.unmatchedExecutions) = Len(Agg.unmatched)
        /\ \A r \in Range(Rows) : TenantAddsUp(r) /\ GroupsHoldTheRules(r)
    /\ ByQuery => SumOver(Rows, LAMBDA r : r.executions) = Agg.total

(* One row for each of these tenants and no other.                         *)
RowForEach(ts) == {r.tenant : r \in Range(Rows)} = ts /\ Len(Rows) = Cardinality(ts)

(* The tenants the three queries mention, and what the k-th said of one.   *)
Mentioned == (UNION {{m.user : m \in {x \in Range(asked[k].result) : x.pair.kind = "finite"}} : k \in DOMAIN asked}) \ {None}
SaidOf(k, t) == SumOver(asked[k].result, LAMBDA m : IF m.user = t /\ m.pair.kind = "finite" THEN m.pair.number ELSE 0)

(* An answer, decoded, of Mimir itself, and a vector.                      *)
IsAVector(a) ==
    a.reached /\ a.status = 200 /\ a.decodes /\ a.api = "success" /\ a.type # "matrix"

TellsWhatWasSaid(r) ==
    /\ r.duration = SaidOf(1, r.tenant) /\ r.executions = Round(SaidOf(2, r.tenant))
    /\ SumOver(r.groups, LAMBDA g : g.rankValue) = SaidOf(3, r.tenant)

(* No tenant vanishes and none is made up: one row for every tenant that   *)
(* owns a rule or ran one, or that any of the three queries mentions, with *)
(* all that was said of it and nothing that was said of another.  A query  *)
(* that did not get a vector is no empty answer: "a silently empty report" *)
(* (promapi.go:170) would lose every tenant at once.                       *)
EveryTenantReported ==
    /\ ByLog => RowForEach({d.tenant : d \in Range(definitions)} \cup {executions[k].tenant : k \in Window})
    /\ ByQuery =>
        /\ \A k \in DOMAIN asked : IsAVector(asked[k])
        /\ RowForEach(Mentioned)
        /\ \A r \in Range(Rows) : TellsWhatWasSaid(r)

(* Some record of these measured the figure; all record that they ran.     *)
Seen(s, K) == \E k \in K : s = "executions" \/ executions[k].stats[s] # None

RunBy(t)  == {k \in Window : executions[k].tenant = t}
RunOf(id) == {k \in Window : RuleID(executions[k]) = id}

(* Query 1 measured the time this tenant's rules took.                     *)
TimedBy(t) == \E m \in Range(asked[1].result) : m.user = t /\ m.user # None /\ m.pair.kind = "finite"

(* "A stat summing to 0 with its Observed flag false must be rendered as   *)
(* not available" (attribution.go:195): a figure is flagged as measured    *)
(* exactly when some record of that tenant or rule measured it, and the    *)
(* report ranks by something that somebody measured above zero.            *)
UnmeasuredIsNotZero ==
    /\ ByLog =>
        /\ \A r \in Range(Rows) : \A s \in Stats :
            /\ r.figures.observed[s] <=> Seen(s, RunBy(r.tenant))
            /\ \A q \in Range(r.rules) : q.figures.observed[s] <=> Seen(s, RunOf(q.id))
        /\ Agg.rankMetric # "executions" =>
            \E r \in Range(Rows) : r.figures.observed[Agg.rankMetric] /\ r.rankValue > 0
    /\ ByQuery => \A r \in Range(Rows) : r.durationObserved <=> TimedBy(r.tenant)

(* "every rule appears under exactly one group, so group sums reconcile to *)
(* the tenant total by construction" (attribution.go:206).                 *)
GroupsReconcile ==
    ByLog => \A r \in Range(Rows) :
        r.groups # <<>> => SumOver(r.groups, LAMBDA g : g.rankValue) = r.rankValue

(* A cell of either page: one value and one share, or not measured.        *)
IsMeasured(x) == x.value # Says("not measured")

SameFigures(x, y) ==
    /\ x.value = y.value /\ x.executions = y.executions
    /\ IsMeasured(x) <=> y.share # Says("not measured")
    /\ IsMeasured(x) => x.share.shows[1] * y.share.shows[2] = x.share.shows[2] * y.share.shows[1]

SameRules(x, y) ==
    \A r \in DOMAIN x.rules :
        SameFigures(x.rules[r], y.rules[r]) /\ (IsMeasured(x.rules[r]) <=> Seen(Agg.rankMetric, RunOf(x.rules[r].id)))

SameGroups(x, y) ==
    \A g \in DOMAIN x.groups :
        /\ SameFigures(x.groups[g], y.groups[g]) /\ SameRules(x.groups[g], y.groups[g])
        /\ ByQuery => x.groups[g].absent # Says("no matched rule executions in this group")

SameTenant(x, y) ==
    /\ x.tenant = y.tenant /\ SameFigures(x, y) /\ SameGroups(x, y)
    /\ Agg.rankMetric # "executions" =>
        IsMeasured(x) <=> IF ByLog THEN Seen(Agg.rankMetric, RunBy(x.tenant)) ELSE TimedBy(x.tenant)
    /\ Agg.rankMetric = "executions" => IsMeasured(x)

(* A reader gets the same answer from either page, and a true one: both    *)
(* say "not measured" for a tenant's, a group's or a rule's rank figure    *)
(* exactly when no record of the window measured it there, and otherwise   *)
(* show one value and one share; what is shared out among the tenants is   *)
(* all of it; every record is matched, unmatched or skipped on the         *)
(* coverage line; and a page without rule names never says that no rule    *)
(* matched, "a limitation of the source as if it were a finding"           *)
(* (workload_html.go:266).                                                 *)
PagesAgree ==
    main = "rendered" =>
        LET md    == MarkdownPage(Agg, report.skipped)
            html  == HTMLPage(Agg, report.skipped)
            shown == {k \in DOMAIN html.tenants : IsMeasured(html.tenants[k])}
            total == SumOver(Rows, LAMBDA r : r.rankValue)
            line  == md.coverage
        IN  /\ Len(md.tenants) = Len(html.tenants) /\ md.coverage = html.coverage /\ md.unmatched = html.unmatched
            /\ \A k \in DOMAIN md.tenants : SameTenant(md.tenants[k], html.tenants[k])
            /\ total > 0 => SumFunction([k \in shown |-> html.tenants[k].share.shows[1]]) = total
            /\ ByLog => /\ line.captured = line.matched + line.unmatched + line.skipped
                        /\ cutoff = None => line.captured = Len(lines)

(* "A stat summing to 0 with its Observed flag false must be rendered as   *)
(* not available, never as 0" (attribution.go:195): the line on a tenant's *)
(* unmatched executions gives a number of samples only if some of them     *)
(* measured it, as the table of unmatched executions does.                 *)
UnmatchedSamplesMeasured ==
    ByLog => \A t \in Range(MarkdownPage(Agg, report.skipped).tenants) :
        (t.unmatched # None /\ "shows" \in DOMAIN t.unmatched.samples) =>
            \E e \in Range(Agg.unmatched) : e.tenant = t.tenant /\ e.stats["samples"] # None
================================================================================
