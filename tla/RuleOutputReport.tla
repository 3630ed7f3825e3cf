---------------------------- MODULE RuleOutputReport ---------------------------
(***************************************************************************)
(* The rule-output section of a cost report, measureRuleOutputs from the   *)
(* sources of the rules to the joined report: RuleLoading loads them or    *)
(* refuses, Wanted picks the metric names per tenant, Count asks for them  *)
(* in chunks (RuleOutputChunk) of which any may fail, and Join turns       *)
(* rules, counts and pool 1's denominator into rows and totals.            *)
(*                                                                         *)
(* Count is taken at its word here, as RuleOutputCountAbs states it: every *)
(* pair is settled on its own, a name absent from a good answer has zero   *)
(* series.  Names, files, groups and tenants are numbers in their order.   *)
(***************************************************************************)
EXTENDS RuleLoading, RuleOutputChunk

CONSTANTS
    None,           \* a nil pointer
    SeriesCounts,   \* how many series a metric may have
    NamesCaps,      \* configured MaxNamesPerQuery values
    BytesCaps,      \* configured MaxRegexBytes values
    Denominators    \* what pool 1 gives: None, or per tenant its active series

ASSUME ReportAssumption ==
    /\ NamesCaps \subseteq Int /\ BytesCaps \subseteq Int /\ SeriesCounts \subseteq Nat
    /\ None \notin Int
    /\ \A d \in Denominators : d = None \/ \A t \in DOMAIN d : d[t] \in Int

(* External: Prometheus rejects a recording rule that names no metric.     *)
Definition(kinds) ==
    {d \in [file : Nat, group : Nat, kind : kinds, name : Names \cup {Empty}, parses : BOOLEAN] :
        d.kind = "recording" => d.name # Empty}

(* A rule of a file records or alerts; the ruler may answer other types.   *)
ASSUME SourcesAssumption ==
    \A s \in Sources :
        /\ s.files \in Seq([namespace : Nat, broken : BOOLEAN, rules : Seq(Definition({"recording", "alerting"}))])
        /\ s.discovery \in Seq(Range(s.discovery))
        /\ \A i \in DOMAIN s.discovery : s.discovery[i].kind = "static" =>
                \A ns \in DOMAIN s.discovery[i].map : s.discovery[i].map[ns] \in Nat
        /\ s.unmapped \in [mode : STRING, fallback : Nat]
        /\ s.tenants \in Seq(Nat)
        /\ \A t \in Range(s.tenants) \ {NoTenant} : s.has[t] \in Seq(Definition(STRING))

VARIABLES
    maxNames, maxBytes,
    denominator,
    chunks,     \* the names of each tenant's queries
    counts,     \* Counts.Tenants
    series,     \* observed: the series Mimir has, for the names asked
    report

joinVars == <<maxNames, maxBytes, denominator, chunks, counts, series, report>>
vars == <<loadVars, joinVars>>

IsRecording(r) == r.kind = "recording"
Tenants(rs) == {r.tenant : r \in Range(rs)}
RulesOf(t, rs) == At(rs, {k \in DOMAIN rs : rs[k].tenant = t})
RecordedBy(rs) == {r.name : r \in {x \in Range(rs) : IsRecording(x) /\ x.name # Empty}}

(* Alerting rules and rules without a tenant contribute nothing.           *)
Wanted(rs) ==
    LET wanted == At(rs, {k \in DOMAIN rs : IsRecording(rs[k]) /\ rs[k].name # Empty /\ rs[k].tenant # NoTenant})
    IN  [t \in Tenants(wanted) |-> LET own == RulesOf(t, wanted) IN [k \in DOMAIN own |-> own[k].name]]

(* Count's jobs, tenant by tenant; all run side by side.                   *)
Jobs(want) == [t \in DOMAIN want |-> Chunk(Dedupe(want[t]), maxNames, maxBytes)]

Init ==
    /\ LoadInit
    /\ \E n \in NamesCaps, b \in BytesCaps :
        maxNames = Cap(n, DefaultNames) /\ maxBytes = Cap(b, DefaultBytes)
    /\ denominator \in Denominators
    /\ chunks = <<>> /\ counts = <<>> /\ series = <<>> /\ report = None

(* Every name gets its series or an error: that of its chunk's query, or   *)
(* one of its own when the answer holds a value that is not a count.       *)
Measure ==
    /\ phase = "loaded"
    /\ chunks' = Jobs(Wanted(rules))
    /\ LET asked(t) == UNION {Range(chunks'[t][c]) : c \in DOMAIN chunks'[t]}
           pairs    == UNION {{t} \X asked(t) : t \in DOMAIN chunks'}
       IN  \E failed \in SUBSET pairs, has \in [pairs -> SeriesCounts] :
            /\ series' = has
            /\ counts' = [t \in DOMAIN chunks' |-> [n \in asked(t) |->
                            IF <<t, n>> \in failed THEN None ELSE has[<<t, n>>]]]
    /\ phase' = "counted"
    /\ UNCHANGED <<source, at, rules, loadErrs, maxNames, maxBytes, denominator, report>>

--------------------------------------------------------------------------------
(* Join.                                                                   *)

RuleRef(r) == <<r.file, r.group, r.name>>

(* A tenant no query was made for has no counts; MetricCount of a name is  *)
(* not queried, not measured, or its series.                               *)
TenantCounts(cs, t) == IF t \in DOMAIN cs THEN cs[t] ELSE <<>>
SeriesOf(tc, n)     == IF n \in DOMAIN tc THEN tc[n] ELSE None

ActiveSeries(den, t) == IF den = None \/ t \notin DOMAIN den THEN None ELSE den[t]

(* Mutant: a zero denominator is divided by.                               *)
ShareOf_Unguarded(n, active) == IF n = None \/ active = None THEN None ELSE <<n, active>>

ShareOf(n, active) ==
    IF n = None \/ active = None \/ active <= 0 THEN None ELSE <<n, active>>

StatusOrder == <<"series", "no_series", "not_measured", "no_output">>

(* The references of the metric's other writers, which are told apart by   *)
(* their reference alone.                                                  *)
SharedWith(r, own) ==
    LET others == At(own, {k \in DOMAIN own : /\ IsRecording(own[k]) /\ own[k].name = r.name
                                             /\ r.name # Empty /\ RuleRef(own[k]) # RuleRef(r)})
    IN  [k \in DOMAIN others |-> RuleRef(others[k])]

(* One rule's row, among its tenant's own rules.                           *)
RowOf(r, own, tc, active) ==
    LET n == IF r.tenant = NoTenant THEN None ELSE SeriesOf(tc, r.name)
    IN  IF ~IsRecording(r)
        THEN [file |-> r.file, group |-> r.group, name |-> r.name, status |-> "no_output",
              series |-> None, share |-> None, sharedWith |-> <<>>]
        ELSE [file |-> r.file, group |-> r.group, name |-> r.name, series |-> n,
              status |-> IF n = None THEN "not_measured" ELSE IF n = 0 THEN "no_series" ELSE "series",
              share |-> ShareOf(n, active), sharedWith |-> SharedWith(r, own)]

(* lessRule: best measured first, the most series first, then by place.    *)
LessRule(a, b) ==
    LET rank(x) == CHOOSE k \in DOMAIN StatusOrder : StatusOrder[k] = x.status
    IN  \/ rank(a) < rank(b)
        \/ rank(a) = rank(b) /\ a.series # None /\ b.series # None /\ a.series > b.series
        \/ /\ rank(a) = rank(b) /\ a.series = b.series
           /\ \/ a.file < b.file
              \/ a.file = b.file /\ a.group < b.group
              \/ a.file = b.file /\ a.group = b.group /\ a.name < b.name

(* Mutant: a metric counts once for every rule that records it.            *)
OutputSeries_PerRule(t, own, tc) ==
    LET mine == {k \in DOMAIN own : IsRecording(own[k]) /\ SeriesOf(tc, own[k].name) # None}
    IN  IF t = NoTenant \/ mine = {} THEN None ELSE SumFunction([k \in mine |-> SeriesOf(tc, own[k].name)])

(* Tenant totals count each distinct output metric once.                   *)
OutputSeries(t, own, tc) ==
    LET measured == {n \in RecordedBy(own) : SeriesOf(tc, n) # None}
    IN  IF t = NoTenant \/ measured = {} THEN None
        ELSE SumFunction([n \in measured |-> SeriesOf(tc, n)])

(* sort.SliceStable: rows of which neither is less stay as they were.      *)
SortRules(rows) ==
    LET before(i, j) == LessRule(rows[i], rows[j]) \/ (~LessRule(rows[j], rows[i]) /\ i < j)
        pos == InOrder(DOMAIN rows, {p \in (DOMAIN rows) \X (DOMAIN rows) : before(p[1], p[2])})
    IN  [k \in DOMAIN pos |-> rows[pos[k]]]

TenantOutputs(t, rs, cs, den) ==
    LET own     == RulesOf(t, rs)
        tc      == TenantCounts(cs, t)
        active  == ActiveSeries(den, t)
        metrics == RecordedBy(own)
        missing == {n \in metrics : t = NoTenant \/ SeriesOf(tc, n) = None}
    IN  [tenant        |-> t,
         activeSeries  |-> active,
         outputMetrics |-> Cardinality(metrics),
         outputSeries  |-> OutputSeries(t, own, tc),
         notMeasured   |-> Cardinality(missing),
         complete      |-> missing = {} /\ metrics # {},
         share         |-> ShareOf(OutputSeries(t, own, tc), active),
         rows          |-> SortRules([k \in DOMAIN own |-> RowOf(own[k], own, tc, active)])]

(* Measured tenants first, the most series first.                          *)
LessTenant(a, b) ==
    \/ a.outputSeries # None /\ b.outputSeries = None
    \/ a.outputSeries # None /\ b.outputSeries # None /\ a.outputSeries > b.outputSeries
    \/ a.outputSeries = b.outputSeries /\ a.tenant < b.tenant

JoinOutputs(rs, cs, den) ==
    LET outputs == {TenantOutputs(t, rs, cs, den) : t \in Tenants(rs)}
    IN  InOrder(outputs, {p \in outputs \X outputs : LessTenant(p[1], p[2])})

Join ==
    /\ phase = "counted"
    /\ report' = JoinOutputs(rules, counts, denominator)
    /\ phase' = "joined"
    /\ UNCHANGED <<source, at, rules, loadErrs, maxNames, maxBytes, denominator, chunks, counts, series>>

--------------------------------------------------------------------------------
(* The rule-output section of the page (report/ruleoutput.go).             *)

Says(words)  == [says |-> words]
Shows(value) == [shows |-> value]

OutputSummary(t) ==
    IF t.outputMetrics = 0 THEN Says("no distinct metric")
    ELSE IF t.outputSeries = None THEN Says("none could be counted")
    ELSE [shows |-> t.outputSeries, atLeast |-> ~t.complete,
          share |-> IF t.activeSeries = None THEN None ELSE t.share]

OutputRow(row) ==
    [name   |-> row.name,
     series |-> CASE row.status = "series"    -> Shows(row.series)
                  [] row.status = "no_series" -> Says("0 (no series now)")
                  [] OTHER                    -> Says("not measured"),
     share  |-> IF row.share = None THEN Says("-") ELSE Shows(row.share),
     shares |-> Len(row.sharedWith)]

(* Alerting rules have no row, only their number; the metrics that were    *)
(* not measured are counted once each, whoever records them.               *)
OutputSection(t) ==
    LET recording == At(t.rows, {k \in DOMAIN t.rows : t.rows[k].status # "no_output"})
    IN  [summary  |-> OutputSummary(t),
         rows     |-> [k \in DOMAIN recording |-> OutputRow(recording[k])],
         alerting |-> Len(t.rows) - Len(recording),
         notMeasured |-> Cardinality({row.name : row \in
                            {x \in Range(recording) : x.status = "not_measured"}})]

--------------------------------------------------------------------------------

(* "A rule file that fails to load is fatal": nothing is counted then.     *)
Loading == Load /\ UNCHANGED joinVars

Next == Loading \/ Measure \/ Join

Spec == Init /\ [][Next]_vars

--------------------------------------------------------------------------------
(* Properties.                                                             *)

Joined == phase = "joined"
RegexBytes(group) == SumFunction([k \in DOMAIN group |-> RegexLen[group[k]]])
Failed(t, n) == counts[t][n] = None
TrueTotal(t, S) == SumFunction([n \in S |-> series[<<t, n>>]])

(* "groups of at most maxNames whose regex stays within maxBytes", and a   *)
(* single name longer than that still gets a query of its own              *)
(* (count.go:36): no chunk is empty, only a chunk of one name may pass the *)
(* byte cap, and a chunk is closed only when the next name did not fit, so *)
(* a tenant costs no more queries than its names need.                     *)
ChunksRespectCaps ==
    \A t \in DOMAIN chunks :
        /\ \A c \in DOMAIN chunks[t] :
            /\ Len(chunks[t][c]) \in 1..maxNames
            /\ Len(chunks[t][c]) = 1 \/ RegexBytes(chunks[t][c]) <= maxBytes
        /\ \A c \in 1..Len(chunks[t]) - 1 :
            \/ Len(chunks[t][c]) = maxNames
            \/ RegexBytes(chunks[t][c]) + RegexLen[chunks[t][c + 1][1]] > maxBytes

(* Every metric a tenant's rules record is asked for exactly once, as that *)
(* tenant, and nothing else is: what Join then misses was a failed query,  *)
(* never one that was not made.                                            *)
EveryMetricAskedOnce ==
    phase \in {"counted", "joined"} =>
        /\ DOMAIN chunks = {t \in Tenants(rules) \ {NoTenant} : RecordedBy(RulesOf(t, rules)) # {}}
        /\ \A t \in DOMAIN chunks :
            LET places == UNION {{c} \X (DOMAIN chunks[t][c]) : c \in DOMAIN chunks[t]}
                asked(p) == chunks[t][p[1]][p[2]]
            IN  /\ {asked(p) : p \in places} = RecordedBy(RulesOf(t, rules))
                /\ \A p, q \in places : asked(p) = asked(q) => p = q

(* OutputSeries "sums Series over distinct measured output metrics" and    *)
(* with a metric not measured "is a lower bound" (ruleoutput.go:84): the   *)
(* total never exceeds the series the tenant's rules write and is nil, not *)
(* zero, when nothing was measured.  The page says "at least" of it unless *)
(* every metric was measured, when it is exact.                            *)
TotalIsLowerBound ==
    Joined => \A k \in DOMAIN report :
        LET t == report[k]
            metrics == RecordedBy(RulesOf(t.tenant, rules))
            unknown == IF t.tenant = NoTenant THEN metrics ELSE {n \in metrics : Failed(t.tenant, n)}
            line == OutputSection(t).summary
        IN  IF metrics = {} THEN line = Says("no distinct metric")
            ELSE IF unknown = metrics THEN line = Says("none could be counted")
            ELSE /\ line.shows <= TrueTotal(t.tenant, metrics)
                 /\ line.atLeast <=> unknown # {}
                 /\ ~line.atLeast => line.shows = TrueTotal(t.tenant, metrics)
                 /\ line.share # None => line.share = <<line.shows, denominator[t.tenant]>>

(* A row on the page gives the metric's whole count in the rule's own      *)
(* tenant, or says that there is none or that it was not measured; a share *)
(* exists only over a known and positive number of active series, so no    *)
(* figure divides by zero or by another tenant's series; and the section   *)
(* counts every metric it could not measure once.                          *)
RowsTellTheTruth ==
    Joined => \A k \in DOMAIN report :
        LET t    == report[k].tenant
            page == OutputSection(report[k])
        IN  /\ page.notMeasured = report[k].notMeasured
            /\ page.alerting = Cardinality({i \in DOMAIN rules : rules[i].tenant = t /\ rules[i].kind = "alerting"})
            /\ \A i \in DOMAIN page.rows :
                LET row == page.rows[i]
                IN  /\ row.series = Says("not measured") <=> (t = NoTenant \/ Failed(t, row.name))
                    /\ row.series = Says("0 (no series now)") => series[<<t, row.name>>] = 0
                    /\ "shows" \in DOMAIN row.series => row.series.shows = series[<<t, row.name>>] /\ row.series.shows > 0
                    /\ "shows" \in DOMAIN row.share =>
                        row.share.shows = <<series[<<t, row.name>>], denominator[t]>> /\ denominator[t] > 0

(* From the files or the ruler to the report: every definition that was    *)
(* loaded has one row in its own tenant's section and no row is made up,   *)
(* so with NothingLostInLoading no rule can drop out of the report.  A     *)
(* refused load has no report.                                             *)
EveryDefinitionReported ==
    /\ Joined =>
        /\ NothingLostInLoading
        /\ \A k \in DOMAIN report : Len(report[k].rows) = Len(RulesOf(report[k].tenant, rules))
        /\ \A r \in Range(rules) : \E k \in DOMAIN report :
            /\ report[k].tenant = r.tenant
            /\ \E i \in DOMAIN report[k].rows :
                LET row == report[k].rows[i]
                IN  RuleRef(r) = RuleRef(row) /\ (IsRecording(r) <=> row.status # "no_output")
    /\ report # None => phase = "joined"
================================================================================
