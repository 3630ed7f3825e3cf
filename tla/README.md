# Obscost in TLA+

A formal companion to `obscost` (module `github.com/KorhanOzturk90/obscost`,
command `promcost`): a tool that reads rule workload and cost drivers from a
Grafana Mimir cluster and tells which tenant, rule group and rule is behind
them, and the load generator that gives its staging runs a known ground truth.
Paths below are relative to the repository's root.

Every action and operator is translated from the code. `PROJECT.json` lists for
each definition the lines it stands for.

## 1. The system

| Component | Code | State it keeps | Operations |
|---|---|---|---|
| report command | `internal/cli/report.go` | one run's definitions, executions, read errors | `runReport`, `runMetricsReport` |
| cost command | `internal/cli/cost.go` | one run's selected pools and measurements | `runCost`, `measureRuleOutputs` |
| ruler log and ndjson telemetry | `internal/telemetry/mimirlogs`, `ndjson` | the expression index | `Read`, `lookup` |
| ruler metric telemetry | `internal/telemetry/mimirmetrics` | per-tenant accumulators | `Read` |
| workload attribution | `internal/attribution` | none (pure) | `Aggregate`, `AggregateObservations`, `groupRules` |
| cost drivers | `internal/cost/mimirdrivers` | a cache of where rules are evaluated | `ReadIngesterMemory`, `ReadQueryPath`, `ReadRulerCPU` |
| cost model | `internal/cost` | none (pure) | `Validate`, `Allocate`, `AllocateAll`, `crossPool` |
| rule output counting | `internal/ruleoutput/count.go` | a map shared by goroutines, a semaphore | `Count`, `chunk`, `dedupe` |
| rule output join | `internal/ruleoutput/ruleoutput.go` | none (pure) | `Wanted`, `Join` |
| rule loading, tenancy | `internal/loader`, `internal/tenancy`, `internal/rule` | none across calls: the rules and load errors so far | `newDefinitionsSource`, `Load`, `Resolve`, `Apply` |
| API client | `internal/promapi` | none | `Instant`, `Float` |
| renderers | `internal/report` | none (pure) | `Render` of the cost, rule-output and workload pages |
| configuration | `internal/config` | none | parse, check |
| load generator | `dev/staging/workload/cmd/loadgen` | the ground truth in memory and on disk, one goroutine per tenant | `cmdRun`, `runTenant`, `writeLoop`, `pushAll`, `generateRules`, `replace`, `truthStore` |
| validation harness, rig scripts | `dev/staging/validate`, `dev/mimir-k8s/scripts` | offline files | compare, calibrate |

How they interact. The two commands are sequential pipelines: `report` loads
definitions, reads telemetry, aggregates and renders; `cost` reads one pool
after another through one `Source` whose cache the reads share, allocates, and
with `--rule-outputs` hands names to `Count`, whose goroutines share one map,
then joins the counts with pool 1's figures. Both load rule definitions from
files or from the ruler, refuse the run when any source failed, and hand what
they computed to a renderer. The load generator runs a goroutine
per tenant and a ticker, all of which save one shared record to one file.

Where it is hard: the goroutines of `Count` and of the load generator
(interleavings, a signal at any moment, a semaphore that must be given back);
the saves of the ground truth (overlap, crash between two steps, resume); lost,
late and repeated requests (remote write, ruler API); a dozen queries of which
any may fail or come back empty; and, in the pure parts, telling "not measured"
from zero, and adding up without losing or duplicating anything. The hazards,
each at its line, are in `PROJECT.json`.

What makes each part correct, in one sentence:

- *Loading*: every definition of every source is in the report under the tenant
  it belongs to, or there is no report.
- *Count*: bounded, complete, each chunk on its own, nothing written after it
  returned, and it returns.
- *Join*: totals never exceed what Mimir holds, a row never claims what was not
  measured.
- *Attribution*: no guess about who ran, each execution counted once on every
  tier, unmeasured stays unmeasured, no tenant vanishes.
- *Cost*: priced money is fully distributed, no invented zero, a partial price
  is a lower bound, one write path per measurement, all pools or no report.
- *Renderers*: what was not measured is never a figure on the page, what a total
  leaves out is named next to it, and two pages of one result agree.
- *Load generator*: the record never claims more than Mimir has, survives
  crashes and restarts, says of every rule what it writes, and the process ends
  when told to.

## 2. Modules

| Module | Models | Variables and actions |
|---|---|---|
| `RuleOutputCount` | `Count` and `countChunk` | per-goroutine `pc`, the result map `tenants`, the channel `sem`, the WaitGroup `wg`; `Spawn`, `AcquireSlot`, `GiveUp`, `QueryAnswers`, `QueryFails`, `Merge`, `ReleaseSlot`, `Finish`, `Return`, `Cancel` |
| `RuleOutputCountAbs` | what `Count` promises | the names of one chunk after another are settled, then the map is handed over |
| `RuleOutputChunk` | `dedupe`, `chunk`, the caps | operators |
| `RuleLoading` | `newDefinitionsSource`, `loader/dir`, `loader/rulerapi`, `tenancy` | the source, the position in it, `rules`, `loadErrs`, `phase`; `NewDefinitionsSource`, `WalkDirFails`, `LoadFile`, `FetchFails`, `FetchAnswers`, `LoadEnds` |
| `RuleOutputReport` | `measureRuleOutputs`, composing `RuleLoading` and `RuleOutputChunk`, `Count` as its promise, `Join`, and the section of the page | `Loading`, `Measure`, `Join` |
| `CostModel` | `cost.go`, `total.go` | operators; fractions are exact |
| `CostRender` | `report/cost.go` | operators, one per table, row and sentence |
| `CostAllocation` | the model and its page over enumerated inputs | `Reject`, `Report` |
| `MimirDrivers` | the three pool reads, query by query | the read in progress and the cache; one action per query |
| `CostRun` | `runCost`, composing `MimirDrivers` and `CostModel` | `Refuse`, `Accept`, `StartRead`, `ReadFails`, `Collect`, `AllocatePools`, `LoadFails`, `CountOutputs` |
| `LogAttribution` | log lines to executions to `Aggregate` | operators |
| `MetricsAttribution` | `mimirmetrics.Read`, `AggregateObservations` | operators |
| `PromAPI` | `promapi.Client.Instant`, `Sample.Float` | operators |
| `WorkloadRender` | `workload_md.go`, `workload_html.go` | operators, one per tier and page |
| `ReportRun` | `runReport`, composing these | `LoadDefinitions`, `ReadLine`, `StrictFails`, `RenderLog`, `Query`, `QueryFails`, `RenderMetrics`, `Fail` |
| `TruthStore` | `cmdRun`, `runTenant`, `writeLoop`, `truthStore` | clock, process, record, tenants, saves, files; one action per step, down to the write and the rename of a save |
| `PushAll` | `pushAll` and `pusher.push` for one tick | one action per step of a batch |
| `RulerReplace` | `rulerClient.replace` and its retry | requests, failures, late arrivals |
| `LoadProfile` | `Profile.validate`, `buildSeries`, `generateRules` and its record | operators |
| `TenantRun` | one tenant, composing `RulerReplace`, `PushAll` and `LoadProfile` | rules first, then tick after tick |
| `*_proofs` | theorems about the module of that name, section 4 | |
| `Ordering` | `sort.Slice` and the picking of rules and names, by what they give | operators |
| `CollectionTheorems` | facts about sums and sorted lists that those proofs share | |

Each `MC*` module gives a specification its small instance, each `.cfg` is one
run. A definition whose name is another's with a suffix (`Merge_Replaces`,
`Retry_NoDelete`) is a *mutant*: the definition changed by a plausible bug,
used by nothing. Put in place of the original it makes a property fail, which
shows that the property can fail; `PROJECT.json` lists the pairs.

A page is modelled as what stands in its cells: a cell *shows* a value or *says*
something in words (`Shows`, `Says`), which is the distinction every comment of
`internal/report` is about. Template text, units, digits and escaping are left
out.

## 3. Runs

| Run | Question | Instance and why it is enough |
|---|---|---|
| `count` | Is `Count` bounded, complete, isolated, final, terminating, and does it implement its promise? | 3 chunks, 2 slots, one tenant with two chunks: a goroutine always waits, two merge into one map, a signal may come at every step |
| `outputs` | From the files or the ruler to the rule-output section of the page | sources with broken and unparsable files, mapped, skipped and unmapped namespaces, overlapping discovery maps, ruler tenants repeated, blank and empty; up to 3 rules, 3 names of different lengths, caps below, at and above every boundary, the count of any names failing |
| `cost` | Does the money add up for every inventory and driver map, and does the page say what was left out? | three tenants, every pool priced in every way, every field missing, zero, negative and ordinary |
| `cost_run` | A whole run with Mimir answering anything | all selections of pools, four kinds of response, every query may fail |
| `report` | A whole report run | 5 rules (shared expression, shared identity, one group name in two files, one rule loaded twice), up to 3 records, up to 2 samples per metric query, fractional and unusable ones included, and every way a response can be no vector; each result on both pages |
| `truth` | The record through crashes, restarts and overlapping saves | one tenant that pushes rules, starts late and stops as planned, so all three savers run; two lifetimes, one ticker save in all, a clock of 0..3 with ticks that are served late, the file system refusing any of a save's steps |
| `tenant` | One tenant from rules to samples: who wrote what, and do the rules write what the record says? | a profile of 2 metrics with 4 series on 3 shards, so batches of 3 end with a short one and cross metrics, and 3 recording rules per group, so even and odd names change sides at the group boundary; two groups, one left-over group, two slots, two attempts, one late ruler request, two ticks |
| `report_groups`, `report_samples`, `truth_resumable`, `truth_clean_stop`, `truth_subset` | Statements of the code's own comments that the code does not keep, see section 6 | the smallest of the instances above |

Bounds that the code does not have: `MaxClock`, `MaxLifetimes`,
`MaxTickerSaves` (`TruthStore`, whose clock runs only from the first start to the
last end of a process), `MaxTicks`, `MaxLate` (`TenantRun`), `Attempts`
(smaller than the code's), `MaxLines` (`ReportRun`). All other limits are the
code's. `CHECK_DEADLOCK FALSE` stands in every cfg because each of these
programs ends.

Fairness. `count`: weak fairness of every goroutine's next step and of the main
loop - goroutines are scheduled, and the HTTP client has a timeout, so a query
ends. None for `Cancel`. `truth`: weak fairness of each tenant's step, each
save's step and the exit, none for `Interrupt`, `Crash` or the ticker, so
`ShutdownCompletes` speaks of a process that was told to stop and is not killed.
`tenant`: weak fairness of the ruler exchange, of each batch, and of the steps
that end a tick or the loop; requests time out, and a `select` with the context
done eventually takes that case. None for the end of the context, so
`StopsWhenTold` is a leads-to from it.

## 4. Proofs

A run shows a property of one small instance; the theorems below hold for every
value of the constants that the named assumptions admit. TLC evaluates each
assumption on the runs, so the instances are among the cases proved about.

Seldom is a property inductive as it stands. Each module therefore starts with
an invariant that says what the code relies on between its steps, shows that
`Init` gives it and that each action keeps it, one lemma per action or part, and
then reads the properties off it.

### `Count` (`RuleOutputCount_proofs`)

| Theorem | Says |
|---|---|
| `TypeCorrect` | every variable keeps its type; the WaitGroup and the semaphore never go negative |
| `InFlightIsBounded` | at most `Concurrency` goroutines hold a slot |
| `NothingIsMissing` | when `Count` returns, every pair has an entry |
| `ResultIsFinal` | no write to the map once it was handed over |
| `ChunksAreIsolated` | every entry is what its own chunk's query said |
| `CountKeepsItsPromise` | the safety part of `RuleOutputCountAbs`: every step maps to an abstract step or a stutter |

For any finite set of jobs, any assignment of pairs to them and any positive
concurrency (`CountAssumption`, `JobsPartition`: each pair is in exactly one
chunk, which is what `AskedOnce` below says of the chunks of a report).

`IInv` adds `SlotsCounted` (the channel's length is the number of goroutines
between acquiring and releasing), `WaitCounted` (the WaitGroup's count is the
number of goroutines spawned and not done), `MainKnows` (past `Wait` every
goroutine is finished) and `EntriesFollow` (a chunk's entries are missing before
its merge and results of that chunk after it). `ChunksAreIsolated` adds
`AnswersFollow`, which ties each entry to the chunk's recorded answer.

### One tenant of the load generator (`TenantRun_proofs`)

| Theorem | Says |
|---|---|
| `TenantTypes` | the type invariant, from the rule push to the last tick |
| `RulesFirst` | no sample before the tenant's groups are in place |
| `NothingLingers` | after a successful replace the ruler holds no group that is not the profile's, whatever failed before or arrives late |
| `SamplesCounted` | at the end of a tick every series was counted once, as written or as failed |
| `SentMeansStored` | a sample counted as written is in Mimir |
| `RulesWriteTruth` | the groups in the ruler write no more series under a record name than the record says, exactly that many once all groups and samples are there, and no two rules share a name |

For any valid profile, batch size, number of slots, attempts, ticks and late
requests, and any groups found in the ruler (`ProfileAssumption`,
`TenantAssumption`, `PushAssumption`; a batch size of at least 1, see section 6,
is part of the first). `TenantInv` has the attempts and ticks
left, what the ruler took since the delete of the attempt under way
(`PushFollowsDelete`), that nothing is written before (`WritesAfterPush`), and
`SamplesAddUp`: `pushAll`'s totals at every moment as sums over the batches that
got that far. `SamplesCounted` rests on `SlicesPartition`: the batches `pushAll`
cuts carry every live series once. `RulesWriteTruth` rests on `RulesNumbered`:
the rules of all groups are numbered without gap or repeat, so no two write the
same series' total.

The first attempt at `TenantTypes` failed on `NextTick`, which could begin a tick
after the loop had ended; `writeLoop` cannot, and the run's two ticks had hidden
it. The guard `~silent` is the correction.

### The record of truth (`TruthStore_proofs`)

| Theorem | Says |
|---|---|
| `WithinPlan` | every segment, in memory and in every file, lies in its tenant's planned window and in its process's lifetime |
| `OnePerLifetime` | between any two of a tenant's segments with samples a new lifetime began: at most one segment per tenant and lifetime |
| `PastNeverChanges` | with every tenant selected on every start, no step changes what an earlier lifetime recorded |

For any tenants, plans, selections, number of lifetimes and saves, with crashes
at any point and a disk that may refuse (`ProfileAssumption`). The record exists
in many copies: in memory, in the snapshot of each saver, in each file the disk
holds. `RecordInv` says the same of all of them (`TruthsOK`): every segment fits
its plan and what Mimir accepted, and the segments of a tenant map one to one and
in order into the lifetimes so far. `ProcessOK` and `TenantsOK` say where the
process and each tenant's goroutine are in their current lifetime, `FilesOK` that
a file that can be read is a record of a run that started.

`PastNeverChanges` has a hypothesis, that every start selects all tenants, and needs it: the
run `truth_subset` shows the record of an unselected tenant being forgotten. With
it, `PastInv` says that every copy that can still reach the file agrees with the
record in memory on the lifetimes before the current one.

### A run of the cost command (`CostRun_proofs`)

| Theorem | Says |
|---|---|
| `OnePathOnly` | a measurement of ingester memory holds one write path's series |
| `StrongestTaken` | the query path's driver is the first of the chain above zero, else the first that answered, else none after asking all four |
| `SelectedOrNone` | a report covers exactly the selected pools, each allocated from the one measurement its read returned, or there is no report |
| `RuleWorkAgrees` | a report says one thing about where rules run, and the operator's statement wins |

For any responses, requests, inventories and windows, every query free to fail
(`DriversAssumption`, `RunAssumption`). `ReadInv` follows one read query by query:
who asks what (`WhoAsks`), that a source runs one read at a time, and what each
of the three reads has heard and made of it so far (`MemoryRead`, `ChainRead`,
`ModeRead`). `RunInv` adds the run: the measurements so far are those of the
pools before the next one in `PoolOrder`, each what its read returned, and the
report is made of exactly them. That nothing was counted while
rules are loaded had to be part of it: without it the step of `LoadFails` does not
preserve the rest.

### The cost model (`CostAllocation_proofs`)

| Theorem | Says |
|---|---|
| `ConservedCost` | tenants' costs add up to exactly the cost of the priced pools, their shares to one; every other pool is named exactly once |
| `NoZeroFabricated` | a tenant that a pool did not measure has no line there, and the total names exactly the priced pools that missed it |
| `DefensibleFigures` | what `Validate` accepts never gives a figure without a currency, a priced pool that costs nothing or a division by zero |
| `FactorCancels` | no replication factor, known or not, moves a share or a cost |
| `PartialIsLowerBound` | pricing one more component only raises a pool's cost, and the total names the pool as partly priced |
| `UnmeasuredShownAsSuch` | on the page a tenant that a pool did not see is said not to be measured wherever a figure would stand, no figure is a nil, and a sum that misses a priced pool is marked as a lower bound |
| `LeftOutIsNamed` | across pools the page says of every pool what the inputs made of it, and quotes the largest share |

For any number of tenants, any drivers and any inventory, valid or not
(`CasesAssumption`: prices, counts and drivers are integers and a missing one is
`None`; for the page also `TenantsAssumption`: tenants are numbers in their sort
order, finitely many are expected; and `DriversNotNegative`: a driver is a count
or an increase). `ReportInv` ties a report to inputs that `Validate` accepted;
`FromInputs` says what every pool's allocation is in terms of them.
`ConservedCost` is the longest argument. The costs are fractions with different
denominators, added by the recursion of `SumFracs`; over a common denominator
`d` each fraction denotes an integer (`Denotes`), a sum of fractions denotes the
sum of their integers, and the platform's money is a table of pools by tenants,
which is added up by rows in the pools and by columns in the total (`SumSwap`).

The page is read against the inputs, not against the report it is made of:
`Measured`, `HasPrice`, `Counts` and `Fate` say of a pool what its measurement and
its prices amount to, `PoolsTold` that the allocation agrees, `SectionTells`,
`CapacityTells`, `LineTells` and `StatementTells` what each part of the page must
say for it. `InputsInv` carries the inputs unchanged to the report. That the
quoted share is the largest (`TopShare`) needs the order of the costs to be total
although the fractions have different denominators (`TotalListed`), and drivers
that are not negative: with a negative one a pool that counts could add up to
nothing and be called unmeasured.

### The rule-output section (`RuleOutputReport_proofs`)

| Theorem | Says |
|---|---|
| `TypeCorrect` | rules, caps, phase and position keep their types |
| `CapsRespected` | no query passes a cap, save one of a single long name, and none is closed while the next name still fits |
| `AskedOnce` | every metric that a tenant's rules record is in exactly one of that tenant's queries, and nothing else is |
| `TotalsAreLowerBounds` | a tenant's total never exceeds what its rules write, and is called a lower bound exactly when a metric was not measured |
| `RowsAreTrue` | a printed row gives its metric's whole count in its own tenant or says why not; no share divides by zero or by another tenant's series |
| `DefinitionsReported` | every definition of an accepted load has its row in its own tenant's section and nothing else is loaded; a load with an error is not reported on |

For any files, discovery chains, policies, tenants, ruler answers, caps, counts
and denominators, any query failing (`SourcesAssumption`: a rule of a file
records or alerts, and a recording rule names a metric, as Prometheus enforces;
`ReportAssumption`, `ChunkAssumption`). Two invariants carry it. `LoadOK` follows
the load: every file or tenant before the current one is either remembered as
failed or has all its definitions among the rules, for whom discovery says they
are, and without a failure there are as many rules as the kept files, or the
tenants asked for, have.
`Correct` follows the count and the join: each name asked for has its series or
nil (`CountsOK`), the report is the join of exactly these (`ReportOK`).

Sorting is stated by what it gives (`Ordering`): the k-th of a sorted list is the
entry with k - 1 others before it. That such a list exists and names every entry
once has to be proved for each order the code sorts by (`OrderLists`): that
`lessRule`, completed by the stable sort's positions, and the order of the tenants
are strict total orders (`RankOrders`, `SortPermutes`, `JoinLists`). `chunk` is a
fold, of which `LoopRuns` makes the sequence of the states its loop goes through,
and `LoopState` is that loop's invariant: what was put out is a cut, in order and
with nothing left over, of the names so far.

### A workload report (`ReportRun_proofs`)

| Theorem | Says |
|---|---|
| `NoRuleGuessed` | an execution read from the log is one of the only loaded definition of its tenant with its expression, and no record that identifies one is passed over |
| `EveryExecutionCounted` | every execution of the window is counted in one tenant and in one of its rules or as unmatched, for every figure, and each rule stands in the one group that defines it |
| `NoTenantVanishes` | exactly the tenants that own a rule, ran one or are mentioned by any query have a row, with what was said of them and nothing else |
| `MeasuredIsFlagged` | a figure is flagged as measured exactly when some record measured it, and the rank metric is one that was measured above zero |
| `PagesTellTheSame` | both pages show one value and one share, say "not measured" in the same places and only where that is so, share out all of it, and account for every record |

For any rules, any lines and any length of the log, any answers to the three
queries (`ReportAssumption`: nil is no definition and no execution;
`TypesAssumption`: names, times and figures are numbers or missing, and the samples
of an answer that decodes are finitely many). Three inductive invariants carry these:

- `LogInv` counts: there are as many executions as lines read that identify a
  definition, and each bears that definition's identity.
- `ReadInv`: every line read is one execution or one read error, executions are
  of numbers and figures that may be missing, and what is rendered is the
  aggregate of the executions in the window over the loaded rules.
- `MetricsInv`: the accumulators hold, for each tenant, exactly what the
  responses so far said of it, query by query, and what is rendered is
  their aggregate. It has to speak of each query separately: the duration of a
  tenant comes from the first answer alone, and whether it was observed from
  there being a usable sample in it, not from its value.

The rest says what the operators return, row by row. `AggregateIs` and
`ObservationsAre` say which rows a report has and what each of them is; that the
sorted list of the rows names each of them once is `RankedLists`, for which every
order the code sorts by is shown to be a strict total one (`RulesOrdered`,
`GroupsOrdered`, `TenantsOrdered`, `UnmatchedOrdered`). `TenantsAddUp` and
`TenantIsItsRules` split the window's executions by tenant and a tenant's by rule
and unmatched ones, `RulesInTheirGroups` its rules by group, each an instance of
`ClassesAddUp`: a finite set's sum is that of its classes. `MergeAdds` says that
one response adds to the accumulators what it says of each tenant. `PagesFit`
compares the two pages for any report whose rows satisfy `RowFits`, which both
kinds of report do.

### Sums and lists (`CollectionTheorems`)

The library's sums are recursive over sets, and the induction principles of the
library cannot be instantiated by the installed provers. `MinimalSubset`, proved
from the well-foundedness of proper inclusion, takes their place: if a statement
about sums failed for some set, there would be a smallest such set, and the
recursion's one step leads to a contradiction. Additivity, scaling,
positivity, restriction, reindexing and the exchange of two sums are proved this
way, once. `OrderLists` says of `Ordering` that a finite, totally ordered set has
a list that names every element once and in order, `AtLists` that reading a
sequence at some of its positions does so too.

### What only the runs show

- Liveness, fairness and with it the fairness part of the refinement, and
  anything with `ENABLED`: `tlapm` does not reason about them. These are
  `StopsWhenTold`, `TicksEnd`, `ShutdownCompletes` and `Terminates`.
- `GroupsReconcile`, `UnmatchedSamplesMeasured`, `FileIsResumable`,
  `CleanStopIsRecorded` and, for a restart that selects some tenants only,
  `EarlierLivesKept`: they do not hold, which is what their runs are for
  (section 6).

Every invariant that a passing run checks is stated by a theorem above.

## 5. What is abstracted, what is left out

- Money, shares and rates are exact integers or fractions; rounding is modelled
  only where the code rounds (`MetricsAttribution!Round`).
- Names are numbers in their sort order; an expression stands for its canonical
  form; a log line is one of the kinds the reader tells apart.
- Assumption, note and warning texts are left out; whether one is given is kept
  where a property needs it.
- External behaviour - Mimir's query, ruler and remote-write APIs, the file
  system, signals - is a nondeterministic choice over what the code must expect.
- Equal sort keys: Go's unstable sort of two unmatched executions with one
  identity and time is modelled as one order; no property depends on it.
- A rule file is a namespace, its rules and whether it parses; that
  `rulefmt.ParseFile` rejects a file with an expression that does not parse is
  taken from Prometheus and marked external.
- `ReportRun` takes any of several lists a load may give, `RuleOutputReport` runs
  the load itself: the two commands share `newDefinitionsSource` and the refusal
  of load errors, so the loading is interleaved with one of them only.
- Not modelled: configuration parsing and the reading of the profile (one
  pass over a YAML file without state; what the profile's validation establishes
  is an assumption of `LoadProfile` and `TruthStore`), the cluster
  selector and all PromQL text, the JSON reports (they encode the result as it
  is), `writeRuleFiles` (it prints the groups of `generateRules`), the query loop of `load.go` (it shares only the context
  with the rest and adds to counters of its own), the Python harness and scripts
  (offline).

## 6. Where the code and its comments part

With a run that shows it:

- `truth_resumable`: overlapping saves share one temporary file; a crash after
  the wrong interleaving leaves a file that cannot be resumed.
- `truth_clean_stop`: the ticker's older snapshot can be renamed over the final
  one, so a clean stop looks like a crash.
- `truth_subset`: a restart with `--tenants` forgets the tenants not selected.
- `report_groups`: groups do not add up to their tenant when executions match no
  rule, which `ndjson` input allows.
- `report_samples`: the line on a tenant's unmatched executions says "0 samples"
  when none of them measured any, on both pages (`workload_md.go:144`,
  `workload_html.go:222`), where the table of the same executions says "unknown".

Noticed, without a run:

- `Counts.Queries` (`count.go:125`) counts jobs, also those a signal kept from
  being queried.
- `ReadRulerCPU` (`counters.go:345`) stamps its own window on a driver that
  pool 6's read may have queried a moment earlier.
- A batch counted as failed may have been stored (`load.go:113`).
- Nothing validates `--batch` (`main.go:103`): with 0 the loop over the
  batches of a tick (`load.go:102`) would not end. The model takes at least 1.
- On the log path a group's `RankSharePct` is a share of the tenant's total
  (`attribution.go:476`), while its comment (`attribution.go:248`) speaks of the
  reported groups only; that holds on the metrics path.
- `SharedWith` compares rule references (`ruleoutput.go:210`), so two rules of one
  group with one name that record the same metric do not list each other.
- The HTML summary says "No matched rule executions in this window." for a
  metrics report without tenants (`workload_html.go:379`), although the page is
  meant not to report a limitation of its source as a finding (line 266).
- The headline of the total quotes the top tenant's share without the "≥" its row
  gets when it was not measured in a priced pool (`report/cost.go:384`).
- `rulerapi.go:105` says one bad tenant should not take down the fetch; the
  loader keeps to that, and both commands then refuse any load error.
- `--tenant a,a` loads the rules of `a` twice (`report.go:519`), and each of them
  is then ambiguous to the ruler log's reader (`exprindex.go:73`), which
  attributes nothing of `a`.  `NeverGuessed` counts loaded definitions, not
  distinct ones, for this reason.
- `dev/staging/validate/model.py:98` adds up all segments of a tenant without
  churn, so a generator restarted within the idle timeout counts as twice the
  series; line 29 allows a decaying gauge 60 s where line 27 says it lags 75 s.
- With `--since`, the HTML coverage line (`workload_html.go:274`) mixes records
  skipped in the whole file with executions of the window.

## 7. Plan

Done: sections 2 to 4. Next, in this order:

1. An abstract `TruthRecord` that `TruthStore` implements where it does, and the
   refinement as a theorem.
2. The query loop of the load generator, into `TenantRun`; the harness's
   active-series model.
