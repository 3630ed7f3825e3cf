----------------------------- MODULE ReportRun_proofs ---------------------------
(***************************************************************************)
(* Theorems about a workload report, for any rule definitions, telemetry,  *)
(* length of the input and answers to the queries: no execution is         *)
(* attributed by guessing, everything is counted once, no tenant vanishes, *)
(* nothing unmeasured counts as measured, and both pages say the same.     *)
(*                                                                         *)
(* Three inductive invariants carry this.  LogInv and ReadInv say what the *)
(* executions read so far are in terms of the lines read so far, and that  *)
(* what is rendered is their aggregate; MetricsInv says what the           *)
(* accumulators are in terms of the responses so far.  The rest is about   *)
(* what the model's operators return, row by row: AggregateIs for          *)
(* telemetry, ObservationsAre for the queries, PagesFit for the pages.     *)
(***************************************************************************)
EXTENDS ReportRun, CollectionTheorems

--------------------------------------------------------------------------------
(* Reading a ruler log: no rule is guessed. The log does not name the rule *)
(* that ran.                                                               *)

(* An execution is of the one definition that has its tenant and           *)
(* expression.                                                             *)
OneRule(defs, e) ==
    /\ Cardinality(Sharing(defs, e.tenant, e.expr)) = 1
    /\ \A d \in Sharing(defs, e.tenant, e.expr) : RuleID(defs[d]) = RuleID(e)

(* A line identifies exactly one definition.                               *)
Names(defs, l) ==
    l.kind = "record" /\ None \notin {l.tenant, l.expr, l.ts} /\ Cardinality(Sharing(defs, l.tenant, l.expr)) = 1

(* The lines read that do.                                                 *)
Named(defs, ls) == {i \in DOMAIN ls : Names(defs, ls[i])}

(* The executions are those of the lines that identify a definition.       *)
LogOK(defs, ls, es) ==
    /\ \A k \in DOMAIN es : OneRule(defs, es[k])
    /\ IsFiniteSet(Named(defs, ls)) /\ Len(es) = Cardinality(Named(defs, ls))

(* A sequence, whatever its entries are.                                   *)
IsASeq(s) == Len(s) \in Nat /\ DOMAIN s = 1..Len(s) /\ s = [i \in 1..Len(s) |-> s[i]]

(* t is s and one more entry x.                                            *)
Grown(s, t, x) ==
    /\ Len(t) = Len(s) + 1 /\ DOMAIN t = 1..Len(t)
    /\ t[Len(t)] = x /\ \A i \in DOMAIN s : t[i] = s[i]

(* The inductive invariant.                                                *)
LogInv ==
    /\ IsASeq(lines) /\ IsASeq(executions)
    /\ main = "loading" => lines = <<>> /\ executions = <<>>
    /\ main = "reading" => definitions \in DefinitionLists
    /\ source = "mimirlogs" => LogOK(definitions, lines, executions)

(* Appending leaves the earlier entries in place. The sequences of this    *)
(* module have no set of entries to name, so they are described by their   *)
(* positions.                                                              *)
LEMMA AppendGrows ==
  ASSUME NEW s, IsASeq(s), NEW x
  PROVE  IsASeq(Append(s, x)) /\ Grown(s, Append(s, x), x)
<1>1. PICK S : S = {s[i] : i \in 1..Len(s)} \cup {x}
  OBVIOUS
<1>2. s \in Seq(S) /\ x \in S
  <2>1. \A i \in 1..Len(s) : s[i] \in S
    BY <1>1
  <2>2. Len(s) \in Nat /\ s = [i \in 1..Len(s) |-> s[i]]
    BY DEF IsASeq
  <2>3. s \in Seq(S)
    BY <2>1, <2>2
  <2>4. QED
    BY <1>1, <2>3
<1>3. PICK t : t = Append(s, x)
  OBVIOUS
<1>4. t \in Seq(S) /\ Len(t) = Len(s) + 1
  BY <1>2, <1>3
<1>5. DOMAIN t = 1..Len(t) /\ Len(t) \in Nat /\ DOMAIN s = 1..Len(s)
  BY <1>4 DEF IsASeq
<1>6. t[Len(t)] = x /\ \A i \in DOMAIN s : t[i] = s[i]
  BY <1>2, <1>3, <1>4, <1>5
<1>7. t = [i \in 1..Len(t) |-> t[i]]
  BY <1>4
<1>8. QED
  BY <1>3, <1>4, <1>5, <1>6, <1>7 DEF IsASeq, Grown

(* Lookup returns the definition that alone has the tenant and the         *)
(* expression (exprindex.go:91), or nil.                                   *)
LEMMA LookupFinds ==
  ASSUME NEW defs, IsFiniteSet(DOMAIN defs), NEW t, NEW x
  PROVE  /\ Cardinality(Sharing(defs, t, x)) # 1 => Lookup(defs, t, x) = None
         /\ Cardinality(Sharing(defs, t, x)) = 1 =>
              \E k \in DOMAIN defs : Sharing(defs, t, x) = {k} /\ Lookup(defs, t, x) = defs[k]
<1>1. PICK S : S = Sharing(defs, t, x)
  OBVIOUS
<1>2. S \subseteq DOMAIN defs /\ IsFiniteSet(S)
  <2>1. S \subseteq DOMAIN defs
    BY <1>1 DEF Sharing
  <2>2. QED
    BY <2>1, FS_Subset
<1>3. Lookup(defs, t, x) = IF Cardinality(S) = 1 THEN defs[CHOOSE k \in S : TRUE] ELSE None
  BY <1>1 DEF Lookup
<1>4. ASSUME Cardinality(S) = 1 PROVE \E k \in DOMAIN defs : S = {k} /\ Lookup(defs, t, x) = defs[k]
  <2>1. PICK k : S = {k}
    BY <1>2, <1>4, FS_Singleton
  <2>2. (CHOOSE j \in S : TRUE) = k
    BY <2>1
  <2>3. QED
    BY <1>2, <1>3, <1>4, <2>1, <2>2
<1>5. QED
  BY <1>1, <1>3, <1>4

(* A line yields an execution exactly if it identifies one definition, and *)
(* then one of that definition.                                            *)
LEMMA ReadFinds ==
  ASSUME NEW l \in LogLines, NEW defs \in DefinitionLists, NEW e, e = ReadLogLine(l, defs)
  PROVE  /\ ~Names(defs, l) => e = None
         /\ Names(defs, l) => e # None /\ OneRule(defs, e)
<1>1. /\ IsFiniteSet(DOMAIN defs) /\ l.kind \in {"malformed", "record"}
      /\ \A k \in DOMAIN defs : defs[k] # None /\ (l.kind = "record" => ExecutionOf(l, defs[k]) # None)
  BY ReportAssumption
<1> DEFINE unread == l.kind = "malformed" \/ None \in {l.tenant, l.expr, l.ts}
<1>2. ASSUME unread PROVE ~Names(defs, l) /\ e = None
  BY <1>2 DEF Names, ReadLogLine
<1>3. ASSUME ~unread
      PROVE  e = IF Lookup(defs, l.tenant, l.expr) = None THEN None
                 ELSE ExecutionOf(l, Lookup(defs, l.tenant, l.expr))
  BY <1>3 DEF ReadLogLine
<1>4. ASSUME ~unread, Cardinality(Sharing(defs, l.tenant, l.expr)) # 1
      PROVE  ~Names(defs, l) /\ e = None
  <2>1. Lookup(defs, l.tenant, l.expr) = None
    BY <1>1, <1>4, LookupFinds
  <2>2. QED
    BY <1>3, <1>4, <2>1 DEF Names
<1>5. ASSUME ~unread, Cardinality(Sharing(defs, l.tenant, l.expr)) = 1
      PROVE  Names(defs, l) /\ e # None /\ OneRule(defs, e)
  <2>1. PICK k \in DOMAIN defs : Sharing(defs, l.tenant, l.expr) = {k} /\ Lookup(defs, l.tenant, l.expr) = defs[k]
    BY <1>1, <1>5, LookupFinds
  <2>2. e = ExecutionOf(l, defs[k]) /\ e # None /\ l.kind = "record"
    BY <1>1, <1>3, <1>5, <2>1
  <2>3. /\ e.tenant = l.tenant /\ e.expr = l.expr
        /\ e.file = defs[k].file /\ e.group = defs[k].group /\ e.name = defs[k].name
    BY <2>2 DEF ExecutionOf
  <2>4. defs[k].tenant = l.tenant
    BY <2>1 DEF Sharing
  <2>5. RuleID(defs[k]) = RuleID(e)
    BY <2>3, <2>4 DEF RuleID
  <2>6. QED
    BY <1>5, <2>1, <2>2, <2>3, <2>5 DEF Names, OneRule
<1>6. QED
  BY <1>2, <1>4, <1>5

(* Reading one more line keeps executions and lines in step.               *)
LEMMA LineAdds ==
  ASSUME NEW l \in LogLines, NEW defs \in DefinitionLists, NEW e, e = ReadLogLine(l, defs),
         NEW ls, NEW es, IsASeq(ls), IsASeq(es), LogOK(defs, ls, es),
         NEW ms, ms = Append(ls, l), NEW fs, fs = IF e = None THEN es ELSE Append(es, e)
  PROVE  LogOK(defs, ms, fs)
<1>1. (~Names(defs, l) => e = None) /\ (Names(defs, l) => e # None /\ OneRule(defs, e))
  BY ReadFinds
<1>2. IsASeq(ms) /\ Grown(ls, ms, l)
  BY AppendGrows
<1>3. Named(defs, ms) = IF Names(defs, l) THEN Named(defs, ls) \cup {Len(ms)} ELSE Named(defs, ls)
  <2>1. /\ DOMAIN ms = DOMAIN ls \cup {Len(ms)} /\ Len(ms) \notin DOMAIN ls
        /\ ms[Len(ms)] = l /\ \A i \in DOMAIN ls : ms[i] = ls[i]
    BY <1>2 DEF Grown, IsASeq
  <2>2. QED
    BY <2>1 DEF Named
<1>4. Len(ms) \notin Named(defs, ls) /\ IsFiniteSet(Named(defs, ls)) /\ Len(es) = Cardinality(Named(defs, ls))
  BY <1>2 DEF LogOK, Named, Grown, IsASeq
<1>5. CASE ~Names(defs, l)
  BY <1>1, <1>3, <1>5 DEF LogOK
<1>6. CASE Names(defs, l)
  <2>1. fs = Append(es, e) /\ Named(defs, ms) = Named(defs, ls) \cup {Len(ms)}
    BY <1>1, <1>3, <1>6
  <2>2. Grown(es, fs, e)
    BY <2>1, AppendGrows
  <2>3. \A k \in DOMAIN fs : OneRule(defs, fs[k])
    <3>1. SUFFICES ASSUME NEW k \in DOMAIN fs PROVE OneRule(defs, fs[k])
      OBVIOUS
    <3>2. CASE k \in DOMAIN es
      <4>1. fs[k] = es[k] /\ OneRule(defs, es[k])
        BY <2>2, <3>2 DEF Grown, LogOK
      <4>2. QED
        BY <4>1
    <3>3. CASE k \notin DOMAIN es
      <4>1. k = Len(fs)
        BY <2>2, <3>3 DEF Grown, IsASeq
      <4>2. fs[k] = e
        BY <2>2, <4>1 DEF Grown
      <4>3. QED
        BY <1>1, <1>6, <4>2
    <3>4. QED
      BY <3>2, <3>3
  <2>4. PICK N : N = Named(defs, ls)
    OBVIOUS
  <2>5. IsFiniteSet(N \cup {Len(ms)}) /\ Cardinality(N \cup {Len(ms)}) = Cardinality(N) + 1
    BY <1>4, <2>4, FS_AddElement
  <2>6. Len(fs) = Cardinality(N) + 1
    BY <1>4, <2>2, <2>4 DEF Grown
  <2>7. QED
    BY <2>1, <2>3, <2>4, <2>5, <2>6 DEF LogOK
<1>7. QED
  BY <1>5, <1>6

(* LogOK holds before the first line.                                      *)
LEMMA NothingRead ==
  ASSUME NEW defs
  PROVE  IsASeq(<<>>) /\ LogOK(defs, <<>>, <<>>)
<1>1. Named(defs, <<>>) = {} /\ DOMAIN <<>> = {} /\ Len(<<>>) = 0
  BY DEF Named
<1>2. IsASeq(<<>>)
  BY DEF IsASeq
<1>3. QED
  BY <1>1, <1>2, FS_EmptySet DEF LogOK

(* ReadLine preserves LogInv.                                              *)
LEMMA LineRead ==
  ASSUME LogInv, NEW l \in (IF source = "mimirlogs" THEN LogLines ELSE JSONLines), ReadLine(l)
  PROVE  LogInv'
<1>1. /\ main = "reading" /\ lines' = Append(lines, l)
      /\ main' = main /\ source' = source /\ definitions' = definitions
  BY DEF ReadLine
<1>2. IsASeq(lines) /\ IsASeq(executions) /\ definitions \in DefinitionLists
  BY <1>1 DEF LogInv
<1>3. executions' = executions \/ \E e : executions' = Append(executions, e)
  BY DEF ReadLine
<1>4. IsASeq(executions') /\ IsASeq(lines')
  BY <1>1, <1>2, <1>3, AppendGrows
<1>5. ASSUME source = "mimirlogs" PROVE LogOK(definitions, lines', executions')
  <2>1. PICK e, defs : e = ReadLogLine(l, definitions) /\ defs = definitions
    OBVIOUS
  <2>2. executions' = IF e = None THEN executions ELSE Append(executions, e)
    BY <1>5, <2>1 DEF ReadLine
  <2>3. LogOK(defs, lines, executions) /\ l \in LogLines
    BY <1>5, <2>1 DEF LogInv
  <2>4. PICK ls, es, ms, fs : ls = lines /\ es = executions /\ ms = lines' /\ fs = executions'
    OBVIOUS
  <2>5. LogOK(defs, ms, fs)
    BY <1>1, <1>2, <2>1, <2>2, <2>3, <2>4, LineAdds
  <2>6. QED
    BY <2>1, <2>4, <2>5
<1>6. QED
  BY <1>1, <1>2, <1>4, <1>5 DEF LogInv

(* So does every step that reads no line.                                  *)
LEMMA ReadingElsewhere ==
  ASSUME LogInv, lines' = lines, executions' = executions, definitions' = definitions, source' = source,
         main' # "loading" \/ main' = main, main' # "reading" \/ main' = main
  PROVE  LogInv'
BY DEF LogInv

(* LogInv holds throughout a report.                                       *)
THEOREM LogInductive == Spec => []LogInv
<1>1. Init => LogInv
  <2>1. SUFFICES ASSUME Init PROVE LogInv
    OBVIOUS
  <2>2. lines = <<>> /\ executions = <<>> /\ main # "reading"
    BY <2>1 DEF Init
  <2>3. QED
    BY <2>2, NothingRead DEF LogInv
<1>2. LogInv /\ [Next]_vars => LogInv'
  <2>1. SUFFICES ASSUME LogInv, [Next]_vars PROVE LogInv'
    OBVIOUS
  <2>2. CASE Fail
    BY <2>1, <2>2, ReadingElsewhere DEF Fail
  <2>3. CASE LoadDefinitions
    <3>1. /\ lines' = <<>> /\ executions' = <<>> /\ definitions' \in DefinitionLists
          /\ main' = "reading"
      BY <2>1, <2>3 DEF LoadDefinitions, LogInv
    <3>2. QED
      BY <3>1, NothingRead DEF LogInv
  <2>4. ASSUME NEW l \in (IF source = "mimirlogs" THEN LogLines ELSE JSONLines), ReadLine(l) PROVE LogInv'
    BY <2>1, <2>4, LineRead
  <2>5. CASE StrictFails
    BY <2>1, <2>5, ReadingElsewhere DEF StrictFails
  <2>6. CASE RenderLog
    BY <2>1, <2>6, ReadingElsewhere DEF RenderLog
  <2>7. CASE Query
    BY <2>1, <2>7, ReadingElsewhere DEF Query
  <2>8. CASE QueryFails
    BY <2>1, <2>8, ReadingElsewhere DEF QueryFails
  <2>9. CASE RenderMetrics
    BY <2>1, <2>9, ReadingElsewhere DEF RenderMetrics
  <2>10. CASE UNCHANGED vars
    BY <2>1, <2>10, ReadingElsewhere DEF vars
  <2>11. QED
    BY <2>1, <2>2, <2>3, <2>4, <2>5, <2>6, <2>7, <2>8, <2>9, <2>10 DEF Next
<1>3. QED
  BY <1>1, <1>2, PTL DEF Spec

(* An execution read from the log is one of the only loaded definition of  *)
(* its tenant with its expression, and no record that identifies one is    *)
(* passed over (exprindex.go:52).                                          *)
THEOREM NoRuleGuessed == Spec => []NeverGuessed
<1>1. LogInv => NeverGuessed
  <2>1. SUFFICES ASSUME LogInv, source = "mimirlogs" PROVE NeverGuessed
    BY DEF NeverGuessed
  <2>2. LogOK(definitions, lines, executions)
    BY <2>1 DEF LogInv
  <2>3. \A e \in Range(executions) : OneRule(definitions, e)
    BY <2>2 DEF LogOK, Range
  <2>4. Len(executions) = Cardinality(Named(definitions, lines))
    BY <2>2 DEF LogOK
  <2>5. ASSUME NEW e \in Range(executions)
        PROVE  LET of(t, x) == {k \in DOMAIN definitions : definitions[k].tenant = t /\ definitions[k].expr = x}
               IN  /\ Cardinality(of(e.tenant, e.expr)) = 1
                   /\ \A k \in of(e.tenant, e.expr) : RuleID(definitions[k]) = RuleID(e)
    <3>1. OneRule(definitions, e)
      BY <2>3, <2>5
    <3>2. QED
      BY <3>1 DEF OneRule, Sharing
  <2>6. LET of(t, x) == {k \in DOMAIN definitions : definitions[k].tenant = t /\ definitions[k].expr = x}
        IN  Len(executions) = Cardinality({i \in DOMAIN lines :
                LET l == lines[i]
                IN  /\ l.kind = "record" /\ None \notin {l.tenant, l.expr, l.ts}
                    /\ Cardinality(of(l.tenant, l.expr)) = 1})
    BY <2>4 DEF Named, Names, Sharing
  <2>7. QED
    BY <2>5, <2>6 DEF NeverGuessed
<1>2. QED
  BY <1>1, LogInductive, PTL

--------------------------------------------------------------------------------
(* What the operators on executions return: figures, then orders, then the *)
(* rows of rules, groups and tenants, then Aggregate.                      *)

(* The fields of a rule's identity are numbers in their sort order.        *)
IsRule(x) == x.tenant \in Int /\ x.file \in Int /\ x.group \in Int /\ x.name \in Int

(* What the model takes an execution to be; a figure may be missing.       *)
IsExecution(e) == IsRule(e) /\ e.ts \in Int /\ \A s \in Stats : e.stats[s] \in Int \cup {None}

(* Executions, by their positions.                                         *)
AreExecutions(es) ==
    IsFiniteSet(DOMAIN es) /\ DOMAIN es \subseteq Int /\ \A k \in DOMAIN es : IsExecution(es[k])

(* Loaded definitions, by their positions.                                 *)
AreDefinitions(defs) == IsFiniteSet(DOMAIN defs) /\ \A k \in DOMAIN defs : IsRule(defs[k])

(* What a report may rank by.                                              *)
Metrics == Stats \cup {"executions"}

(* What each execution adds to a figure.                                   *)
Weighs(m, es) == [k \in DOMAIN es |-> IF m = "executions" THEN 1 ELSE ValueOr(es[k].stats[m], 0)]

(* The figure m of the executions K.                                       *)
Total(m, es, K) == SumFunctionOnSet(Weighs(m, es), K)

(* The five figures.                                                       *)
LEMMA StatsAre == Stats = {"bytes", "chunks", "series", "duration", "samples"} /\ DOMAIN RankChain = 1..5
                  /\ \A k \in 1..5 : RankChain[k] \in Stats
<1>1. /\ DOMAIN RankChain = 1..5
      /\ RankChain[1] = "bytes" /\ RankChain[2] = "chunks" /\ RankChain[3] = "series"
      /\ RankChain[4] = "duration" /\ RankChain[5] = "samples"
  BY DEF RankChain
<1>2. 1..5 = {1, 2, 3, 4, 5}
  OBVIOUS
<1>3. Stats = {RankChain[k] : k \in {1, 2, 3, 4, 5}}
  BY <1>1, <1>2 DEF Stats, Range
<1>4. QED
  BY <1>1, <1>2, <1>3

(* A figure of some of the executions is the sum of what each of them      *)
(* adds.                                                                   *)
LEMMA FigureIsSum ==
  ASSUME None \notin Int, NEW es, AreExecutions(es), NEW K \in SUBSET DOMAIN es,
         NEW f, DOMAIN f = K, \A k \in K : f[k] = es[k]
  PROVE  /\ IsFiniteSet(K)
         /\ Count(f) = Cardinality(K) /\ Count(f) \in Nat
         /\ \A m \in Metrics : /\ \A k \in DOMAIN es : Weighs(m, es)[k] \in Int
                               /\ MetricValue(m, f) = Total(m, es, K) /\ MetricValue(m, f) \in Int
<1>1. IsFiniteSet(K)
  BY FS_Subset DEF AreExecutions
<1>2. DOMAIN f = K /\ \A k \in K : f[k] = es[k]
  OBVIOUS
<1>3. Count(f) = Cardinality(K) /\ Count(f) \in Nat
  BY <1>1, <1>2, FS_CardinalityType DEF Count
<1>4. ASSUME NEW m \in Metrics PROVE \A k \in DOMAIN es : Weighs(m, es)[k] \in Int
  BY <1>4 DEF AreExecutions, IsExecution, Weighs, ValueOr, Metrics
<1>5. ASSUME NEW m \in Metrics PROVE MetricValue(m, f) = Total(m, es, K)
  <2>1. CASE m = "executions"
    <3>1. \A k \in K : Weighs(m, es)[k] = 1
      BY <2>1 DEF Weighs
    <3>2. Total(m, es, K) = Cardinality(K)
      <4>1. PICK w : w = Weighs(m, es)
        OBVIOUS
      <4>2. SumFunctionOnSet(w, K) = Cardinality(K)
        BY <1>1, <3>1, <4>1, SumOfOnes
      <4>3. QED
        BY <4>1, <4>2 DEF Total
    <3>3. QED
      BY <1>3, <2>1, <3>2 DEF MetricValue
  <2>2. CASE m # "executions"
    <3> DEFINE g == [k \in K |-> ValueOr(f[k].stats[m], 0)]
    <3>1. MetricValue(m, f) = SumFunctionOnSet(g, K)
      BY <1>2, <2>2 DEF MetricValue, Sum, SumFunction
    <3>2. \A k \in K : g[k] = Weighs(m, es)[k]
      BY <1>2, <2>2 DEF Weighs
    <3>3. PICK w : w = Weighs(m, es)
      OBVIOUS
    <3> HIDE DEF g
    <3>4. SumFunctionOnSet(g, K) = SumFunctionOnSet(w, K)
      BY <1>1, <3>2, <3>3, SumAgree
    <3>5. QED
      BY <3>1, <3>3, <3>4 DEF Total
  <2>3. QED
    BY <2>1, <2>2
<1>6. ASSUME NEW m \in Metrics PROVE Total(m, es, K) \in Int
  <2>1. PICK w : w = Weighs(m, es)
    OBVIOUS
  <2>2. \A k \in K : w[k] \in Int
    BY <1>4, <2>1
  <2>3. SumFunctionOnSet(w, K) \in Int
    BY <1>1, <2>2, SumType
  <2>4. QED
    BY <2>1, <2>3 DEF Total
<1>7. QED
  BY <1>1, <1>2, <1>3, <1>4, <1>5, <1>6

(* A stat is a metric, and its total is its sum.                           *)
LEMMA StatIsMetric ==
  ASSUME NEW s \in Stats
  PROVE  s \in Metrics /\ s # "executions" /\ \A f : Sum(s, f) = MetricValue(s, f)
BY StatsAre DEF Metrics, MetricValue

(* The report ranks by a metric, and by one of the five figures only if    *)
(* its total is above zero (pickRankMetric).                               *)
LEMMA RankedByMetric ==
  ASSUME NEW es, NEW m, m = PickRankMetric(es)
  PROVE  m \in Metrics /\ (m # "executions" => Sum(m, es) > 0)
<1>1. IsFiniteSet(1..5)
  <2>1. 1 \in Int /\ 5 \in Int
    OBVIOUS
  <2>2. \A a, b \in Int : IsFiniteSet(a..b)
    BY FS_Interval
  <2>3. QED
    BY <2>1, <2>2
<1> DEFINE N == {k \in DOMAIN RankChain : Sum(RankChain[k], es) > 0}
<1>2. m = IF N = {} THEN "executions" ELSE RankChain[Min(N)]
  BY DEF PickRankMetric
<1>3. CASE N = {}
  BY <1>2, <1>3 DEF Metrics
<1>4. CASE N # {}
  <2>1. N \subseteq 1..5 /\ \A k \in N : RankChain[k] \in Stats /\ Sum(RankChain[k], es) > 0
    BY StatsAre
  <2>2. IsFiniteSet(N) /\ N \subseteq Int
    <3> HIDE DEF N
    <3>1. IsFiniteSet(N)
      BY <1>1, <2>1, FS_Subset
    <3>2. QED
      BY <2>1, <3>1
  <2> HIDE DEF N
  <2>3. Min(N) \in N
    BY <1>4, <2>2, Smallest
  <2>4. QED
    BY <1>2, <1>4, <2>1, <2>3 DEF Metrics
<1>5. QED
  BY <1>3, <1>4

--------------------------------------------------------------------------------
(* Sorting.                                                                *)

(* s lists the rows, one for each key.                                     *)
ListsRows(s, rows, keys) ==
    /\ Lists(keys, DOMAIN rows) /\ DOMAIN s = DOMAIN keys /\ Len(s) = Cardinality(DOMAIN rows)
    /\ \A k \in DOMAIN keys : s[k] = rows[keys[k]]

(* The length of a list written down by its positions.                     *)
LEMMA LengthIs ==
  ASSUME NEW n \in Nat, NEW f, NEW s, s = [k \in 1..n |-> f[k]]
  PROVE  Len(s) = n
<1>1. PICK X : X = {f[k] : k \in 1..n}
  OBVIOUS
<1>2. s \in [1..n -> X]
  BY <1>1
<1>3. QED
  BY <1>2

(* Sorting a tier keeps its rows.                                          *)
LEMMA RankedLists ==
  ASSUME NEW rows, IsFiniteSet(DOMAIN rows), \A x \in DOMAIN rows : rows[x].rankValue \in Int,
         NEW order, IsOrder(DOMAIN rows, order), NEW s, s = Ranked(rows, order)
  PROVE  \E keys : ListsRows(s, rows, keys)
<1> DEFINE K == DOMAIN rows
           v == [x \in K |-> rows[x].rankValue]
           o == {p \in K \X K : \/ rows[p[1]].rankValue > rows[p[2]].rankValue
                                \/ rows[p[1]].rankValue = rows[p[2]].rankValue /\ p \in order}
<1>1. PICK keys : keys = InOrder(K, o)
  OBVIOUS
<1>2. s = [k \in DOMAIN keys |-> rows[keys[k]]]
  BY <1>1 DEF Ranked
<1>3. \A x, y \in K : <<x, y>> \in o <=> v[x] > v[y] \/ (v[x] = v[y] /\ <<x, y>> \in order)
  OBVIOUS
<1>4. \A x \in K : v[x] \in Int
  OBVIOUS
<1>5. IsOrder(K, o)
  <2>1. PICK V, O, S : V = v /\ O = o /\ S = K
    OBVIOUS
  <2>2. /\ \A x, y \in S : <<x, y>> \in O <=> V[x] > V[y] \/ (V[x] = V[y] /\ <<x, y>> \in order)
        /\ \A x \in S : V[x] \in Int
    BY <1>3, <1>4, <2>1
  <2>3. IsOrder(S, order)
    BY <2>1
  <2>4. ASSUME NEW x \in S PROVE <<x, x>> \notin O
    <3>1. ~(V[x] > V[x]) /\ <<x, x>> \notin order
      BY <2>2, <2>3 DEF IsOrder
    <3>2. QED
      BY <2>2, <3>1
  <2>5. ASSUME NEW x \in S, NEW y \in S, x # y PROVE <<x, y>> \in O \/ <<y, x>> \in O
    <3>1. V[x] > V[y] \/ V[y] > V[x] \/ V[x] = V[y]
      BY <2>2
    <3>2. <<x, y>> \in order \/ <<y, x>> \in order
      BY <2>3, <2>5 DEF IsOrder
    <3>3. QED
      BY <2>2, <3>1, <3>2
  <2>6. \A x, y, z \in S : <<x, y>> \in O /\ <<y, z>> \in O => <<x, z>> \in O
    BY <2>2, <2>3 DEF IsOrder
  <2>7. IsOrder(S, O)
    BY <2>4, <2>5, <2>6 DEF IsOrder
  <2>8. QED
    BY <2>1, <2>7
<1> HIDE DEF o
<1>6. Lists(keys, K)
  BY <1>1, <1>5, OrderLists
<1>7. Len(s) = Cardinality(K)
  <2>1. DOMAIN keys = 1..Cardinality(K) /\ Cardinality(K) \in Nat
    BY <1>6, ListedAll
  <2>2. PICK n, f : n = Cardinality(K) /\ f = [k \in 1..n |-> rows[keys[k]]]
    OBVIOUS
  <2>3. s = [k \in 1..n |-> f[k]]
    BY <1>2, <2>1, <2>2
  <2>4. QED
    BY <2>1, <2>2, <2>3, LengthIs
<1>8. QED
  BY <1>2, <1>6, <1>7 DEF ListsRows

(* Tenant, file, group and name.                                           *)
Identities == Int \X Int \X Int \X Int

(* Identities are compared part by part.                                   *)
LEMMA BeforeIs ==
  ASSUME NEW x \in Identities, NEW y \in Identities
  PROVE  Before(x, y) <=> \/ x[1] < y[1]
                          \/ x[1] = y[1] /\ x[2] < y[2]
                          \/ x[1] = y[1] /\ x[2] = y[2] /\ x[3] < y[3]
                          \/ x[1] = y[1] /\ x[2] = y[2] /\ x[3] = y[3] /\ x[4] < y[4]
<1>1. 1..4 = {1, 2, 3, 4} /\ 1..0 = {} /\ 1..1 = {1} /\ 1..2 = {1, 2} /\ 1..3 = {1, 2, 3}
  OBVIOUS
<1> DEFINE first(k) == x[k] < y[k] /\ \A h \in 1..(k-1) : x[h] = y[h]
<1>2. Before(x, y) <=> first(1) \/ first(2) \/ first(3) \/ first(4)
  BY <1>1 DEF Before
<1>3. first(1) <=> x[1] < y[1]
  BY <1>1
<1>4. first(2) <=> x[1] = y[1] /\ x[2] < y[2]
  BY <1>1
<1>5. first(3) <=> x[1] = y[1] /\ x[2] = y[2] /\ x[3] < y[3]
  BY <1>1
<1>6. first(4) <=> x[1] = y[1] /\ x[2] = y[2] /\ x[3] = y[3] /\ x[4] < y[4]
  BY <1>1
<1> HIDE DEF first
<1>7. QED
  BY <1>2, <1>3, <1>4, <1>5, <1>6

(* That is a strict total order.                                           *)
LEMMA BeforeOrders ==
  /\ \A x \in Identities : ~Before(x, x)
  /\ \A x, y \in Identities : x # y => Before(x, y) \/ Before(y, x)
  /\ \A x, y, z \in Identities : Before(x, y) /\ Before(y, z) => Before(x, z)
<1>1. ASSUME NEW x \in Identities PROVE x[1] \in Int /\ x[2] \in Int /\ x[3] \in Int /\ x[4] \in Int
  BY DEF Identities
<1>2. ASSUME NEW x \in Identities PROVE ~Before(x, x)
  BY <1>1, BeforeIs
<1>3. ASSUME NEW x \in Identities, NEW y \in Identities, x # y PROVE Before(x, y) \/ Before(y, x)
  <2>1. x[1] # y[1] \/ x[2] # y[2] \/ x[3] # y[3] \/ x[4] # y[4]
    BY <1>3 DEF Identities
  <2>2. QED
    BY <1>1, <2>1, BeforeIs
<1>4. ASSUME NEW x \in Identities, NEW y \in Identities, NEW z \in Identities, Before(x, y), Before(y, z)
      PROVE  Before(x, z)
  BY <1>1, <1>4, BeforeIs
<1>5. QED
  BY <1>2, <1>3, <1>4

(* Rules are sorted by their identities,                                   *)
LEMMA RulesOrdered ==
  ASSUME NEW ids \in SUBSET Identities
  PROVE  IsOrder(ids, RuleOrder(ids))
<1>1. \A x, y \in ids : <<x, y>> \in RuleOrder(ids) <=> Before(x, y)
  BY DEF RuleOrder
<1>2. ids \subseteq Identities
  OBVIOUS
<1>3. QED
  BY <1>1, <1>2, BeforeOrders DEF IsOrder

(* groups by their names, then by their files,                             *)
LEMMA GroupsOrdered ==
  ASSUME NEW keys \in SUBSET (Int \X Int)
  PROVE  IsOrder(keys, GroupOrder(keys))
<1>1. \A x, y \in keys : <<x, y>> \in GroupOrder(keys) <=> x[2] < y[2] \/ (x[2] = y[2] /\ x[1] < y[1])
  BY DEF GroupOrder
<1>2. \A x \in keys : x[1] \in Int /\ x[2] \in Int
  OBVIOUS
<1>3. \A x, y \in keys : x # y => x[1] # y[1] \/ x[2] # y[2]
  OBVIOUS
<1>4. \A x \in keys : <<x, x>> \notin GroupOrder(keys)
  BY <1>1, <1>2
<1>5. \A x, y \in keys : x # y => <<x, y>> \in GroupOrder(keys) \/ <<y, x>> \in GroupOrder(keys)
  BY <1>1, <1>2, <1>3
<1>6. ASSUME NEW x \in keys, NEW y \in keys, NEW z \in keys,
             <<x, y>> \in GroupOrder(keys), <<y, z>> \in GroupOrder(keys)
      PROVE  <<x, z>> \in GroupOrder(keys)
  <2>1. (x[2] < y[2] \/ (x[2] = y[2] /\ x[1] < y[1])) /\ (y[2] < z[2] \/ (y[2] = z[2] /\ y[1] < z[1]))
    BY <1>1, <1>6
  <2>2. x[2] < z[2] \/ (x[2] = z[2] /\ x[1] < z[1])
    BY <1>2, <2>1
  <2>3. QED
    BY <1>1, <2>2
<1>7. QED
  BY <1>4, <1>5, <1>6 DEF IsOrder

(* tenants by their names.                                                 *)
LEMMA TenantsOrdered ==
  ASSUME NEW ts \in SUBSET Int
  PROVE  IsOrder(ts, TenantOrder(ts))
<1>1. \A x, y \in ts : <<x, y>> \in TenantOrder(ts) <=> x < y
  BY DEF TenantOrder
<1>2. \A x \in ts : x \in Int
  OBVIOUS
<1>3. QED
  BY <1>1, <1>2 DEF IsOrder

(* Unmatched executions are sorted by rule, then by time.                  *)
LEMMA UnmatchedOrdered ==
  ASSUME NEW es, DOMAIN es \subseteq Int, \A k \in DOMAIN es : RuleID(es[k]) \in Identities /\ es[k].ts \in Int
  PROVE  IsOrder(DOMAIN es, UnmatchedOrder(es))
<1>1. PICK o, D, id, ts : /\ o = UnmatchedOrder(es) /\ D = DOMAIN es
                          /\ id = [k \in D |-> RuleID(es[k])] /\ ts = [k \in D |-> es[k].ts]
  OBVIOUS
<1>2. \A x, y \in D : <<x, y>> \in o <=>
          \/ Before(id[x], id[y])
          \/ id[x] = id[y] /\ (ts[x] < ts[y] \/ (ts[x] = ts[y] /\ x < y))
  BY <1>1 DEF UnmatchedOrder
<1>3. \A x \in D : x \in Int /\ ts[x] \in Int /\ id[x] \in Identities
  BY <1>1
<1>4. ASSUME NEW x \in D PROVE <<x, x>> \notin o
  <2>1. ~Before(id[x], id[x]) /\ x \in Int /\ ts[x] \in Int
    BY <1>3, BeforeOrders
  <2>2. ~(ts[x] < ts[x]) /\ ~(x < x)
    BY <2>1
  <2>3. QED
    BY <1>2, <2>1, <2>2
<1>5. ASSUME NEW x \in D, NEW y \in D, x # y PROVE <<x, y>> \in o \/ <<y, x>> \in o
  <2>1. CASE id[x] # id[y]
    <3>1. Before(id[x], id[y]) \/ Before(id[y], id[x])
      BY <1>3, <2>1, BeforeOrders
    <3>2. QED
      BY <1>2, <3>1
  <2>2. CASE id[x] = id[y]
    <3>1. x < y \/ y < x
      BY <1>3, <1>5
    <3>2. ts[x] < ts[y] \/ ts[y] < ts[x] \/ ts[x] = ts[y]
      BY <1>3
    <3>3. id[y] = id[x] /\ (ts[x] = ts[y] => ts[y] = ts[x])
      BY <2>2
    <3>4. QED
      BY <1>2, <2>2, <3>1, <3>2, <3>3
  <2>3. QED
    BY <2>1, <2>2
<1>6. ASSUME NEW x \in D, NEW y \in D, NEW z \in D, <<x, y>> \in o, <<y, z>> \in o PROVE <<x, z>> \in o
  <2>1. \/ Before(id[x], id[y])
        \/ id[x] = id[y] /\ (ts[x] < ts[y] \/ (ts[x] = ts[y] /\ x < y))
    BY <1>2, <1>6
  <2>2. \/ Before(id[y], id[z])
        \/ id[y] = id[z] /\ (ts[y] < ts[z] \/ (ts[y] = ts[z] /\ y < z))
    BY <1>2, <1>6
  <2>3. Before(id[x], id[y]) /\ Before(id[y], id[z]) => Before(id[x], id[z])
    BY <1>3, BeforeOrders
  <2>4. CASE Before(id[x], id[y]) \/ Before(id[y], id[z])
    <3>1. Before(id[x], id[z])
      BY <2>1, <2>2, <2>3, <2>4
    <3>2. QED
      BY <1>2, <3>1
  <2>5. CASE ~Before(id[x], id[y]) /\ ~Before(id[y], id[z])
    <3>1. id[x] = id[z]
      BY <2>1, <2>2, <2>5
    <3>2. ts[x] < ts[z] \/ (ts[x] = ts[z] /\ x < z)
      BY <1>3, <2>1, <2>2, <2>5
    <3>3. QED
      BY <1>2, <3>1, <3>2
  <2>6. QED
    BY <2>4, <2>5
<1>7. IsOrder(D, o)
  BY <1>4, <1>5, <1>6 DEF IsOrder
<1>8. QED
  BY <1>1, <1>7

(* The executions of a tenant, of a rule, and those no loaded rule has     *)
(* made.                                                                   *)
OfTenant(es, t) == {k \in DOMAIN es : es[k].tenant = t}
OfRule(es, id)  == {k \in DOMAIN es : RuleID(es[k]) = id}
Strays(es, defs) == {k \in DOMAIN es : ~IsKnown(RuleID(es[k]), defs)}

(* The rules of a tenant that ran.                                         *)
RulesOf(es, defs, t) == {RuleID(es[k]) : k \in OfTenant(es, t) \ Strays(es, defs)}

(* q is the row of a rule, by its executions own.                          *)
IsRuleRow(q, id, own, m, total) ==
    /\ q.id = id /\ q.figures = Figures(own) /\ q.rankValue = MetricValue(m, own)
    /\ q.rankShare = Share(MetricValue(m, own), total)
    /\ q.rankObserved <=> (m = "executions" \/ ObservedIn(m, own))

(* g is the row of a group, some of the rules being its own.               *)
IsGroupRow(g, key, rules, total) ==
    /\ g.file = key[1] /\ g.group = key[2]
    /\ \E list : ListsRows(g.rules, Restrict(rules, {id \in DOMAIN rules : GroupKey(id) = key}), list)
    /\ g.rankShare = Share(g.rankValue, total) /\ g.rankValue \in Int

(* The groups that some rules are in.                                      *)
KeysOf(ids) == {GroupKey(id) : id \in ids}

(* Every identity is one of Identities and tells the tenant.               *)
LEMMA IdentityIs ==
  ASSUME NEW x, IsRule(x)
  PROVE  RuleID(x) \in Identities /\ RuleID(x)[1] = x.tenant /\ GroupKey(RuleID(x)) \in Int \X Int
BY DEF IsRule, RuleID, Identities, GroupKey

(* The executions of a rule all are of its tenant.                         *)
LEMMA RuleOfTenant ==
  ASSUME NEW es, \A k \in DOMAIN es : IsExecution(es[k]), NEW defs, NEW t, NEW id \in RulesOf(es, defs, t)
  PROVE  /\ id[1] = t /\ id \in Identities /\ OfRule(es, id) \subseteq OfTenant(es, t)
         /\ {k \in OfTenant(es, t) : RuleID(es[k]) = id} = OfRule(es, id)
         /\ {k \in OfTenant(es, t) \ Strays(es, defs) : RuleID(es[k]) = id} = OfRule(es, id)
<1>1. PICK j \in OfTenant(es, t) \ Strays(es, defs) : id = RuleID(es[j])
  BY DEF RulesOf
<1>2. id[1] = t /\ id \in Identities /\ IsKnown(id, defs)
  BY <1>1, IdentityIs DEF OfTenant, Strays, IsExecution
<1>3. \A k \in DOMAIN es : RuleID(es[k]) = id => es[k].tenant = t
  BY <1>2, IdentityIs DEF IsExecution
<1>4. QED
  BY <1>2, <1>3 DEF OfRule, OfTenant, Strays

(* A rule's row is about all executions of the rule.                       *)
LEMMA RuleRowIs ==
  ASSUME NEW es, NEW t, NEW id, {k \in OfTenant(es, t) : RuleID(es[k]) = id} = OfRule(es, id),
         NEW f, f = Restrict(es, OfTenant(es, t)), NEW defs, NEW m, NEW total,
         NEW own, own = Restrict(es, OfRule(es, id)),
         NEW q, q = RuleRow(id, f, defs, m, total)
  PROVE  IsRuleRow(q, id, own, m, total)
<1>1. DOMAIN f = OfTenant(es, t) /\ \A k \in OfTenant(es, t) : f[k] = es[k]
  BY DEF Restrict
<1>2. {k \in DOMAIN f : RuleID(f[k]) = id} = OfRule(es, id)
  BY <1>1
<1>3. \A k \in OfRule(es, id) : f[k] = es[k]
  BY <1>1
<1>4. Restrict(f, OfRule(es, id)) = own
  BY <1>3 DEF Restrict
<1>5. PICK b : b = (m = "executions" \/ ObservedIn(m, own))
  OBVIOUS
<1>6. q = [id |-> id, kind |-> KindOf(id, defs), figures |-> Figures(own),
           rankValue |-> MetricValue(m, own),
           rankShare |-> Share(MetricValue(m, own), total),
           rankObserved |-> b]
  BY <1>2, <1>4, <1>5, Zenon DEF RuleRow
<1>7. /\ q.id = id /\ q.figures = Figures(own) /\ q.rankValue = MetricValue(m, own)
      /\ q.rankShare = Share(MetricValue(m, own), total)
      /\ q.rankObserved = b
  BY <1>6
<1>8. q.rankObserved <=> (m = "executions" \/ ObservedIn(m, own))
  BY <1>5, <1>7, Zenon
<1>9. QED
  BY <1>7, <1>8, Zenon DEF IsRuleRow

(* A group's row lists the rules of the group.                             *)
LEMMA GroupRowIs ==
  ASSUME NEW rules, IsFiniteSet(DOMAIN rules), DOMAIN rules \subseteq Identities,
         \A id \in DOMAIN rules : rules[id].rankValue \in Int,
         NEW key, NEW total, NEW g, g = GroupRow(key, rules, total)
  PROVE  IsGroupRow(g, key, rules, total)
<1>1. PICK ids, own : ids = {id \in DOMAIN rules : GroupKey(id) = key} /\ own = Restrict(rules, ids)
  OBVIOUS
<1>2. ids \in SUBSET DOMAIN rules /\ ids \in SUBSET Identities
  BY <1>1
<1>3. IsFiniteSet(ids)
  BY <1>2, FS_Subset
<1>4. DOMAIN own = ids /\ \A id \in ids : own[id] = rules[id]
  BY <1>1 DEF Restrict
<1>5. PICK v, f : v = SumFunction(f) /\ f = [id \in DOMAIN own |-> own[id].rankValue]
  OBVIOUS
<1>6. g = [file |-> key[1], group |-> key[2], rules |-> Ranked(own, RuleOrder(DOMAIN own)),
           executions |-> SumFunction([id \in DOMAIN own |-> own[id].figures.executions]),
           rankValue |-> v, rankShare |-> Share(v, total),
           rankObserved |-> \E id \in DOMAIN own : own[id].rankObserved]
  BY <1>1, <1>5 DEF GroupRow
<1>7. v \in Int
  <2>1. \A id \in ids : f[id] \in Int
    BY <1>2, <1>4, <1>5
  <2>2. SumFunctionOnSet(f, ids) \in Int
    BY <1>3, <2>1, SumType
  <2>3. QED
    BY <1>4, <1>5, <2>2 DEF SumFunction
<1>8. \E list : ListsRows(g.rules, own, list)
  <2>1. PICK o, s : o = RuleOrder(ids) /\ s = Ranked(own, o)
    OBVIOUS
  <2>2. IsOrder(DOMAIN own, o)
    BY <1>2, <1>4, <2>1, RulesOrdered
  <2>3. IsFiniteSet(DOMAIN own) /\ \A x \in DOMAIN own : own[x].rankValue \in Int
    BY <1>2, <1>3, <1>4
  <2>4. \E list : ListsRows(s, own, list)
    BY <2>1, <2>2, <2>3, RankedLists
  <2>5. g.rules = s
    BY <1>4, <1>6, <2>1
  <2>6. QED
    BY <2>4, <2>5
<1>9. g.file = key[1] /\ g.group = key[2] /\ g.rankValue = v /\ g.rankShare = Share(v, total)
  BY <1>6
<1>10. QED
  BY <1>1, <1>7, <1>8, <1>9 DEF IsGroupRow

(* The groups of a tenant are those its rules are in.                      *)
LEMMA GroupRulesAre ==
  ASSUME NEW rules, IsFiniteSet(DOMAIN rules), DOMAIN rules \subseteq Identities,
         \A id \in DOMAIN rules : rules[id].rankValue \in Int,
         NEW total, NEW gs, gs = GroupRules(rules, total)
  PROVE  \E list : /\ Lists(list, KeysOf(DOMAIN rules)) /\ DOMAIN gs = DOMAIN list
                   /\ \A k \in DOMAIN list : IsGroupRow(gs[k], list[k], rules, total)
<1>1. PICK K : K = KeysOf(DOMAIN rules)
  OBVIOUS
<1>2. PICK rows : rows = [key \in K |-> GroupRow(key, rules, total)]
  OBVIOUS
<1>3. gs = Ranked(rows, GroupOrder(K))
  BY <1>1, <1>2 DEF GroupRules, KeysOf
<1>4. \A key \in K : IsGroupRow(rows[key], key, rules, total)
  <2>1. SUFFICES ASSUME NEW key \in K PROVE IsGroupRow(rows[key], key, rules, total)
    OBVIOUS
  <2>2. PICK g : g = GroupRow(key, rules, total)
    OBVIOUS
  <2>3. IsGroupRow(g, key, rules, total)
    BY <2>2, GroupRowIs
  <2>4. QED
    BY <1>2, <2>2, <2>3
<1>5. DOMAIN rows = K /\ \A key \in K : rows[key].rankValue \in Int
  BY <1>2, <1>4 DEF IsGroupRow
<1>6. IsFiniteSet(K)
  <2>1. PICK h : h = [id \in DOMAIN rules |-> GroupKey(id)]
    OBVIOUS
  <2>2. K = {h[id] : id \in DOMAIN rules}
    BY <1>1, <2>1 DEF KeysOf
  <2>3. QED
    BY <2>2, ImageFinite
<1>7. K \in SUBSET (Int \X Int)
  BY <1>1 DEF KeysOf, Identities, GroupKey
<1>8. PICK o : o = GroupOrder(K)
  OBVIOUS
<1>9. IsOrder(DOMAIN rows, o)
  BY <1>5, <1>7, <1>8, GroupsOrdered
<1>10. PICK list : ListsRows(gs, rows, list)
  BY <1>3, <1>5, <1>6, <1>8, <1>9, RankedLists
<1>11. /\ Lists(list, K) /\ DOMAIN gs = DOMAIN list
       /\ \A k \in DOMAIN list : gs[k] = rows[list[k]] /\ list[k] \in K
  BY <1>5, <1>10, ListedAll DEF ListsRows
<1>12. QED
  BY <1>1, <1>4, <1>11

(* What a restricted function is.                                          *)
LEMMA RestrictIs ==
  ASSUME NEW f, NEW S, NEW g, g = Restrict(f, S)
  PROVE  DOMAIN g = S /\ \A x \in S : g[x] = f[x]
BY DEF Restrict

(* r is the row of a tenant; rules are the rows of its rules.              *)
IsTenantRow(r, t, es, defs, m, rules) ==
    /\ r.tenant = t /\ r.figures = Figures(Restrict(es, OfTenant(es, t)))
    /\ r.rankValue = Total(m, es, OfTenant(es, t)) /\ r.rankShare = Share(r.rankValue, MetricValue(m, es))
    /\ r.unmatchedExecutions = Cardinality(OfTenant(es, t) \cap Strays(es, defs))
    /\ DOMAIN rules = RulesOf(es, defs, t)
    /\ \A id \in RulesOf(es, defs, t) : IsRuleRow(rules[id], id, Restrict(es, OfRule(es, id)), m, r.rankValue)
    /\ \E list : ListsRows(r.rules, rules, list)
    /\ \E keys : /\ Lists(keys, KeysOf(RulesOf(es, defs, t))) /\ DOMAIN r.groups = DOMAIN keys
                 /\ \A k \in DOMAIN keys : IsGroupRow(r.groups[k], keys[k], rules, r.rankValue)

(* The rows list the tenants that own rules or ran them.                   *)
ListsTenants(rows, ts, es, defs, m) ==
    /\ Lists(ts, ReportedTenants(es, defs)) /\ DOMAIN rows = DOMAIN ts
    /\ \A k \in DOMAIN ts : /\ rows[k].rankValue \in Int
                            /\ \E rules : IsTenantRow(rows[k], ts[k], es, defs, m, rules)

(* What TenantRow returns.                                                 *)
LEMMA TenantRowIs ==
  ASSUME None \notin Int, NEW es, AreExecutions(es), NEW defs, NEW m \in Metrics, NEW t,
         NEW r, r = TenantRow(t, es, defs, m)
  PROVE  r.rankValue \in Int /\ \E rules : IsTenantRow(r, t, es, defs, m, rules)
<1>1. PICK K, U, I : K = OfTenant(es, t) /\ U = Strays(es, defs) /\ I = RulesOf(es, defs, t)
  OBVIOUS
<1>2. K \in SUBSET DOMAIN es
  BY <1>1 DEF OfTenant
<1>3. PICK f, u : f = Restrict(es, K) /\ u = Unmatched(f, defs)
  OBVIOUS
<1>4. DOMAIN f = K /\ \A k \in K : f[k] = es[k]
  BY <1>3, RestrictIs
<1>5. DOMAIN u = K \cap U
  <2>1. DOMAIN u = {k \in DOMAIN f : ~IsKnown(RuleID(f[k]), defs)}
    BY <1>3, RestrictIs DEF Unmatched
  <2>2. \A k \in K : k \in U <=> ~IsKnown(RuleID(f[k]), defs)
    BY <1>1, <1>2, <1>4 DEF Strays
  <2>3. QED
    BY <1>4, <2>1, <2>2
<1>6. PICK total : total = MetricValue(m, f)
  OBVIOUS
<1>7. total = Total(m, es, K) /\ total \in Int /\ IsFiniteSet(K)
  BY <1>2, <1>4, <1>6, FigureIsSum
<1>8. PICK rules : rules = [id \in I |-> RuleRow(id, f, defs, m, total)]
  OBVIOUS
<1>9. {RuleID(f[k]) : k \in DOMAIN f \ DOMAIN u} = I
  <2>1. DOMAIN f \ DOMAIN u = K \ U
    BY <1>4, <1>5
  <2>2. \A k \in K \ U : RuleID(f[k]) = RuleID(es[k])
    BY <1>4
  <2>3. I = {RuleID(es[k]) : k \in K \ U}
    BY <1>1 DEF RulesOf
  <2>4. QED
    BY <2>1, <2>2, <2>3
<1>10. r = [tenant |-> t, ruleCount |-> Cardinality({RuleID(defs[k]) : k \in {j \in DOMAIN defs : defs[j].tenant = t}}),
            figures |-> Figures(f), rankValue |-> total,
            rankShare |-> Share(total, MetricValue(m, es)),
            rules |-> Ranked(rules, RuleOrder(DOMAIN rules)), groups |-> GroupRules(rules, total),
            unmatchedExecutions |-> Count(u), unmatchedSamples |-> Sum("samples", u)]
  <2>1. f = Restrict(es, {k \in DOMAIN es : es[k].tenant = t})
    BY <1>1, <1>3 DEF OfTenant
  <2>2. rules = [id \in {RuleID(f[k]) : k \in DOMAIN f \ DOMAIN u} |-> RuleRow(id, f, defs, m, total)]
    BY <1>8, <1>9
  <2>3. QED
    BY <1>3, <1>6, <2>1, <2>2, Zenon DEF TenantRow
<1>11. DOMAIN rules = I /\ \A id \in I : IsRuleRow(rules[id], id, Restrict(es, OfRule(es, id)), m, total) /\ id \in Identities
                        /\ rules[id].rankValue \in Int
  <2>1. DOMAIN rules = I
    BY <1>8
  <2>2. ASSUME NEW id \in I
        PROVE  /\ IsRuleRow(rules[id], id, Restrict(es, OfRule(es, id)), m, total)
               /\ id \in Identities /\ rules[id].rankValue \in Int
    <3>1. id \in Identities /\ {k \in OfTenant(es, t) : RuleID(es[k]) = id} = OfRule(es, id)
      BY <1>1, RuleOfTenant DEF AreExecutions
    <3>2. PICK q, own : q = RuleRow(id, f, defs, m, total) /\ own = Restrict(es, OfRule(es, id))
      OBVIOUS
    <3>3. IsRuleRow(q, id, own, m, total)
      BY <1>1, <1>3, <3>1, <3>2, RuleRowIs
    <3>4. q.rankValue \in Int
      <4>1. OfRule(es, id) \in SUBSET DOMAIN es
        BY DEF OfRule
      <4>2. DOMAIN own = OfRule(es, id) /\ \A k \in OfRule(es, id) : own[k] = es[k]
        BY <3>2, RestrictIs
      <4>3. MetricValue(m, own) \in Int
        BY <4>1, <4>2, FigureIsSum
      <4>4. QED
        BY <3>3, <4>3 DEF IsRuleRow
    <3>5. rules[id] = q
      BY <1>8, <3>2
    <3>6. QED
      BY <3>1, <3>2, <3>3, <3>4, <3>5
  <2>3. QED
    BY <2>1, <2>2
<1>12. IsFiniteSet(I)
  <2>1. IsFiniteSet(K \ U)
    BY <1>7, FS_Subset
  <2>2. PICK h : h = [k \in K \ U |-> RuleID(es[k])]
    OBVIOUS
  <2>3. I = {h[k] : k \in K \ U}
    BY <1>1, <2>2 DEF RulesOf
  <2>4. QED
    BY <2>1, <2>3, ImageFinite
<1>13. \E list : ListsRows(r.rules, rules, list)
  <2>1. PICK o, s : o = RuleOrder(I) /\ s = Ranked(rules, o)
    OBVIOUS
  <2>2. I \in SUBSET Identities
    BY <1>11
  <2>3. IsOrder(DOMAIN rules, o)
    BY <1>11, <2>1, <2>2, RulesOrdered
  <2>4. IsFiniteSet(DOMAIN rules) /\ \A x \in DOMAIN rules : rules[x].rankValue \in Int
    BY <1>11, <1>12
  <2>5. \E list : ListsRows(s, rules, list)
    BY <2>1, <2>3, <2>4, RankedLists
  <2>6. r.rules = s
    BY <1>10, <1>11, <2>1
  <2>7. QED
    BY <2>5, <2>6
<1>14. \E keys : /\ Lists(keys, KeysOf(I)) /\ DOMAIN r.groups = DOMAIN keys
                 /\ \A k \in DOMAIN keys : IsGroupRow(r.groups[k], keys[k], rules, total)
  <2>1. PICK gs : gs = GroupRules(rules, total)
    OBVIOUS
  <2>2. IsFiniteSet(DOMAIN rules) /\ DOMAIN rules \subseteq Identities /\ \A x \in DOMAIN rules : rules[x].rankValue \in Int
    BY <1>11, <1>12
  <2>3. \E list : /\ Lists(list, KeysOf(DOMAIN rules)) /\ DOMAIN gs = DOMAIN list
                  /\ \A k \in DOMAIN list : IsGroupRow(gs[k], list[k], rules, total)
    BY <2>1, <2>2, GroupRulesAre
  <2>4. r.groups = gs
    BY <1>10, <2>1
  <2>5. QED
    BY <1>11, <2>3, <2>4
<1>15. r.tenant = t /\ r.figures = Figures(f) /\ r.rankValue = total /\ r.rankShare = Share(total, MetricValue(m, es))
       /\ r.unmatchedExecutions = Cardinality(K \cap U)
  BY <1>5, <1>10 DEF Count
<1>16. IsTenantRow(r, t, es, defs, m, rules)
  BY <1>1, <1>3, <1>7, <1>11, <1>13, <1>14, <1>15 DEF IsTenantRow
<1>17. QED
  BY <1>7, <1>15, <1>16

(* What Aggregate returns, row by row.                                     *)
LEMMA AggregateIs ==
  ASSUME None \notin Int, NEW es, AreExecutions(es), NEW defs, AreDefinitions(defs),
         NEW m, m = PickRankMetric(es), NEW agg, agg = Aggregate(es, defs),
         NEW T, T = ReportedTenants(es, defs), NEW U, U = Strays(es, defs)
  PROVE  /\ m \in Metrics /\ agg.rankMetric = m /\ agg.granularity = "rule" /\ agg.total = Cardinality(DOMAIN es)
         /\ IsFiniteSet(T) /\ T \subseteq Int
         /\ Len(agg.tenants) = Cardinality(T)
         /\ \E ts : ListsTenants(agg.tenants, ts, es, defs, m)
         /\ Len(agg.unmatched) = Cardinality(U)
         /\ \E pos : Lists(pos, U) /\ DOMAIN agg.unmatched = DOMAIN pos
                     /\ \A k \in DOMAIN pos : agg.unmatched[k] = es[pos[k]]
<1>1. m \in Metrics
  BY RankedByMetric
<1>2. PICK rows, tenants : rows = [t \in T |-> TenantRow(t, es, defs, m)] /\ tenants = Ranked(rows, TenantOrder(T))
  OBVIOUS
<1>3. PICK u, listed, unmatched : /\ u = Unmatched(es, defs) /\ listed = InOrder(DOMAIN u, UnmatchedOrder(u))
                                  /\ unmatched = [k \in DOMAIN listed |-> es[listed[k]]]
  OBVIOUS
<1>4. agg = [granularity |-> "rule", total |-> Count(es), totalSamples |-> Sum("samples", es),
             definitions |-> Len(defs), rankMetric |-> m, groupRankMetric |-> m,
             tenants |-> tenants, unmatched |-> unmatched]
  BY <1>2, <1>3, Zenon DEF Aggregate
<1>5. agg.rankMetric = m /\ agg.granularity = "rule" /\ agg.total = Cardinality(DOMAIN es)
      /\ agg.tenants = tenants /\ agg.unmatched = unmatched
  BY <1>4 DEF Count
<1>6. IsFiniteSet(T) /\ T \in SUBSET Int
  <2>1. PICK A, B, a, b : /\ A = {es[k].tenant : k \in DOMAIN es} /\ a = [k \in DOMAIN es |-> es[k].tenant]
                          /\ B = {defs[k].tenant : k \in DOMAIN defs} /\ b = [k \in DOMAIN defs |-> defs[k].tenant]
    OBVIOUS
  <2>2. A = {a[k] : k \in DOMAIN es} /\ B = {b[k] : k \in DOMAIN defs}
    BY <2>1
  <2>3. IsFiniteSet(A) /\ IsFiniteSet(B)
    BY <2>2, ImageFinite DEF AreExecutions, AreDefinitions
  <2>4. T = A \cup B
    BY <2>1 DEF ReportedTenants
  <2>5. A \subseteq Int /\ B \subseteq Int
    BY <2>1 DEF AreExecutions, AreDefinitions, IsExecution, IsRule
  <2>6. IsFiniteSet(A \cup B)
    BY <2>3, FS_Union
  <2>7. QED
    BY <2>4, <2>5, <2>6
<1>7. \A t \in T : rows[t].rankValue \in Int /\ \E rules : IsTenantRow(rows[t], t, es, defs, m, rules)
  <2>1. SUFFICES ASSUME NEW t \in T
                 PROVE  rows[t].rankValue \in Int /\ \E rules : IsTenantRow(rows[t], t, es, defs, m, rules)
    OBVIOUS
  <2>2. PICK r : r = TenantRow(t, es, defs, m)
    OBVIOUS
  <2>3. r.rankValue \in Int /\ \E rules : IsTenantRow(r, t, es, defs, m, rules)
    BY <1>1, <2>2, TenantRowIs
  <2>4. rows[t] = r
    BY <1>2, <2>2
  <2>5. QED
    BY <2>3, <2>4
<1>8. PICK ts : ListsRows(tenants, rows, ts)
  <2>1. PICK o : o = TenantOrder(T)
    OBVIOUS
  <2>2. DOMAIN rows = T
    BY <1>2
  <2>3. IsOrder(DOMAIN rows, o)
    BY <1>6, <2>1, <2>2, TenantsOrdered
  <2>4. IsFiniteSet(DOMAIN rows) /\ \A x \in DOMAIN rows : rows[x].rankValue \in Int
    BY <1>6, <1>7, <2>2
  <2>5. QED
    BY <1>2, <2>1, <2>3, <2>4, RankedLists
<1>9. Lists(ts, T) /\ DOMAIN tenants = DOMAIN ts /\ Len(tenants) = Cardinality(T)
      /\ \A k \in DOMAIN ts : tenants[k] = rows[ts[k]] /\ ts[k] \in T
  <2>1. DOMAIN rows = T
    BY <1>2
  <2>2. QED
    BY <1>8, <2>1, ListedAll DEF ListsRows
<1>10. \A k \in DOMAIN ts : /\ tenants[k].rankValue \in Int
                            /\ \E rules : IsTenantRow(tenants[k], ts[k], es, defs, m, rules)
  BY <1>7, <1>9
<1>11. ListsTenants(tenants, ts, es, defs, m)
  BY <1>9, <1>10 DEF ListsTenants
<1>12. DOMAIN u = U /\ \A k \in U : u[k] = es[k]
  BY <1>3 DEF Unmatched, Strays, Restrict
<1>13. Lists(listed, U)
  <2>1. U \subseteq DOMAIN es
    BY DEF Strays
  <2>2. IsFiniteSet(U) /\ U \subseteq Int /\ \A k \in U : IsExecution(u[k])
    BY <1>12, <2>1, FS_Subset DEF AreExecutions
  <2>3. \A k \in DOMAIN u : RuleID(u[k]) \in Identities /\ u[k].ts \in Int
    BY <1>12, <2>2, IdentityIs DEF IsExecution
  <2>4. PICK o : o = UnmatchedOrder(u)
    OBVIOUS
  <2>5. IsOrder(DOMAIN u, o)
    BY <1>12, <2>2, <2>3, <2>4, UnmatchedOrdered
  <2>6. IsOrder(U, o) /\ listed = InOrder(U, o)
    BY <1>3, <1>12, <2>4, <2>5
  <2>7. QED
    BY <2>2, <2>6, OrderLists
<1>14. Len(unmatched) = Cardinality(U) /\ DOMAIN unmatched = DOMAIN listed
       /\ \A k \in DOMAIN listed : unmatched[k] = es[listed[k]]
  <2>1. DOMAIN listed = 1..Cardinality(U) /\ Cardinality(U) \in Nat
    BY <1>13, ListedAll
  <2>2. PICK n, f : n = Cardinality(U) /\ f = [k \in 1..n |-> es[listed[k]]]
    OBVIOUS
  <2>3. unmatched = [k \in 1..n |-> f[k]]
    BY <1>3, <2>1, <2>2
  <2>4. Len(unmatched) = n
    BY <2>1, <2>2, <2>3, LengthIs
  <2>5. QED
    BY <1>3, <2>2, <2>4
<1>15. QED
  BY <1>1, <1>5, <1>6, <1>9, <1>11, <1>13, <1>14

--------------------------------------------------------------------------------
(* What the rows of a report add up to.                                    *)

(* a gives a figure of each class of the executions P, in the order of ts. *)
AreTotals(a, m, es, P, key, ts) ==
    DOMAIN a = DOMAIN ts /\ \A k \in DOMAIN ts : a[k] = Total(m, es, Class(P, key, ts[k]))

(* A figure of some executions, added up over a list of their classes.     *)
LEMMA ClassesAddUp ==
  ASSUME None \notin Int, NEW es, AreExecutions(es), NEW P \in SUBSET DOMAIN es, NEW m \in Metrics,
         NEW key, NEW T, \A x \in P : key[x] \in T, NEW ts, Lists(ts, T),
         NEW a, AreTotals(a, m, es, P, key, ts)
  PROVE  SumFunction(a) = Total(m, es, P) /\ Total(m, es, P) \in Int
<1>1. PICK w : w = Weighs(m, es)
  OBVIOUS
<1>2. IsFiniteSet(P) /\ \A x \in P : w[x] \in Int
  <2>1. PICK f : f = Restrict(es, P)
    OBVIOUS
  <2>2. DOMAIN f = P /\ \A k \in P : f[k] = es[k]
    BY <2>1, RestrictIs
  <2>3. IsFiniteSet(P) /\ \A k \in DOMAIN es : Weighs(m, es)[k] \in Int
    BY <2>2, FigureIsSum
  <2>4. QED
    BY <1>1, <2>3
<1>3. PICK b : b = [t \in T |-> SumFunctionOnSet(w, Class(P, key, t))]
  OBVIOUS
<1>4. \A t \in T : b[t] = SumFunctionOnSet(w, Class(P, key, t)) /\ b[t] \in Int
  <2>1. SUFFICES ASSUME NEW t \in T PROVE SumFunctionOnSet(w, Class(P, key, t)) \in Int
    BY <1>3
  <2>2. PICK V : V = Class(P, key, t)
    OBVIOUS
  <2>3. IsFiniteSet(V) /\ \A x \in V : w[x] \in Int
    BY <1>2, <2>2, FS_Subset DEF Class
  <2>4. QED
    BY <2>2, <2>3, SumType
<1>5. \A k \in DOMAIN ts : a[k] = b[ts[k]]
  BY <1>1, <1>4, ListedAll DEF Total, AreTotals
<1>6. IsFiniteSet(T) /\ SumFunctionOnSet(a, DOMAIN ts) = SumFunctionOnSet(b, T)
  <2>1. \A t \in T : b[t] \in Int
    BY <1>4
  <2>2. QED
    BY <1>5, <2>1, SumListed
<1>7. SumFunctionOnSet(b, T) = SumFunctionOnSet(w, P)
  BY <1>2, <1>4, <1>6, SumByKey
<1>8. SumFunctionOnSet(w, P) \in Int
  BY <1>2, SumType
<1>9. SumFunction(a) = SumFunctionOnSet(a, DOMAIN ts)
  BY DEF SumFunction, AreTotals
<1>10. QED
  BY <1>1, <1>6, <1>7, <1>8, <1>9 DEF Total

(* The number of some executions.                                          *)
LEMMA TotalCounts ==
  ASSUME None \notin Int, NEW es, AreExecutions(es), NEW P \in SUBSET DOMAIN es
  PROVE  Total("executions", es, P) = Cardinality(P) /\ "executions" \in Metrics
<1>1. PICK f : f = Restrict(es, P)
  OBVIOUS
<1>2. DOMAIN f = P /\ \A k \in P : f[k] = es[k]
  BY <1>1, RestrictIs
<1>3. "executions" \in Metrics
  BY DEF Metrics
<1>4. MetricValue("executions", f) = Total("executions", es, P) /\ Count(f) = Cardinality(P)
  BY <1>2, <1>3, FigureIsSum
<1>5. QED
  BY <1>3, <1>4 DEF MetricValue

(* The figures in a row.                                                   *)
LEMMA FiguresAre ==
  ASSUME None \notin Int, NEW es, AreExecutions(es), NEW P \in SUBSET DOMAIN es, NEW g, g = Figures(Restrict(es, P))
  PROVE  /\ g.executions = Total("executions", es, P) /\ g.executions = Cardinality(P)
         /\ \A s \in Stats : /\ g.sums[s] = Total(s, es, P)
                             /\ g.observed[s] <=> \E k \in P : es[k].stats[s] # None
<1>1. PICK f : f = Restrict(es, P)
  OBVIOUS
<1>2. DOMAIN f = P /\ \A k \in P : f[k] = es[k]
  BY <1>1, RestrictIs
<1>3. g.executions = Count(f) /\ g.sums = [s \in Stats |-> Sum(s, f)] /\ g.observed = Observed(f)
  BY <1>1 DEF Figures
<1>4. Count(f) = Cardinality(P) /\ \A m \in Metrics : MetricValue(m, f) = Total(m, es, P)
  BY <1>2, FigureIsSum
<1>5. Total("executions", es, P) = Cardinality(P)
  BY TotalCounts
<1>6. \A s \in Stats : g.sums[s] = Total(s, es, P)
  BY <1>3, <1>4, StatIsMetric
<1>7. ASSUME NEW s \in Stats PROVE g.observed[s] <=> \E k \in P : es[k].stats[s] # None
  <2>1. g.observed[s] = ObservedIn(s, f)
    BY <1>3, Zenon DEF Observed
  <2>2. ObservedIn(s, f) <=> \E k \in P : es[k].stats[s] # None
    BY <1>2 DEF ObservedIn
  <2>3. QED
    BY <2>1, <2>2, Zenon
<1>8. QED
  BY <1>3, <1>4, <1>5, <1>6, <1>7

(* The columns of the tenants' table.                                      *)
ExecutionColumn(rows) == [k \in DOMAIN rows |-> rows[k].figures.executions]
UnmatchedColumn(rows) == [k \in DOMAIN rows |-> rows[k].unmatchedExecutions]
RankColumn(rows)      == [k \in DOMAIN rows |-> rows[k].rankValue]

(* The tenants make up everything: in executions, and in the figure the    *)
(* report ranks by.                                                        *)
LEMMA TenantsAddUp ==
  ASSUME None \notin Int, NEW es, AreExecutions(es), NEW defs, NEW m \in Metrics,
         NEW rows, NEW ts, ListsTenants(rows, ts, es, defs, m)
  PROVE  /\ SumFunction(ExecutionColumn(rows)) = Cardinality(DOMAIN es)
         /\ SumFunction(UnmatchedColumn(rows)) = Cardinality(Strays(es, defs))
         /\ SumFunction(RankColumn(rows)) = MetricValue(m, es)
<1>1. PICK T : T = ReportedTenants(es, defs)
  OBVIOUS
<1>2. PICK key, D, U : key = [k \in DOMAIN es |-> es[k].tenant] /\ D = DOMAIN es /\ U = Strays(es, defs)
  OBVIOUS
<1>3. U \in SUBSET D /\ D \in SUBSET DOMAIN es /\ U \in SUBSET DOMAIN es
  BY <1>2 DEF Strays
<1>4. \A t : Class(D, key, t) = OfTenant(es, t) /\ Class(U, key, t) = OfTenant(es, t) \cap U
  BY <1>2, <1>3 DEF OfTenant, Class
<1>5. \A x \in D : key[x] \in T
  BY <1>1, <1>2 DEF ReportedTenants
<1>6. ASSUME NEW k \in DOMAIN ts
      PROVE  /\ rows[k].figures.executions = Total("executions", es, Class(D, key, ts[k]))
             /\ rows[k].unmatchedExecutions = Total("executions", es, Class(U, key, ts[k]))
             /\ rows[k].rankValue = Total(m, es, Class(D, key, ts[k]))
  <2>1. PICK rules : IsTenantRow(rows[k], ts[k], es, defs, m, rules)
    BY <1>6 DEF ListsTenants
  <2>2. PICK t, r, g, P : t = ts[k] /\ r = rows[k] /\ g = r.figures /\ P = OfTenant(es, t)
    OBVIOUS
  <2>3. /\ g = Figures(Restrict(es, P)) /\ r.rankValue = Total(m, es, P)
        /\ r.unmatchedExecutions = Cardinality(P \cap U)
    BY <1>2, <2>1, <2>2 DEF IsTenantRow
  <2>4. P \in SUBSET DOMAIN es /\ P \cap U \in SUBSET DOMAIN es
    BY <2>2 DEF OfTenant
  <2>5. g.executions = Total("executions", es, P)
    BY <2>3, <2>4, FiguresAre
  <2>6. Total("executions", es, P \cap U) = Cardinality(P \cap U)
    BY <2>4, TotalCounts
  <2>7. Class(D, key, t) = P /\ Class(U, key, t) = P \cap U
    BY <1>4, <2>2
  <2>8. QED
    BY <2>2, <2>3, <2>5, <2>6, <2>7
<1>7. "executions" \in Metrics /\ Lists(ts, T)
  BY <1>1 DEF Metrics, ListsTenants
<1>8. DOMAIN rows = DOMAIN ts
  BY DEF ListsTenants
<1>9. SumFunction(ExecutionColumn(rows)) = Cardinality(DOMAIN es)
  <2>1. PICK a : a = ExecutionColumn(rows)
    OBVIOUS
  <2>2. AreTotals(a, "executions", es, D, key, ts)
    BY <1>6, <1>8, <2>1 DEF AreTotals, ExecutionColumn
  <2>3. SumFunction(a) = Total("executions", es, D)
    BY <1>3, <1>5, <1>7, <2>2, ClassesAddUp
  <2>4. QED
    BY <1>2, <1>3, <2>1, <2>3, TotalCounts
<1>10. SumFunction(UnmatchedColumn(rows)) = Cardinality(Strays(es, defs))
  <2>1. PICK b : b = UnmatchedColumn(rows)
    OBVIOUS
  <2>2. AreTotals(b, "executions", es, U, key, ts)
    BY <1>6, <1>8, <2>1 DEF AreTotals, UnmatchedColumn
  <2>3. \A x \in U : key[x] \in T
    BY <1>3, <1>5
  <2>4. SumFunction(b) = Total("executions", es, U)
    BY <1>3, <1>7, <2>2, <2>3, ClassesAddUp
  <2>5. QED
    BY <1>2, <1>3, <2>1, <2>4, TotalCounts
<1>11. SumFunction(RankColumn(rows)) = MetricValue(m, es)
  <2>1. PICK c : c = RankColumn(rows)
    OBVIOUS
  <2>2. AreTotals(c, m, es, D, key, ts)
    BY <1>6, <1>8, <2>1 DEF AreTotals, RankColumn
  <2>3. SumFunction(c) = Total(m, es, D)
    BY <1>3, <1>5, <1>7, <2>2, ClassesAddUp
  <2>4. DOMAIN es = D /\ \A k \in D : es[k] = es[k]
    BY <1>2
  <2>5. Total(m, es, D) = MetricValue(m, es)
    BY <1>3, <2>4, FigureIsSum
  <2>6. QED
    BY <2>1, <2>3, <2>5
<1>12. QED
  BY <1>9, <1>10, <1>11

(* A figure of some executions is that of a part of them and of the rest.  *)
LEMMA TotalSplits ==
  ASSUME None \notin Int, NEW es, AreExecutions(es), NEW P \in SUBSET DOMAIN es, NEW W \in SUBSET P, NEW m \in Metrics
  PROVE  /\ Total(m, es, P) = Total(m, es, P \ W) + Total(m, es, W)
         /\ Total(m, es, P) \in Int /\ Total(m, es, W) \in Int /\ Total(m, es, P \ W) \in Int
<1>1. PICK w : w = Weighs(m, es)
  OBVIOUS
<1>2. PICK f : f = Restrict(es, P)
  OBVIOUS
<1>3. DOMAIN f = P /\ \A k \in P : f[k] = es[k]
  BY <1>2, RestrictIs
<1>4. IsFiniteSet(P) /\ \A k \in P : w[k] \in Int
  BY <1>1, <1>3, FigureIsSum
<1>5. SumFunctionOnSet(w, P) = SumFunctionOnSet(w, W) + SumFunctionOnSet(w, P \ W)
  BY <1>4, SumSplit
<1>6. IsFiniteSet(W) /\ IsFiniteSet(P \ W)
  BY <1>4, FS_Subset
<1>7. SumFunctionOnSet(w, P) \in Int /\ SumFunctionOnSet(w, W) \in Int /\ SumFunctionOnSet(w, P \ W) \in Int
  BY <1>4, <1>6, SumType
<1>8. QED
  BY <1>1, <1>5, <1>7 DEF Total

(* The unmatched executions of a tenant, found in the list of all of them. *)
LEMMA StraysOfTenant ==
  ASSUME None \notin Int, NEW es, AreExecutions(es), NEW U \in SUBSET DOMAIN es, NEW pos, Lists(pos, U),
         NEW unmatched, DOMAIN unmatched = DOMAIN pos, \A k \in DOMAIN pos : unmatched[k] = es[pos[k]],
         NEW t, NEW s \in Stats,
         NEW a, a = [k \in DOMAIN unmatched |->
                        IF unmatched[k].tenant = t THEN ValueOr(unmatched[k].stats[s], 0) ELSE 0]
  PROVE  SumFunction(a) = Total(s, es, OfTenant(es, t) \cap U)
<1> DEFINE b == [x \in U |-> IF es[x].tenant = t THEN ValueOr(es[x].stats[s], 0) ELSE 0]
<1>1. PICK w, W : w = Weighs(s, es) /\ W = OfTenant(es, t) \cap U
  OBVIOUS
<1>2. W \in SUBSET U /\ \A x \in U : x \in W <=> es[x].tenant = t
  BY <1>1 DEF OfTenant
<1>3. \A x \in U : w[x] = ValueOr(es[x].stats[s], 0) /\ w[x] \in Int
  BY <1>1, StatIsMetric DEF Weighs, AreExecutions, IsExecution, ValueOr
<1>4. \A x \in U : b[x] = IF x \in W THEN w[x] ELSE 0
  BY <1>2, <1>3
<1>5. DOMAIN a = DOMAIN pos /\ \A k \in DOMAIN pos : a[k] = b[pos[k]] /\ pos[k] \in U
  BY ListedAll
<1> HIDE DEF b
<1>6. \A x \in U : b[x] \in Int
  BY <1>3, <1>4
<1>7. IsFiniteSet(U) /\ SumFunctionOnSet(a, DOMAIN pos) = SumFunctionOnSet(b, U)
  <2>1. PICK f, g : f = a /\ g = b
    OBVIOUS
  <2>2. \A k \in DOMAIN pos : f[k] = g[pos[k]]
    BY <1>5, <2>1
  <2>3. \A x \in U : g[x] \in Int
    BY <1>6, <2>1
  <2>4. IsFiniteSet(U) /\ SumFunctionOnSet(f, DOMAIN pos) = SumFunctionOnSet(g, U)
    BY <2>2, <2>3, SumListed
  <2>5. QED
    BY <2>1, <2>4
<1>8. \A x \in U \ W : b[x] = 0
  BY <1>4
<1>9. SumFunctionOnSet(b, U) = SumFunctionOnSet(b, W)
  BY <1>2, <1>6, <1>7, <1>8, SumRestrict
<1>10. IsFiniteSet(W) /\ \A x \in W : b[x] = w[x]
  BY <1>2, <1>4, <1>7, FS_Subset
<1>11. SumFunctionOnSet(b, W) = SumFunctionOnSet(w, W)
  BY <1>10, SumAgree
<1>12. SumFunction(a) = Total(s, es, W)
  BY <1>1, <1>5, <1>7, <1>9, <1>11 DEF SumFunction, Total
<1>13. QED
  BY <1>1, <1>12

(* A tenant is made up of its rules and its unmatched executions.          *)
LEMMA TenantIsItsRules ==
  ASSUME None \notin Int, NEW es, AreExecutions(es), NEW defs, NEW m \in Metrics,
         NEW t, NEW r, NEW rules, IsTenantRow(r, t, es, defs, m, rules),
         NEW pos, Lists(pos, Strays(es, defs)),
         DOMAIN Agg.unmatched = DOMAIN pos, \A k \in DOMAIN pos : Agg.unmatched[k] = es[pos[k]]
  PROVE  TenantAddsUp(r)
<1>1. r.tenant = t
  BY DEF IsTenantRow
<1>2. PICK P, U, I : P = OfTenant(es, t) /\ U = Strays(es, defs) /\ I = RulesOf(es, defs, t)
  OBVIOUS
<1>3. PICK V, W : V = P \ U /\ W = P \cap U
  OBVIOUS
<1>4. /\ P \in SUBSET DOMAIN es /\ V \in SUBSET DOMAIN es /\ W \in SUBSET P /\ U \in SUBSET DOMAIN es
      /\ P \ W = V
  BY <1>2, <1>3 DEF OfTenant, Strays
<1>5. PICK key : key = [k \in DOMAIN es |-> RuleID(es[k])]
  OBVIOUS
<1>6. \A x \in V : key[x] \in I
  BY <1>2, <1>3, <1>4, <1>5 DEF RulesOf
<1>7. \A id \in I : Class(V, key, id) = OfRule(es, id)
  <2>1. SUFFICES ASSUME NEW id \in I PROVE Class(V, key, id) = OfRule(es, id)
    OBVIOUS
  <2>2. {k \in OfTenant(es, t) \ Strays(es, defs) : RuleID(es[k]) = id} = OfRule(es, id)
    BY <1>2, RuleOfTenant DEF AreExecutions
  <2>3. QED
    BY <1>2, <1>3, <1>4, <1>5, <2>2 DEF Class
<1>8. PICK list : ListsRows(r.rules, rules, list)
  BY DEF IsTenantRow
<1>9. Lists(list, I) /\ DOMAIN r.rules = DOMAIN list /\ \A k \in DOMAIN list : list[k] \in I /\ r.rules[k] = rules[list[k]]
  <2>1. DOMAIN rules = I
    BY <1>2 DEF IsTenantRow
  <2>2. QED
    BY <1>8, <2>1, ListedAll DEF ListsRows
<1>10. ASSUME NEW k \in DOMAIN list
      PROVE  /\ r.rules[k].figures.executions = Total("executions", es, Class(V, key, list[k]))
             /\ \A s \in Stats : r.rules[k].figures.sums[s] = Total(s, es, Class(V, key, list[k]))
  <2>1. PICK id, q, Q, g : id = list[k] /\ q = r.rules[k] /\ Q = OfRule(es, id) /\ g = q.figures
    OBVIOUS
  <2>2. id \in I /\ q = rules[id]
    BY <1>9, <2>1
  <2>3. g = Figures(Restrict(es, Q))
    BY <1>2, <2>1, <2>2 DEF IsTenantRow, IsRuleRow
  <2>4. Q \in SUBSET DOMAIN es
    BY <2>1 DEF OfRule
  <2>5. g.executions = Total("executions", es, Q) /\ \A s \in Stats : g.sums[s] = Total(s, es, Q)
    BY <2>3, <2>4, FiguresAre
  <2>6. Class(V, key, id) = Q
    BY <1>7, <2>1, <2>2
  <2>7. QED
    BY <2>1, <2>5, <2>6
<1>11. /\ r.figures.executions = Total("executions", es, P) /\ r.unmatchedExecutions = Cardinality(W)
       /\ \A s \in Stats : r.figures.sums[s] = Total(s, es, P)
  <2>1. PICK fg : fg = r.figures
    OBVIOUS
  <2>2. fg = Figures(Restrict(es, P)) /\ r.unmatchedExecutions = Cardinality(W)
    BY <1>2, <1>3, <2>1 DEF IsTenantRow
  <2>3. fg.executions = Total("executions", es, P) /\ \A s \in Stats : fg.sums[s] = Total(s, es, P)
    BY <1>4, <2>2, FiguresAre
  <2>4. QED
    BY <2>1, <2>2, <2>3
<1>12. r.figures.executions = SumOver(r.rules, LAMBDA q : q.figures.executions) + r.unmatchedExecutions
  <2>1. PICK a : a = [k \in DOMAIN r.rules |-> r.rules[k].figures.executions]
    OBVIOUS
  <2>2. AreTotals(a, "executions", es, V, key, list)
    BY <1>9, <1>10, <2>1 DEF AreTotals
  <2>3. Total("executions", es, W) = Cardinality(W) /\ "executions" \in Metrics
    BY <1>4, TotalCounts
  <2>4. SumFunction(a) = Total("executions", es, V)
    BY <1>4, <1>6, <1>9, <2>2, <2>3, ClassesAddUp
  <2>5. Total("executions", es, P) = Total("executions", es, V) + Total("executions", es, W)
    BY <1>4, <2>3, TotalSplits
  <2>6. SumOver(r.rules, LAMBDA q : q.figures.executions) = SumFunction(a)
    BY <2>1 DEF SumOver
  <2>7. QED
    BY <1>11, <2>3, <2>4, <2>5, <2>6
<1>13. ASSUME NEW s \in Stats
       PROVE  r.figures.sums[s] = SumOver(r.rules, LAMBDA q : q.figures.sums[s])
                  + SumOver(Agg.unmatched, LAMBDA e : IF e.tenant = r.tenant THEN ValueOr(e.stats[s], 0) ELSE 0)
  <2>1. PICK a : a = [k \in DOMAIN r.rules |-> r.rules[k].figures.sums[s]]
    OBVIOUS
  <2>2. AreTotals(a, s, es, V, key, list)
    BY <1>9, <1>10, <2>1 DEF AreTotals
  <2>3. s \in Metrics
    BY StatIsMetric
  <2>4. SumFunction(a) = Total(s, es, V)
    BY <1>4, <1>6, <1>9, <2>2, <2>3, ClassesAddUp
  <2>5. Total(s, es, P) = Total(s, es, V) + Total(s, es, W)
    BY <1>4, <2>3, TotalSplits
  <2>6. SumOver(r.rules, LAMBDA q : q.figures.sums[s]) = SumFunction(a)
    BY <2>1 DEF SumOver
  <2>7. SumOver(Agg.unmatched, LAMBDA e : IF e.tenant = r.tenant THEN ValueOr(e.stats[s], 0) ELSE 0) = Total(s, es, W)
    <3>1. PICK u, b : /\ u = Agg.unmatched
                      /\ b = [k \in DOMAIN u |-> IF u[k].tenant = t THEN ValueOr(u[k].stats[s], 0) ELSE 0]
      OBVIOUS
    <3>2. DOMAIN u = DOMAIN pos /\ \A k \in DOMAIN pos : u[k] = es[pos[k]]
      BY <3>1
    <3>3. SumFunction(b) = Total(s, es, OfTenant(es, t) \cap U)
      BY <1>2, <1>4, <3>1, <3>2, StraysOfTenant
    <3>4. b = [k \in DOMAIN Agg.unmatched |->
                  IF Agg.unmatched[k].tenant = r.tenant THEN ValueOr(Agg.unmatched[k].stats[s], 0) ELSE 0]
      BY <1>1, <3>1
    <3>5. QED
      BY <1>2, <1>3, <3>3, <3>4 DEF SumOver
  <2>8. QED
    BY <1>11, <2>4, <2>5, <2>6, <2>7
<1>14. QED
  BY <1>12, <1>13 DEF TenantAddsUp

(* The rules of a group, in the group's row and in the tenant's.           *)
LEMMA RulesInGroup ==
  ASSUME NEW rules, NEW key, NEW g, NEW total, IsGroupRow(g, key, rules, total),
         NEW ids, ids = {id \in DOMAIN rules : GroupKey(id) = key}
  PROVE  /\ Len(g.rules) = Cardinality(ids) /\ g.file = key[1] /\ g.group = key[2]
         /\ \A j \in DOMAIN g.rules : \E id \in ids : g.rules[j] = rules[id]
<1>1. PICK own, list : own = Restrict(rules, ids) /\ ListsRows(g.rules, own, list)
  BY DEF IsGroupRow
<1>2. DOMAIN own = ids /\ \A id \in ids : own[id] = rules[id]
  BY <1>1, RestrictIs
<1>3. Lists(list, ids) /\ DOMAIN g.rules = DOMAIN list /\ Len(g.rules) = Cardinality(ids)
      /\ \A j \in DOMAIN list : g.rules[j] = own[list[j]] /\ list[j] \in ids
  BY <1>1, <1>2, ListedAll DEF ListsRows
<1>4. g.file = key[1] /\ g.group = key[2]
  BY DEF IsGroupRow
<1>5. QED
  BY <1>2, <1>3, <1>4

(* The sizes of the classes of a set, added up over a list of their keys.  *)
LEMMA SizesAddUp ==
  ASSUME NEW I, IsFiniteSet(I), NEW key, NEW K, \A x \in I : key[x] \in K, NEW keys, Lists(keys, K),
         NEW a, \A k \in DOMAIN keys : a[k] = Cardinality(Class(I, key, keys[k]))
  PROVE  SumFunctionOnSet(a, DOMAIN keys) = Cardinality(I)
<1>1. PICK one, b : /\ one = [x \in I |-> 1]
                    /\ b = [c \in K |-> SumFunctionOnSet(one, Class(I, key, c))]
  OBVIOUS
<1>2. \A x \in I : one[x] = 1 /\ one[x] \in Int
  BY <1>1
<1>3. ASSUME NEW c \in K PROVE b[c] = Cardinality(Class(I, key, c)) /\ b[c] \in Int
  <2>1. PICK V : V = Class(I, key, c)
    OBVIOUS
  <2>2. IsFiniteSet(V) /\ \A x \in V : one[x] = 1
    BY <1>2, <2>1, FS_Subset DEF Class
  <2>3. SumFunctionOnSet(one, V) = Cardinality(V) /\ Cardinality(V) \in Int
    BY <2>2, SumOfOnes, FS_CardinalityType
  <2>4. QED
    BY <1>1, <2>1, <2>3
<1>4. \A k \in DOMAIN keys : a[k] = b[keys[k]]
  BY <1>3, ListedAll
<1>5. \A c \in K : b[c] \in Int
  BY <1>3
<1>6. IsFiniteSet(K) /\ SumFunctionOnSet(a, DOMAIN keys) = SumFunctionOnSet(b, K)
  BY <1>4, <1>5, SumListed
<1>7. \A c \in K : b[c] = SumFunctionOnSet(one, Class(I, key, c))
  BY <1>1
<1>8. \A x \in I : one[x] \in Int
  BY <1>2
<1>9. SumFunctionOnSet(b, K) = SumFunctionOnSet(one, I)
  BY <1>6, <1>7, <1>8, SumByKey
<1>10. SumFunctionOnSet(one, I) = Cardinality(I)
  BY <1>2, SumOfOnes
<1>11. QED
  BY <1>6, <1>9, <1>10

(* Each rule is in the one group that defines it.                          *)
LEMMA RulesInTheirGroups ==
  ASSUME NEW es, AreExecutions(es), NEW defs, NEW m, NEW t, NEW r, NEW rules, IsTenantRow(r, t, es, defs, m, rules)
  PROVE  GroupsHoldTheRules(r)
<1>1. PICK I, K : I = RulesOf(es, defs, t) /\ K = KeysOf(I)
  OBVIOUS
<1>2. PICK list : ListsRows(r.rules, rules, list)
  BY DEF IsTenantRow
<1>3. DOMAIN rules = I /\ \A id \in I : rules[id].id = id
  BY <1>1 DEF IsTenantRow, IsRuleRow
<1>4. Lists(list, I) /\ DOMAIN r.rules = DOMAIN list /\ Len(r.rules) = Cardinality(I)
      /\ \A k \in DOMAIN list : r.rules[k] = rules[list[k]]
  BY <1>2, <1>3 DEF ListsRows
<1>5. PICK keys : /\ Lists(keys, K) /\ DOMAIN r.groups = DOMAIN keys
                  /\ \A k \in DOMAIN keys : IsGroupRow(r.groups[k], keys[k], rules, r.rankValue)
  BY <1>1 DEF IsTenantRow
<1>6. IsFiniteSet(I)
  <2>1. IsFiniteSet({list[k] : k \in DOMAIN list}) /\ {list[k] : k \in DOMAIN list} = I
    <3>1. DOMAIN list = 1..Cardinality(I) /\ Cardinality(I) \in Nat /\ {list[k] : k \in DOMAIN list} = I
      BY <1>4, ListedAll
    <3>2. IsFiniteSet(1..Cardinality(I))
      BY <3>1, FS_Interval
    <3>3. PICK D : D = DOMAIN list
      OBVIOUS
    <3>4. IsFiniteSet(D)
      BY <3>1, <3>2, <3>3
    <3>5. IsFiniteSet({list[k] : k \in D})
      BY <3>4, ImageFinite
    <3>6. QED
      BY <3>1, <3>3, <3>5
  <2>2. QED
    BY <2>1
<1>7. PICK key : key = [id \in I |-> GroupKey(id)]
  OBVIOUS
<1>8. \A id \in I : key[id] \in K
  BY <1>1, <1>7 DEF KeysOf
<1>9. SumOver(r.groups, LAMBDA g : Len(g.rules)) = Len(r.rules)
  <2>1. PICK a : a = [k \in DOMAIN r.groups |-> Len(r.groups[k].rules)]
    OBVIOUS
  <2>2. \A k \in DOMAIN keys : a[k] = Cardinality(Class(I, key, keys[k]))
    <3>1. SUFFICES ASSUME NEW k \in DOMAIN keys PROVE a[k] = Cardinality(Class(I, key, keys[k]))
      OBVIOUS
    <3>2. PICK x, g, ids : x = keys[k] /\ g = r.groups[k] /\ ids = {id \in DOMAIN rules : GroupKey(id) = x}
      OBVIOUS
    <3>3. IsGroupRow(g, x, rules, r.rankValue)
      BY <1>5, <3>2
    <3>4. Len(g.rules) = Cardinality(ids)
      BY <3>2, <3>3, RulesInGroup
    <3>5. ids = Class(I, key, x)
      BY <1>3, <1>7, <3>2 DEF Class
    <3>6. QED
      BY <1>5, <2>1, <3>2, <3>4, <3>5
  <2>3. SumFunctionOnSet(a, DOMAIN keys) = Cardinality(I)
    BY <1>5, <1>6, <1>8, <2>2, SizesAddUp
  <2>4. SumOver(r.groups, LAMBDA g : Len(g.rules)) = SumFunction(a)
    BY <2>1 DEF SumOver
  <2>5. SumFunction(a) = SumFunctionOnSet(a, DOMAIN keys)
    BY <1>5, <2>1 DEF SumFunction
  <2>6. QED
    BY <1>4, <2>3, <2>4, <2>5
<1>10. ASSUME NEW g \in Range(r.groups), NEW q \in Range(g.rules)
       PROVE  q \in Range(r.rules) /\ q.id[2] = g.file /\ q.id[3] = g.group
  <2>1. PICK k \in DOMAIN keys : g = r.groups[k]
    BY <1>5, <1>10 DEF Range
  <2>2. PICK ids, x : x = keys[k] /\ ids = {id \in DOMAIN rules : GroupKey(id) = x}
    OBVIOUS
  <2>3. IsGroupRow(g, x, rules, r.rankValue)
    BY <1>5, <2>1, <2>2
  <2>4. g.file = x[1] /\ g.group = x[2] /\ \A j \in DOMAIN g.rules : \E id \in ids : g.rules[j] = rules[id]
    BY <2>2, <2>3, RulesInGroup
  <2>5. PICK id \in ids : q = rules[id]
    BY <1>10, <2>4 DEF Range
  <2>6. id \in I /\ GroupKey(id) = x /\ q.id = id
    BY <1>3, <2>2, <2>5
  <2>7. q.id[2] = g.file /\ q.id[3] = g.group
    BY <2>4, <2>6 DEF GroupKey
  <2>8. PICK j \in DOMAIN list : list[j] = id
    BY <1>4, <2>6, ListedAll
  <2>9. j \in DOMAIN r.rules /\ r.rules[j] = q
    BY <1>4, <2>5, <2>8
  <2>10. QED
    BY <2>7, <2>9 DEF Range
<1>11. QED
  BY <1>9, <1>10 DEF GroupsHoldTheRules

(* What nobody measured adds up to zero, and what adds up to more than     *)
(* zero somebody measured.                                                 *)
LEMMA UnmeasuredIsZero ==
  ASSUME None \notin Int, NEW es, AreExecutions(es), NEW P \in SUBSET DOMAIN es, NEW s \in Stats
  PROVE  /\ Total(s, es, P) > 0 => \E k \in P : es[k].stats[s] # None
         /\ (\A k \in P : es[k].stats[s] = None) => Total(s, es, P) = 0
<1>1. PICK w : w = Weighs(s, es)
  OBVIOUS
<1>2. IsFiniteSet(P)
  BY FS_Subset DEF AreExecutions
<1>3. \A x \in P : w[x] = ValueOr(es[x].stats[s], 0) /\ w[x] \in Int
  BY <1>1, StatIsMetric DEF Weighs, AreExecutions, IsExecution, ValueOr
<1>4. Total(s, es, P) = SumFunctionOnSet(w, P)
  BY <1>1 DEF Total
<1>5. ASSUME Total(s, es, P) > 0 PROVE \E k \in P : es[k].stats[s] # None
  <2>1. \A x \in P : w[x] \in Int
    BY <1>3
  <2>2. PICK x \in P : w[x] > 0
    BY <1>2, <1>4, <1>5, <2>1, SumAboveZero
  <2>3. QED
    BY <1>3, <2>2 DEF ValueOr
<1>6. ASSUME \A k \in P : es[k].stats[s] = None PROVE Total(s, es, P) = 0
  <2>1. \A x \in P : w[x] = 0 /\ w[x] \in Int
    BY <1>3, <1>6 DEF ValueOr
  <2>2. \A x \in P \ {} : w[x] = 0
    BY <2>1
  <2>3. {} \in SUBSET P /\ \A x \in P : w[x] \in Int
    BY <2>1
  <2>4. SumFunctionOnSet(w, P) = SumFunctionOnSet(w, {})
    BY <1>2, <2>2, <2>3, SumRestrict
  <2>5. QED
    BY <1>4, <2>4, SumEmpty
<1>7. QED
  BY <1>5, <1>6

(* The metric a report ranks by is one that some tenant measured above     *)
(* zero.                                                                   *)
LEMMA RankIsMeasured ==
  ASSUME None \notin Int, NEW es, AreExecutions(es), NEW defs, NEW m, m = PickRankMetric(es), m # "executions",
         NEW rows, NEW ts, ListsTenants(rows, ts, es, defs, m)
  PROVE  \E k \in DOMAIN rows : rows[k].figures.observed[m] /\ rows[k].rankValue > 0
<1>1. m \in Stats /\ m \in Metrics /\ MetricValue(m, es) > 0
  BY RankedByMetric DEF Metrics, MetricValue
<1>2. PICK c : c = RankColumn(rows)
  OBVIOUS
<1>3. /\ DOMAIN rows = DOMAIN ts /\ Lists(ts, ReportedTenants(es, defs))
      /\ \A k \in DOMAIN ts : rows[k].rankValue \in Int /\ \E rules : IsTenantRow(rows[k], ts[k], es, defs, m, rules)
  BY DEF ListsTenants
<1>4. SumFunctionOnSet(c, DOMAIN rows) > 0
  <2>1. SumFunction(c) = MetricValue(m, es)
    BY <1>1, <1>2, TenantsAddUp
  <2>2. SumFunction(c) = SumFunctionOnSet(c, DOMAIN rows)
    BY <1>2 DEF SumFunction, RankColumn
  <2>3. QED
    BY <1>1, <2>1, <2>2
<1>5. PICK D : D = DOMAIN rows
  OBVIOUS
<1>6. IsFiniteSet(D)
  <2>1. PICK n : n = Cardinality(ReportedTenants(es, defs))
    OBVIOUS
  <2>2. DOMAIN ts = 1..n /\ n \in Nat
    BY <1>3, <2>1, ListedAll
  <2>3. IsFiniteSet(1..n)
    BY <2>2, FS_Interval
  <2>4. QED
    BY <1>3, <1>5, <2>2, <2>3
<1>7. \A k \in D : c[k] \in Int
  BY <1>2, <1>3, <1>5 DEF RankColumn
<1>8. PICK k \in D : c[k] > 0
  BY <1>4, <1>5, <1>6, <1>7, SumAboveZero
<1>9. PICK rules : IsTenantRow(rows[k], ts[k], es, defs, m, rules)
  BY <1>3, <1>5, <1>8
<1>10. PICK r, g, P : r = rows[k] /\ g = r.figures /\ P = OfTenant(es, ts[k])
  OBVIOUS
<1>11. g = Figures(Restrict(es, P)) /\ r.rankValue = Total(m, es, P) /\ P \in SUBSET DOMAIN es
  BY <1>9, <1>10 DEF IsTenantRow, OfTenant
<1>12. r.rankValue > 0
  BY <1>2, <1>5, <1>8, <1>10 DEF RankColumn
<1>13. \E j \in P : es[j].stats[m] # None
  BY <1>1, <1>11, <1>12, UnmeasuredIsZero
<1>14. g.observed[m]
  BY <1>1, <1>11, <1>13, FiguresAre
<1>15. QED
  BY <1>5, <1>8, <1>10, <1>12, <1>14

--------------------------------------------------------------------------------
(* A report on telemetry.                                                  *)

(* What a line is read as has an identity, a time and its figures.         *)
LEMMA LogLineTyped ==
  ASSUME NEW l \in LogLines, NEW defs \in DefinitionLists, NEW e, e = ReadLogLine(l, defs), e # None
  PROVE  IsExecution(e)
<1>1. /\ IsFiniteSet(DOMAIN defs)
      /\ \A k \in DOMAIN defs : {defs[k].tenant, defs[k].file, defs[k].group, defs[k].name} \subseteq Int
  BY ReportAssumption, TypesAssumption
<1>2. l.kind # "malformed" /\ None \notin {l.tenant, l.expr, l.ts} /\ Lookup(defs, l.tenant, l.expr) # None
      /\ e = ExecutionOf(l, Lookup(defs, l.tenant, l.expr))
  BY DEF ReadLogLine
<1>3. PICK k \in DOMAIN defs : e = ExecutionOf(l, defs[k])
  BY <1>1, <1>2, LookupFinds
<1>4. {l.tenant, l.ts} \subseteq Int \cup {None} /\ l.stats \in [Stats -> Int \cup {None}]
  BY <1>2, TypesAssumption
<1>5. l.tenant \in Int /\ l.ts \in Int
  BY <1>2, <1>4
<1>6. /\ e.tenant = l.tenant /\ e.ts = l.ts /\ e.stats = [l.stats EXCEPT !["samples"] = None]
      /\ e.file = defs[k].file /\ e.group = defs[k].group /\ e.name = defs[k].name
  BY <1>3 DEF ExecutionOf
<1>7. \A s \in Stats : e.stats[s] \in Int \cup {None}
  BY <1>4, <1>6
<1>8. QED
  BY <1>1, <1>5, <1>6, <1>7 DEF IsExecution, IsRule

(* A line of an ndjson file does so, too.                                  *)
LEMMA JSONLineTyped ==
  ASSUME NEW l \in JSONLines, NEW e, e = ReadJSONLine(l), e # None
  PROVE  IsExecution(e)
<1>1. l.kind # "malformed" /\ None \notin {l.name, l.ts}
      /\ e = [tenant |-> l.tenant, file |-> l.file, group |-> l.group, name |-> l.name,
              ts |-> l.ts, expr |-> None, stats |-> l.stats]
  BY DEF ReadJSONLine
<1>2. /\ {l.tenant, l.ts} \subseteq Int \cup {None} /\ l.stats \in [Stats -> Int \cup {None}]
      /\ {l.tenant, l.file, l.group} \subseteq Int /\ l.name \in Int \cup {None}
  BY <1>1, TypesAssumption
<1>3. l.tenant \in Int /\ l.file \in Int /\ l.group \in Int /\ l.name \in Int /\ l.ts \in Int
  BY <1>1, <1>2
<1>4. \A s \in Stats : l.stats[s] \in Int \cup {None}
  BY <1>2
<1>5. e.tenant = l.tenant /\ e.file = l.file /\ e.group = l.group /\ e.name = l.name /\ e.ts = l.ts /\ e.stats = l.stats
  BY <1>1
<1>6. QED
  BY <1>3, <1>4, <1>5 DEF IsExecution, IsRule

(* The executions a report on telemetry is made of.                        *)
Counted == Restrict(executions, {k \in DOMAIN executions : InWindow(executions[k])})

(* What holds of a report on telemetry: every line read is an execution or *)
(* a read error, and what is rendered is the aggregate of the executions.  *)
ReadInv ==
    source # "metrics" =>
        /\ main # "querying" /\ readErrs \in Nat /\ Len(lines) = Len(executions) + readErrs
        /\ \A k \in DOMAIN executions : IsExecution(executions[k])
        /\ main = "rendered" =>
            /\ definitions \in DefinitionLists
            /\ report.agg = Aggregate(Counted, definitions) /\ report.skipped = readErrs

(* A step that reads nothing and renders nothing preserves ReadInv.        *)
LEMMA ReadStays ==
  ASSUME ReadInv, source' = source, lines' = lines, executions' = executions, readErrs' = readErrs,
         main' # "querying" \/ main' = main, main' # "rendered"
  PROVE  ReadInv'
BY DEF ReadInv

(* ReadLine preserves ReadInv: an execution or a read error.               *)
LEMMA ReadLineAdds ==
  ASSUME LogInv, ReadInv, NEW l \in (IF source = "mimirlogs" THEN LogLines ELSE JSONLines), ReadLine(l)
  PROVE  ReadInv'
<1>1. SUFFICES ASSUME source # "metrics" PROVE ReadInv'
  BY DEF ReadInv, ReadLine
<1>2. main = "reading" /\ main' = main /\ source' = source /\ lines' = Append(lines, l) /\ definitions' = definitions
  BY DEF ReadLine
<1>3. PICK e, es, ls : /\ e = IF source = "mimirlogs" THEN ReadLogLine(l, definitions) ELSE ReadJSONLine(l)
                       /\ es = executions /\ ls = lines
  OBVIOUS
<1>4. IF e = None THEN readErrs' = readErrs + 1 /\ executions' = es
                  ELSE executions' = Append(es, e) /\ readErrs' = readErrs
  BY <1>3 DEF ReadLine
<1>5. readErrs \in Nat /\ Len(ls) = Len(es) + readErrs /\ \A k \in DOMAIN es : IsExecution(es[k])
  BY <1>1, <1>3 DEF ReadInv
<1>6. IsASeq(es) /\ IsASeq(ls) /\ definitions \in DefinitionLists
  BY <1>2, <1>3 DEF LogInv
<1>7. Len(lines') = Len(ls) + 1 /\ Len(es) \in Nat
  <2>1. Grown(ls, Append(ls, l), l)
    BY <1>6, AppendGrows
  <2>2. QED
    BY <1>2, <1>3, <1>6, <2>1 DEF Grown, IsASeq
<1>8. CASE e = None
  <2>1. readErrs' = readErrs + 1 /\ executions' = es
    BY <1>4, <1>8
  <2>2. readErrs' \in Nat /\ Len(lines') = Len(executions') + readErrs'
    BY <1>5, <1>7, <2>1
  <2>3. \A k \in DOMAIN executions' : IsExecution(executions'[k])
    BY <1>5, <2>1
  <2>4. QED
    BY <1>2, <2>2, <2>3 DEF ReadInv
<1>9. CASE e # None
  <2>1. readErrs' = readErrs /\ executions' = Append(es, e)
    BY <1>4, <1>9
  <2>2. PICK fs : fs = executions'
    OBVIOUS
  <2>3. IsASeq(fs) /\ Grown(es, fs, e)
    BY <1>6, <2>1, <2>2, AppendGrows
  <2>4. Len(fs) = Len(es) + 1
    BY <2>3 DEF Grown
  <2>5. readErrs' \in Nat /\ Len(lines') = Len(executions') + readErrs'
    BY <1>5, <1>7, <2>1, <2>2, <2>4
  <2>6. IsExecution(e)
    <3>1. CASE source = "mimirlogs"
      <4>1. l \in LogLines /\ e = ReadLogLine(l, definitions)
        BY <1>3, <3>1
      <4>2. QED
        BY <1>6, <1>9, <4>1, LogLineTyped
    <3>2. CASE source # "mimirlogs"
      <4>1. l \in JSONLines /\ e = ReadJSONLine(l)
        BY <1>3, <3>2
      <4>2. QED
        BY <1>9, <4>1, JSONLineTyped
    <3>3. QED
      BY <3>1, <3>2
  <2>7. \A k \in DOMAIN fs : IsExecution(fs[k])
    <3>1. SUFFICES ASSUME NEW k \in DOMAIN fs PROVE IsExecution(fs[k])
      OBVIOUS
    <3>2. CASE k \in DOMAIN es
      BY <1>5, <2>3, <3>2 DEF Grown
    <3>3. CASE k \notin DOMAIN es
      <4>1. k = Len(fs)
        BY <1>6, <2>3, <3>3 DEF Grown, IsASeq
      <4>2. QED
        BY <2>3, <2>6, <4>1 DEF Grown
    <3>4. QED
      BY <3>2, <3>3
  <2>8. QED
    BY <1>2, <2>2, <2>5, <2>7 DEF ReadInv
<1>10. QED
  BY <1>8, <1>9

(* ReadInv holds throughout a report.                                      *)
THEOREM ReadInductive == Spec => []ReadInv
<1>1. Init => ReadInv
  <2>1. SUFFICES ASSUME Init PROVE ReadInv
    OBVIOUS
  <2>2. lines = <<>> /\ executions = <<>> /\ readErrs = 0 /\ (source # "metrics" => main = "loading")
    BY <2>1 DEF Init
  <2>3. Len(<<>>) = 0 /\ DOMAIN <<>> = {}
    OBVIOUS
  <2>4. QED
    BY <2>2, <2>3 DEF ReadInv
<1>2. LogInv /\ ReadInv /\ [Next]_vars => ReadInv'
  <2>1. SUFFICES ASSUME LogInv, ReadInv, [Next]_vars PROVE ReadInv'
    OBVIOUS
  <2>2. CASE Fail
    BY <2>1, <2>2, ReadStays DEF Fail
  <2>3. CASE LoadDefinitions
    BY <2>1, <2>3, ReadStays DEF LoadDefinitions
  <2>4. ASSUME NEW l \in (IF source = "mimirlogs" THEN LogLines ELSE JSONLines), ReadLine(l) PROVE ReadInv'
    BY <2>1, <2>4, ReadLineAdds
  <2>5. CASE StrictFails
    BY <2>1, <2>5, ReadStays DEF StrictFails
  <2>6. CASE RenderLog
    <3>1. /\ main = "reading" /\ main' = "rendered" /\ source' = source /\ cutoff' = cutoff
          /\ definitions' = definitions /\ lines' = lines /\ executions' = executions /\ readErrs' = readErrs
      BY <2>6 DEF RenderLog
    <3>2. PICK es, r : es = Counted /\ r = report'
      OBVIOUS
    <3>3. r = [agg |-> Aggregate(es, definitions), observedRange |-> ObservedRange(es), skipped |-> readErrs]
      BY <2>6, <3>2 DEF RenderLog, Counted
    <3>4. r.agg = Aggregate(es, definitions) /\ r.skipped = readErrs
      BY <3>3
    <3>5. Counted' = es
      BY <3>1, <3>2 DEF Counted, InWindow
    <3>6. definitions \in DefinitionLists
      BY <2>1, <3>1 DEF LogInv
    <3>7. report'.agg = Aggregate(Counted', definitions') /\ report'.skipped = readErrs'
      BY <3>1, <3>2, <3>4, <3>5
    <3>8. QED
      BY <2>1, <3>1, <3>6, <3>7 DEF ReadInv
  <2>7. CASE Query
    BY <2>1, <2>7 DEF Query, ReadInv
  <2>8. CASE QueryFails
    BY <2>1, <2>8, ReadStays DEF QueryFails
  <2>9. CASE RenderMetrics
    BY <2>1, <2>9 DEF RenderMetrics, ReadInv
  <2>10. CASE UNCHANGED vars
    BY <2>1, <2>10 DEF vars, ReadInv, Counted, InWindow
  <2>11. QED
    BY <2>1, <2>2, <2>3, <2>4, <2>5, <2>6, <2>7, <2>8, <2>9, <2>10 DEF Next
<1>3. QED
  BY <1>1, <1>2, LogInductive, PTL DEF Spec

(* A report on telemetry, as AggregateIs describes it.                     *)
LEMMA LogReport ==
  ASSUME LogInv, ReadInv, ByLog, NEW es, es = Counted, NEW defs, defs = definitions, NEW m, m = PickRankMetric(es)
  PROVE  /\ None \notin Int /\ AreExecutions(es) /\ AreDefinitions(defs)
         /\ DOMAIN es = Window /\ (\A k \in Window : es[k] = executions[k])
         /\ m \in Metrics /\ Agg.rankMetric = m /\ Agg.granularity = "rule" /\ Agg.total = Cardinality(Window)
         /\ report.skipped = readErrs
         /\ Len(Rows) = Cardinality(ReportedTenants(es, defs))
         /\ \E ts : ListsTenants(Rows, ts, es, defs, m)
         /\ Len(Agg.unmatched) = Cardinality(Strays(es, defs))
         /\ \E pos : Lists(pos, Strays(es, defs)) /\ DOMAIN Agg.unmatched = DOMAIN pos
                     /\ \A k \in DOMAIN pos : Agg.unmatched[k] = es[pos[k]]
<1>1. /\ main = "rendered" /\ source # "metrics" /\ definitions \in DefinitionLists
      /\ report.agg = Aggregate(es, defs) /\ report.skipped = readErrs
      /\ \A k \in DOMAIN executions : IsExecution(executions[k])
  BY DEF ByLog, ReadInv
<1>2. None \notin Int
  BY TypesAssumption
<1>3. AreDefinitions(defs)
  BY <1>1, ReportAssumption, TypesAssumption DEF AreDefinitions, IsRule
<1>4. DOMAIN es = Window /\ \A k \in Window : es[k] = executions[k]
  <2>1. {k \in DOMAIN executions : InWindow(executions[k])} = Window
    <3>1. \A k \in DOMAIN executions : InWindow(executions[k]) <=> (cutoff # None => executions[k].ts >= cutoff)
      BY DEF InWindow
    <3>2. QED
      BY <3>1 DEF Window
  <2>2. es = Restrict(executions, Window)
    BY <2>1 DEF Counted
  <2>3. QED
    BY <2>2, RestrictIs
<1>5. AreExecutions(es)
  <2>1. IsASeq(executions)
    BY DEF LogInv
  <2>2. DOMAIN executions = 1..Len(executions) /\ Len(executions) \in Nat
    BY <2>1 DEF IsASeq
  <2>3. IsFiniteSet(1..Len(executions))
    BY <2>2, FS_Interval
  <2>4. Window \subseteq 1..Len(executions)
    BY <2>2 DEF Window
  <2>5. IsFiniteSet(Window) /\ Window \subseteq Int
    <3>1. PICK W, n : W = Window /\ n = Len(executions)
      OBVIOUS
    <3>2. n \in Nat /\ IsFiniteSet(1..n) /\ W \subseteq 1..n
      BY <2>2, <2>3, <2>4, <3>1
    <3>3. IsFiniteSet(W)
      BY <3>2, FS_Subset
    <3>4. W \subseteq Int
      BY <3>2
    <3>5. QED
      BY <3>1, <3>3, <3>4
  <2>6. \A k \in Window : IsExecution(es[k])
    BY <1>1, <1>4 DEF Window
  <2>7. QED
    BY <1>4, <2>5, <2>6 DEF AreExecutions
<1>6. PICK agg, T, U : agg = Agg /\ T = ReportedTenants(es, defs) /\ U = Strays(es, defs)
  OBVIOUS
<1>7. agg = Aggregate(es, defs)
  BY <1>1, <1>6 DEF Agg
<1>8. /\ m \in Metrics /\ agg.rankMetric = m /\ agg.granularity = "rule" /\ agg.total = Cardinality(DOMAIN es)
      /\ Len(agg.tenants) = Cardinality(T)
      /\ \E ts : ListsTenants(agg.tenants, ts, es, defs, m)
      /\ Len(agg.unmatched) = Cardinality(U)
      /\ \E pos : Lists(pos, U) /\ DOMAIN agg.unmatched = DOMAIN pos
                  /\ \A k \in DOMAIN pos : agg.unmatched[k] = es[pos[k]]
  BY <1>2, <1>3, <1>5, <1>6, <1>7, AggregateIs
<1>9. QED
  BY <1>1, <1>2, <1>3, <1>4, <1>5, <1>6, <1>8 DEF Rows

(* A report on telemetry counts every execution once.                      *)
LEMMA LogCountsOnce ==
  ASSUME LogInv, ReadInv, ByLog
  PROVE  /\ Agg.total = Cardinality(Window)
         /\ SumOver(Rows, LAMBDA r : r.figures.executions) = Agg.total
         /\ SumOver(Rows, LAMBDA r : r.unmatchedExecutions) = Len(Agg.unmatched)
         /\ \A r \in Range(Rows) : TenantAddsUp(r) /\ GroupsHoldTheRules(r)
<1>1. PICK es, defs, m : es = Counted /\ defs = definitions /\ m = PickRankMetric(es)
  OBVIOUS
<1>2. /\ None \notin Int /\ AreExecutions(es) /\ DOMAIN es = Window /\ m \in Metrics
      /\ Agg.total = Cardinality(Window) /\ Len(Agg.unmatched) = Cardinality(Strays(es, defs))
  BY <1>1, LogReport
<1>3. PICK ts : ListsTenants(Rows, ts, es, defs, m)
  BY <1>1, LogReport
<1>4. PICK pos : Lists(pos, Strays(es, defs)) /\ DOMAIN Agg.unmatched = DOMAIN pos
                 /\ \A k \in DOMAIN pos : Agg.unmatched[k] = es[pos[k]]
  BY <1>1, LogReport
<1>5. /\ SumFunction(ExecutionColumn(Rows)) = Cardinality(DOMAIN es)
      /\ SumFunction(UnmatchedColumn(Rows)) = Cardinality(Strays(es, defs))
  BY <1>2, <1>3, TenantsAddUp
<1>6. SumOver(Rows, LAMBDA r : r.figures.executions) = Agg.total
  BY <1>2, <1>5 DEF SumOver, ExecutionColumn
<1>7. SumOver(Rows, LAMBDA r : r.unmatchedExecutions) = Len(Agg.unmatched)
  BY <1>2, <1>5 DEF SumOver, UnmatchedColumn
<1>8. ASSUME NEW r \in Range(Rows) PROVE TenantAddsUp(r) /\ GroupsHoldTheRules(r)
  <2>1. PICK t, rules : IsTenantRow(r, t, es, defs, m, rules)
    BY <1>3, <1>8 DEF ListsTenants, Range
  <2>2. TenantAddsUp(r)
    BY <1>2, <1>4, <2>1, TenantIsItsRules
  <2>3. GroupsHoldTheRules(r)
    BY <1>2, <2>1, RulesInTheirGroups
  <2>4. QED
    BY <2>2, <2>3
<1>9. QED
  BY <1>2, <1>6, <1>7, <1>8

(* It has a row for each tenant.                                           *)
LEMMA LogReportsTenants ==
  ASSUME LogInv, ReadInv, ByLog
  PROVE  RowForEach({d.tenant : d \in Range(definitions)} \cup {executions[k].tenant : k \in Window})
<1>1. PICK es, defs, m : es = Counted /\ defs = definitions /\ m = PickRankMetric(es)
  OBVIOUS
<1>2. PICK T : T = ReportedTenants(es, defs)
  OBVIOUS
<1>3. DOMAIN es = Window /\ (\A k \in Window : es[k] = executions[k]) /\ Len(Rows) = Cardinality(T)
  BY <1>1, <1>2, LogReport
<1>4. PICK ts : ListsTenants(Rows, ts, es, defs, m)
  BY <1>1, LogReport
<1>5. T = {d.tenant : d \in Range(definitions)} \cup {executions[k].tenant : k \in Window}
  BY <1>1, <1>2, <1>3 DEF ReportedTenants, Range
<1>6. Lists(ts, T) /\ DOMAIN Rows = DOMAIN ts /\ \A k \in DOMAIN ts : Rows[k].tenant = ts[k]
  BY <1>2, <1>4 DEF ListsTenants, IsTenantRow
<1>7. {ts[k] : k \in DOMAIN ts} = T
  BY <1>6, ListedAll
<1>8. {r.tenant : r \in Range(Rows)} = T
  BY <1>6, <1>7 DEF Range
<1>9. QED
  BY <1>3, <1>5, <1>8 DEF RowForEach

(* It flags as measured what was measured, and ranks by a figure of those. *)
LEMMA LogFlagsMeasured ==
  ASSUME LogInv, ReadInv, ByLog
  PROVE  /\ \A r \in Range(Rows) : \A s \in Stats :
            /\ r.figures.observed[s] <=> Seen(s, RunBy(r.tenant))
            /\ \A q \in Range(r.rules) : q.figures.observed[s] <=> Seen(s, RunOf(q.id))
         /\ Agg.rankMetric # "executions" =>
            \E r \in Range(Rows) : r.figures.observed[Agg.rankMetric] /\ r.rankValue > 0
<1>1. PICK es, defs, m : es = Counted /\ defs = definitions /\ m = PickRankMetric(es)
  OBVIOUS
<1>2. /\ None \notin Int /\ AreExecutions(es) /\ DOMAIN es = Window /\ (\A k \in Window : es[k] = executions[k])
      /\ m \in Metrics /\ Agg.rankMetric = m
  BY <1>1, LogReport
<1>3. PICK ts : ListsTenants(Rows, ts, es, defs, m)
  BY <1>1, LogReport
<1>4. /\ \A t : RunBy(t) = OfTenant(es, t) /\ \A id : RunOf(id) = OfRule(es, id)
      /\ \A K \in SUBSET Window : \A s \in Stats : Seen(s, K) <=> \E k \in K : es[k].stats[s] # None
  BY <1>2, StatIsMetric DEF RunBy, RunOf, OfTenant, OfRule, Seen
<1>5. ASSUME NEW r \in Range(Rows), NEW s \in Stats
      PROVE  /\ r.figures.observed[s] <=> Seen(s, RunBy(r.tenant))
             /\ \A q \in Range(r.rules) : q.figures.observed[s] <=> Seen(s, RunOf(q.id))
  <2>1. PICK t, rules : IsTenantRow(r, t, es, defs, m, rules)
    BY <1>3, <1>5 DEF ListsTenants, Range
  <2>2. PICK g, P : g = r.figures /\ P = OfTenant(es, t)
    OBVIOUS
  <2>3. g = Figures(Restrict(es, P)) /\ r.tenant = t
    BY <2>1, <2>2 DEF IsTenantRow
  <2>4. P \in SUBSET Window /\ P \in SUBSET DOMAIN es
    BY <1>2, <2>2 DEF OfTenant
  <2>5. g.observed[s] <=> \E k \in P : es[k].stats[s] # None
    BY <1>2, <2>3, <2>4, FiguresAre
  <2>6. r.figures.observed[s] <=> Seen(s, RunBy(r.tenant))
    BY <1>4, <2>2, <2>3, <2>4, <2>5
  <2>7. ASSUME NEW q \in Range(r.rules) PROVE q.figures.observed[s] <=> Seen(s, RunOf(q.id))
    <3>1. PICK list : ListsRows(r.rules, rules, list)
      BY <2>1 DEF IsTenantRow
    <3>2. PICK k \in DOMAIN list : q = rules[list[k]] /\ list[k] \in DOMAIN rules
      BY <2>7, <3>1, ListedAll DEF ListsRows, Range
    <3>3. PICK id, f, Q : id = list[k] /\ f = q.figures /\ Q = OfRule(es, id)
      OBVIOUS
    <3>4. q.id = id /\ f = Figures(Restrict(es, Q))
      BY <2>1, <3>2, <3>3 DEF IsTenantRow, IsRuleRow
    <3>5. Q \in SUBSET Window /\ Q \in SUBSET DOMAIN es
      BY <1>2, <3>3 DEF OfRule
    <3>6. f.observed[s] <=> \E j \in Q : es[j].stats[s] # None
      BY <1>2, <3>4, <3>5, FiguresAre
    <3>7. QED
      BY <1>4, <3>3, <3>4, <3>5, <3>6
  <2>8. QED
    BY <2>6, <2>7
<1>6. ASSUME Agg.rankMetric # "executions"
      PROVE  \E r \in Range(Rows) : r.figures.observed[Agg.rankMetric] /\ r.rankValue > 0
  <2>1. \E k \in DOMAIN Rows : Rows[k].figures.observed[m] /\ Rows[k].rankValue > 0
    BY <1>1, <1>2, <1>3, <1>6, RankIsMeasured
  <2>2. QED
    BY <1>2, <2>1 DEF Range
<1>7. QED
  BY <1>5, <1>6

--------------------------------------------------------------------------------
(* A report without telemetry: what three queries make of a tenant.        *)

(* What a query of the metrics path returned.                              *)
IsResult(res) ==
    /\ IsFiniteSet(DOMAIN res)
    /\ \A k \in DOMAIN res : /\ res[k].user \in Int \cup {None}
                             /\ res[k].pair.kind = "finite" => res[k].pair.number \in Int

(* The third query's samples are labelled with a rule group.               *)
HasGroups(res) == \A k \in DOMAIN res : res[k].label.file \in Int /\ res[k].label.group \in Int

(* The usable samples of a tenant, what they add up to, and the tenants    *)
(* that have any.                                                          *)
Own(res, t)  == {k \in DOMAIN res : Usable(res[k]) /\ res[k].user = t}
Numbers(res) == [k \in DOMAIN res |-> Float(res[k])]
Said(res, t) == SumFunctionOnSet(Numbers(res), Own(res, t))
UsersIn(res) == {res[k].user : k \in {j \in DOMAIN res : Usable(res[j])}}

(* A sample is usable if it is of a tenant and finite.                     *)
LEMMA UsableIs ==
  ASSUME None \notin Int, NEW res, IsResult(res), NEW k \in DOMAIN res
  PROVE  /\ Usable(res[k]) <=> res[k].user # None /\ res[k].pair.kind = "finite"
         /\ Usable(res[k]) => res[k].user \in Int /\ Numbers(res)[k] \in Int /\ Numbers(res)[k] = res[k].pair.number
<1>1. res[k].pair.kind = "finite" => Float(res[k]) = res[k].pair.number /\ res[k].pair.number \in Int
  BY DEF Float, IsResult
<1>2. res[k].pair.kind # "finite" => Float(res[k]) = None
  BY DEF Float
<1>3. Usable(res[k]) <=> res[k].user # None /\ res[k].pair.kind = "finite"
  BY <1>1, <1>2 DEF Usable
<1>4. res[k].user \in Int \cup {None}
  BY DEF IsResult
<1>5. QED
  BY <1>1, <1>3, <1>4 DEF Numbers

(* What was said of a tenant is a number, and nothing was said of a tenant *)
(* without a sample.                                                       *)
LEMMA SaidIs ==
  ASSUME None \notin Int, NEW res, IsResult(res), NEW t
  PROVE  /\ IsFiniteSet(Own(res, t)) /\ Own(res, t) \subseteq DOMAIN res
         /\ \A k \in Own(res, t) : Numbers(res)[k] \in Int
         /\ Said(res, t) \in Int
         /\ t \notin UsersIn(res) <=> Own(res, t) = {}
         /\ Own(res, t) = {} => Said(res, t) = 0
<1>1. PICK W, f : W = Own(res, t) /\ f = Numbers(res)
  OBVIOUS
<1>2. W \subseteq DOMAIN res
  BY <1>1 DEF Own
<1>3. IsFiniteSet(W)
  BY <1>2, FS_Subset DEF IsResult
<1>4. \A k \in W : f[k] \in Int
  BY <1>1, UsableIs DEF Own
<1>5. SumFunctionOnSet(f, W) \in Int
  BY <1>3, <1>4, SumType
<1>6. t \notin UsersIn(res) <=> W = {}
  BY <1>1 DEF UsersIn, Own
<1>7. W = {} => SumFunctionOnSet(f, W) = 0
  BY SumEmpty
<1>8. QED
  BY <1>1, <1>2, <1>3, <1>4, <1>5, <1>6, <1>7 DEF Said

(* b is the accumulator a and a tenant's samples of one more query.        *)
IsAdded(b, q, a, res, t) == b = AddSamples(q, a, Restrict(res, Own(res, t)))

(* The accumulators B are of the tenants of A and of the new samples.      *)
KeepsTenants(B, A, res) == DOMAIN B = DOMAIN A \cup UsersIn(res)

(* Merge keeps every tenant and adds those of the new samples, each with   *)
(* its own samples (mimirmetrics.Read).                                    *)
LEMMA MergeIs ==
  ASSUME NEW q, NEW A, NEW res, NEW B, B = Merge(q, A, res)
  PROVE  /\ KeepsTenants(B, A, res)
         /\ \A t \in DOMAIN B : IsAdded(B[t], q, AccumOf(t, A), res, t)
<1>1. PICK U, S : U = UsableOf(res) /\ S = {j \in DOMAIN res : Usable(res[j])}
  OBVIOUS
<1>2. DOMAIN U = S /\ \A k \in S : U[k] = res[k]
  BY <1>1, RestrictIs DEF UsableOf
<1>3. UsersOf(U) = UsersIn(res)
  BY <1>1, <1>2 DEF UsersOf, UsersIn
<1>4. B = Accumulate(q, A, U, DOMAIN A \cup UsersIn(res))
  BY <1>1, <1>3 DEF Merge
<1>5. ASSUME NEW t PROVE Restrict(U, {k \in DOMAIN U : U[k].user = t}) = Restrict(res, Own(res, t))
  <2>1. PICK V : V = {k \in DOMAIN U : U[k].user = t}
    OBVIOUS
  <2>2. V = Own(res, t)
    BY <1>1, <1>2, <2>1 DEF Own
  <2>3. \A k \in V : U[k] = res[k]
    BY <1>2, <2>1
  <2>4. [k \in V |-> U[k]] = [k \in V |-> res[k]]
    BY <2>3
  <2>5. QED
    BY <2>1, <2>2, <2>4 DEF Restrict
<1>6. QED
  BY <1>4, <1>5 DEF Accumulate, IsAdded, KeepsTenants

(* Adding the samples of a tenant up.                                      *)
LEMMA OwnSum ==
  ASSUME None \notin Int, NEW res, IsResult(res), NEW t, NEW W, W = Own(res, t), NEW own, own = Restrict(res, W)
  PROVE  SumFunction([k \in W |-> Float(own[k])]) = Said(res, t)
<1>1. DOMAIN own = W /\ \A k \in W : own[k] = res[k]
  BY RestrictIs
<1>2. IsFiniteSet(W) /\ W \subseteq DOMAIN res
  BY SaidIs
<1>3. PICK f : f = [k \in W |-> Float(own[k])]
  OBVIOUS
<1>4. DOMAIN f = W /\ \A k \in W : f[k] = Numbers(res)[k]
  BY <1>1, <1>2, <1>3 DEF Numbers
<1>5. SumFunctionOnSet(f, W) = SumFunctionOnSet(Numbers(res), W)
  BY <1>2, <1>4, SumAgree
<1>6. QED
  BY <1>3, <1>4, <1>5 DEF Said, SumFunction

(* a has the fields of an accumulator.                                     *)
IsAccum(a) == DOMAIN a = {"duration", "observed", "evaluations", "groups"}

(* What one more query makes of a tenant's accumulator.                    *)
LEMMA DurationAdded ==
  ASSUME None \notin Int, NEW res, IsResult(res), NEW t, NEW a, IsAccum(a),
         NEW b, IsAdded(b, "duration", a, res, t)
  PROVE  /\ IsAccum(b) /\ b.duration = a.duration + Said(res, t)
         /\ b.observed <=> (a.observed \/ Own(res, t) # {})
         /\ b.evaluations = a.evaluations /\ b.groups = a.groups
<1>1. PICK W, own, x : W = Own(res, t) /\ own = Restrict(res, W) /\ x = SumFunction([k \in W |-> Float(own[k])])
  OBVIOUS
<1>2. DOMAIN own = W /\ \A k \in W : own[k] = res[k]
  BY <1>1, RestrictIs
<1>3. b = [a EXCEPT !.duration = @ + x, !.observed = @ \/ W # {}]
  BY <1>1, <1>2 DEF AddSamples, IsAdded
<1>4. x = Said(res, t)
  BY <1>1, OwnSum
<1>5. QED
  BY <1>1, <1>3, <1>4 DEF IsAccum

(* The second query adds evaluations,                                      *)
LEMMA CountAdded ==
  ASSUME None \notin Int, NEW res, IsResult(res), NEW t, NEW a, IsAccum(a),
         NEW b, IsAdded(b, "count", a, res, t)
  PROVE  /\ IsAccum(b) /\ b.evaluations = a.evaluations + Said(res, t)
         /\ b.duration = a.duration /\ b.observed = a.observed /\ b.groups = a.groups
<1>1. PICK W, own, x : W = Own(res, t) /\ own = Restrict(res, W) /\ x = SumFunction([k \in W |-> Float(own[k])])
  OBVIOUS
<1>2. DOMAIN own = W /\ \A k \in W : own[k] = res[k]
  BY <1>1, RestrictIs
<1>3. b = [a EXCEPT !.evaluations = @ + x]
  BY <1>1, <1>2 DEF AddSamples, IsAdded
<1>4. x = Said(res, t)
  BY <1>1, OwnSum
<1>5. QED
  BY <1>1, <1>3, <1>4 DEF IsAccum
(* and the third splits what it says of a tenant by rule group.            *)
LEMMA GroupsAdded ==
  ASSUME None \notin Int, NEW res, IsResult(res), HasGroups(res), NEW t,
         NEW a, IsAccum(a), a.groups = <<>>,
         NEW b, IsAdded(b, "groups", a, res, t)
  PROVE  /\ IsAccum(b) /\ b.duration = a.duration /\ b.observed = a.observed /\ b.evaluations = a.evaluations
         /\ IsFiniteSet(DOMAIN b.groups) /\ DOMAIN b.groups \subseteq Int \X Int
         /\ \A g \in DOMAIN b.groups : b.groups[g] \in Int
         /\ SumFunctionOnSet(b.groups, DOMAIN b.groups) = Said(res, t)
<1>1. PICK W, own, key, T : /\ W = Own(res, t) /\ own = Restrict(res, W)
                            /\ key = [k \in W |-> SplitRuleGroup(own[k].label)] /\ T = {key[k] : k \in W}
  OBVIOUS
<1>2. DOMAIN own = W /\ \A k \in W : own[k] = res[k]
  BY <1>1, RestrictIs
<1>3. IsFiniteSet(W) /\ W \subseteq DOMAIN res /\ \A k \in W : Numbers(res)[k] \in Int
  BY <1>1, SaidIs
<1>4. \A k \in W : key[k] = SplitRuleGroup(own[k].label)
  BY <1>1
<1>5. \A k \in W : key[k] \in Int \X Int
  <2>1. ASSUME NEW k \in W PROVE key[k] \in Int \X Int
    <3>1. PICK f, g : f = res[k].label.file /\ g = res[k].label.group
      OBVIOUS
    <3>2. f \in Int /\ g \in Int
      BY <1>3, <2>1, <3>1 DEF HasGroups
    <3>3. key[k] = <<f, g>>
      BY <1>2, <1>4, <2>1, <3>1 DEF SplitRuleGroup
    <3>4. QED
      BY <3>2, <3>3
  <2>2. QED
    BY <2>1
<1>6. IsFiniteSet(T) /\ T \subseteq Int \X Int /\ \A k \in W : key[k] \in T
  BY <1>1, <1>3, <1>5, ImageFinite
<1>7. PICK h : h = [g \in DOMAIN a.groups \cup {SplitRuleGroup(own[k].label) : k \in W} |->
                        (IF g \in DOMAIN a.groups THEN a.groups[g] ELSE 0)
                            + SumFunction([k \in {j \in W : SplitRuleGroup(own[j].label) = g} |-> Float(own[k])])]
  OBVIOUS
<1>8. b = [a EXCEPT !.groups = h]
  BY <1>1, <1>2, <1>7 DEF AddSamples, IsAdded
<1>9. DOMAIN a.groups = {}
  OBVIOUS
<1>10. {SplitRuleGroup(own[k].label) : k \in W} = T
  BY <1>1, <1>4
<1>11. DOMAIN h = T
  BY <1>7, <1>9, <1>10
<1>12. ASSUME NEW g \in T
       PROVE  /\ h[g] = SumFunctionOnSet(Numbers(res), Class(W, key, g)) /\ h[g] \in Int
  <2>1. PICK V : V = {j \in W : SplitRuleGroup(own[j].label) = g}
    OBVIOUS
  <2>2. V = Class(W, key, g) /\ V \subseteq W
    BY <1>4, <2>1 DEF Class
  <2>3. IsFiniteSet(V)
    BY <1>3, <2>2, FS_Subset
  <2>4. PICK f : f = [k \in V |-> Float(own[k])]
    OBVIOUS
  <2>5. h[g] = 0 + SumFunction(f)
    BY <1>7, <1>9, <1>10, <2>1, <2>4
  <2>6. DOMAIN f = V /\ \A k \in V : f[k] = Numbers(res)[k]
    BY <1>2, <1>3, <2>2, <2>4 DEF Numbers
  <2>7. SumFunctionOnSet(f, V) = SumFunctionOnSet(Numbers(res), V)
    BY <2>3, <2>6, SumAgree
  <2>8. SumFunctionOnSet(Numbers(res), V) \in Int
    BY <1>3, <2>2, <2>3, SumType
  <2>9. SumFunction(f) = SumFunctionOnSet(f, V)
    BY <2>6 DEF SumFunction
  <2>10. QED
    BY <2>2, <2>5, <2>7, <2>8, <2>9
<1>13. SumFunctionOnSet(h, T) = SumFunctionOnSet(Numbers(res), W)
  <2>1. PICK f : f = Numbers(res)
    OBVIOUS
  <2>2. IsFiniteSet(W) /\ (\A k \in W : f[k] \in Int) /\ IsFiniteSet(T) /\ \A k \in W : key[k] \in T
    BY <1>3, <1>6, <2>1
  <2>3. \A g \in T : h[g] = SumFunctionOnSet(f, Class(W, key, g))
    BY <1>12, <2>1
  <2>4. SumFunctionOnSet(h, T) = SumFunctionOnSet(f, W)
    BY <2>2, <2>3, SumByKey
  <2>5. QED
    BY <2>1, <2>4
<1>14. /\ IsAccum(b) /\ b.groups = h
       /\ b.duration = a.duration /\ b.observed = a.observed /\ b.evaluations = a.evaluations
  BY <1>8 DEF IsAccum
<1>15. QED
  BY <1>1, <1>6, <1>11, <1>12, <1>13, <1>14 DEF Said

(* What the responses so far said of a tenant, by query.                   *)
Told(rs, k, t) == IF k \in DOMAIN rs THEN Said(rs[k].result, t) ELSE 0
WasTimed(rs, t) == 1 \in DOMAIN rs /\ Own(rs[1].result, t) # {}

(* a is what the responses so far make of a tenant.                        *)
AccumIs(a, t, rs) ==
    /\ IsAccum(a)
    /\ a.duration = Told(rs, 1, t) /\ a.evaluations = Told(rs, 2, t)
    /\ a.observed <=> WasTimed(rs, t)
    /\ IsFiniteSet(DOMAIN a.groups) /\ DOMAIN a.groups \subseteq Int \X Int
    /\ \A g \in DOMAIN a.groups : a.groups[g] \in Int
    /\ SumFunctionOnSet(a.groups, DOMAIN a.groups) = Told(rs, 3, t)
    /\ 3 \notin DOMAIN rs => a.groups = <<>>

(* One accumulator for each tenant that a response mentions, and no other. *)
AccumsAre(A, rs) ==
    /\ DOMAIN A = UNION {UsersIn(rs[k].result) : k \in DOMAIN rs}
    /\ \A t \in DOMAIN A : AccumIs(A[t], t, rs)

(* A tenant that no response has mentioned yet has a new accumulator.      *)
LEMMA AccumOfTenant ==
  ASSUME None \notin Int, NEW rs, \A k \in DOMAIN rs : IsResult(rs[k].result), NEW A, AccumsAre(A, rs), NEW t
  PROVE  AccumIs(AccumOf(t, A), t, rs)
<1>1. CASE t \in DOMAIN A
  BY <1>1 DEF AccumsAre, AccumOf
<1>2. CASE t \notin DOMAIN A
  <2>1. PICK a : a = NewAccum
    OBVIOUS
  <2>2. AccumOf(t, A) = a
    BY <1>2, <2>1 DEF AccumOf
  <2>3. \A k \in DOMAIN rs : t \notin UsersIn(rs[k].result)
    BY <1>2 DEF AccumsAre
  <2>4. \A k \in DOMAIN rs : Own(rs[k].result, t) = {} /\ Said(rs[k].result, t) = 0
    BY <2>3, SaidIs
  <2>5. /\ IsAccum(a)
        /\ a.duration = 0 /\ a.evaluations = 0 /\ ~a.observed /\ a.groups = <<>>
    BY <2>1 DEF NewAccum, IsAccum
  <2>6. DOMAIN a.groups = {}
    BY <2>5
  <2>7. IsFiniteSet({}) /\ SumFunctionOnSet(a.groups, {}) = 0
    BY FS_EmptySet, SumEmpty
  <2>8. Told(rs, 1, t) = 0 /\ Told(rs, 2, t) = 0 /\ Told(rs, 3, t) = 0 /\ ~WasTimed(rs, t)
    BY <2>4 DEF Told, WasTimed
  <2>9. IsFiniteSet(DOMAIN a.groups) /\ DOMAIN a.groups \subseteq Int \X Int /\ \A g \in DOMAIN a.groups : a.groups[g] \in Int
    BY <2>6, <2>7
  <2>10. SumFunctionOnSet(a.groups, DOMAIN a.groups) = Told(rs, 3, t)
    BY <2>6, <2>7, <2>8
  <2>11. AccumIs(a, t, rs)
    BY <2>5, <2>8, <2>9, <2>10 DEF AccumIs
  <2>12. QED
    BY <2>2, <2>11
<1>3. QED
  BY <1>1, <1>2

(* The other responses than the n-th say the same.                         *)
TellElse(rs, bs, n, t) == \A k \in Int : k # n => Told(bs, k, t) = Told(rs, k, t)

(* One more response.                                                      *)
LEMMA OneMoreTold ==
  ASSUME NEW rs, IsASeq(rs), NEW bs, NEW resp, Grown(rs, bs, resp), NEW n \in Nat, n = Len(rs) + 1, NEW t
  PROVE  /\ DOMAIN rs = 1..n - 1 /\ DOMAIN bs = 1..n /\ n \in Nat /\ bs[n] = resp
         /\ TellElse(rs, bs, n, t)
         /\ Told(rs, n, t) = 0 /\ Told(bs, n, t) = Said(resp.result, t)
         /\ n # 1 => (WasTimed(bs, t) <=> WasTimed(rs, t))
         /\ n = 1 => (WasTimed(bs, t) <=> Own(resp.result, t) # {}) /\ ~WasTimed(rs, t)
<1>1. Len(rs) \in Nat /\ DOMAIN rs = 1..Len(rs)
  BY DEF IsASeq
<1>2. DOMAIN bs = 1..n /\ bs[n] = resp /\ \A k \in DOMAIN rs : bs[k] = rs[k]
  BY <1>1 DEF Grown
<1>3. DOMAIN rs = 1..n - 1 /\ n \in Nat /\ n >= 1
  BY <1>1
<1>4. ASSUME NEW k \in Int, k # n PROVE k \in DOMAIN bs <=> k \in DOMAIN rs
  BY <1>2, <1>3, <1>4
<1>5. n \in DOMAIN bs /\ n \notin DOMAIN rs
  BY <1>2, <1>3
<1>6. TellElse(rs, bs, n, t)
  BY <1>2, <1>4 DEF Told, TellElse
<1>7. Told(rs, n, t) = 0 /\ Told(bs, n, t) = Said(resp.result, t)
  BY <1>2, <1>5 DEF Told
<1>8. n # 1 => (WasTimed(bs, t) <=> WasTimed(rs, t))
  BY <1>2, <1>4 DEF WasTimed
<1>9. n = 1 => (WasTimed(bs, t) <=> Own(resp.result, t) # {}) /\ ~WasTimed(rs, t)
  BY <1>2, <1>5 DEF WasTimed
<1>10. QED
  BY <1>2, <1>3, <1>6, <1>7, <1>8, <1>9

(* So a tenant's accumulator keeps up with the responses.                  *)
LEMMA AccumAdded ==
  ASSUME None \notin Int, NEW rs, IsASeq(rs), NEW n \in 1..3, n = Len(rs) + 1,
         NEW resp, IsResult(resp.result), n = 3 => HasGroups(resp.result), NEW bs, Grown(rs, bs, resp),
         NEW t, NEW a, AccumIs(a, t, rs), NEW b, IsAdded(b, Queries[n], a, resp.result, t)
  PROVE  AccumIs(b, t, bs)
<1>1. PICK res, x : res = resp.result /\ x = Said(res, t)
  OBVIOUS
<1>2. x \in Int
  BY <1>1, SaidIs
<1>3. /\ DOMAIN rs = 1..n - 1 /\ DOMAIN bs = 1..n
      /\ TellElse(rs, bs, n, t)
      /\ Told(rs, n, t) = 0 /\ Told(bs, n, t) = x
      /\ n # 1 => (WasTimed(bs, t) <=> WasTimed(rs, t))
      /\ n = 1 => (WasTimed(bs, t) <=> Own(res, t) # {}) /\ ~WasTimed(rs, t)
  <2>1. /\ DOMAIN rs = 1..n - 1 /\ DOMAIN bs = 1..n
        /\ TellElse(rs, bs, n, t)
        /\ Told(rs, n, t) = 0 /\ Told(bs, n, t) = Said(resp.result, t)
        /\ n # 1 => (WasTimed(bs, t) <=> WasTimed(rs, t))
        /\ n = 1 => (WasTimed(bs, t) <=> Own(resp.result, t) # {}) /\ ~WasTimed(rs, t)
    <3>1. n \in Nat
      OBVIOUS
    <3>2. DOMAIN rs = 1..n - 1 /\ DOMAIN bs = 1..n
      BY <3>1, OneMoreTold
    <3>3. TellElse(rs, bs, n, t)
      BY <3>1, OneMoreTold
    <3>4. Told(rs, n, t) = 0 /\ Told(bs, n, t) = Said(resp.result, t)
      BY <3>1, OneMoreTold
    <3>5. n # 1 => (WasTimed(bs, t) <=> WasTimed(rs, t))
      BY <3>1, OneMoreTold
    <3>6. n = 1 => (WasTimed(bs, t) <=> Own(resp.result, t) # {}) /\ ~WasTimed(rs, t)
      BY <3>1, OneMoreTold
    <3>7. QED
      BY <3>2, <3>4, <3>5, <3>6, <3>3
  <2>2. QED
    BY <1>1, <2>1
<1>4. CASE n = 1
  <2>1. IsAdded(b, "duration", a, res, t)
    BY <1>1, <1>4 DEF Queries
  <2>2. IsAccum(a)
    BY DEF AccumIs
  <2>3. /\ IsAccum(b) /\ b.duration = a.duration + x
        /\ b.observed <=> (a.observed \/ Own(res, t) # {})
        /\ b.evaluations = a.evaluations /\ b.groups = a.groups
    <3>1. IsResult(res)
      BY <1>1
    <3>2. IsAccum(b) /\ b.duration = a.duration + Said(res, t) /\ b.evaluations = a.evaluations /\ b.groups = a.groups
      BY <2>1, <2>2, <3>1, DurationAdded
    <3>3. b.observed <=> (a.observed \/ Own(res, t) # {})
      BY <2>1, <2>2, <3>1, DurationAdded, Zenon
    <3>4. QED
      BY <1>1, <3>2, <3>3
  <2>4. b.duration = x
    BY <1>2, <1>3, <1>4, <2>3 DEF AccumIs
  <2>5. b.observed <=> WasTimed(bs, t)
    BY <1>3, <1>4, <2>3, Zenon DEF AccumIs
  <2>6. Told(bs, 1, t) = x /\ Told(bs, 2, t) = Told(rs, 2, t) /\ Told(bs, 3, t) = Told(rs, 3, t) /\ 3 \notin DOMAIN rs
    BY <1>3, <1>4 DEF TellElse
  <2>7. QED
    BY <2>2, <2>3, <2>4, <2>5, <2>6 DEF AccumIs
<1>5. CASE n = 2
  <2>1. IsAdded(b, "count", a, res, t)
    BY <1>1, <1>5 DEF Queries
  <2>2. IsAccum(a)
    BY DEF AccumIs
  <2>3. /\ IsAccum(b) /\ b.evaluations = a.evaluations + x
        /\ b.duration = a.duration /\ b.observed = a.observed /\ b.groups = a.groups
    BY <1>1, <2>1, <2>2, CountAdded
  <2>4. b.evaluations = x
    BY <1>2, <1>3, <1>5, <2>3 DEF AccumIs
  <2>5. WasTimed(bs, t) <=> WasTimed(rs, t)
    BY <1>3, <1>5
  <2>6. Told(bs, 2, t) = x /\ Told(bs, 1, t) = Told(rs, 1, t) /\ Told(bs, 3, t) = Told(rs, 3, t) /\ 3 \notin DOMAIN rs
    BY <1>3, <1>5 DEF TellElse
  <2>7. b.observed <=> WasTimed(bs, t)
    BY <2>3, <2>5, Zenon DEF AccumIs
  <2>8. QED
    BY <2>2, <2>3, <2>4, <2>6, <2>7 DEF AccumIs
<1>6. CASE n = 3
  <2>1. IsAdded(b, "groups", a, res, t)
    BY <1>1, <1>6 DEF Queries
  <2>2. IsAccum(a) /\ 3 \notin DOMAIN rs /\ 3 \in DOMAIN bs
    BY <1>3, <1>6 DEF AccumIs
  <2>3. a.groups = <<>> /\ HasGroups(res) /\ IsResult(res)
    BY <1>1, <1>6, <2>2 DEF AccumIs
  <2>4. /\ IsAccum(b) /\ b.duration = a.duration /\ b.observed = a.observed /\ b.evaluations = a.evaluations
        /\ IsFiniteSet(DOMAIN b.groups) /\ DOMAIN b.groups \subseteq Int \X Int
        /\ \A g \in DOMAIN b.groups : b.groups[g] \in Int
        /\ SumFunctionOnSet(b.groups, DOMAIN b.groups) = x
    BY <1>1, <2>1, <2>2, <2>3, GroupsAdded
  <2>5. WasTimed(bs, t) <=> WasTimed(rs, t)
    BY <1>3, <1>6
  <2>6. Told(bs, 3, t) = x /\ Told(bs, 1, t) = Told(rs, 1, t) /\ Told(bs, 2, t) = Told(rs, 2, t)
    BY <1>3, <1>6 DEF TellElse
  <2>7. b.observed <=> WasTimed(bs, t)
    BY <2>4, <2>5, Zenon DEF AccumIs
  <2>8. QED
    BY <2>2, <2>4, <2>6, <2>7 DEF AccumIs
<1>7. QED
  BY <1>4, <1>5, <1>6

(* The next query keeps the accumulators in step with the responses.       *)
LEMMA MergeAdds ==
  ASSUME None \notin Int, NEW rs, IsASeq(rs), NEW n \in 1..3, n = Len(rs) + 1,
         \A k \in DOMAIN rs : IsResult(rs[k].result),
         NEW resp, IsResult(resp.result), n = 3 => HasGroups(resp.result), NEW bs, Grown(rs, bs, resp),
         NEW A, AccumsAre(A, rs), NEW B, B = Merge(Queries[n], A, resp.result)
  PROVE  AccumsAre(B, bs)
<1>1. PICK q, res : q = Queries[n] /\ res = resp.result
  OBVIOUS
<1>2. /\ DOMAIN B = DOMAIN A \cup UsersIn(res)
      /\ \A t \in DOMAIN B : IsAdded(B[t], q, AccumOf(t, A), res, t)
  <2>1. B = Merge(q, A, res)
    BY <1>1
  <2>2. KeepsTenants(B, A, res)
    BY <2>1, MergeIs
  <2>3. \A t \in DOMAIN B : IsAdded(B[t], q, AccumOf(t, A), res, t)
    BY <2>1, MergeIs
  <2>4. QED
    BY <2>2, <2>3 DEF KeepsTenants
<1>3. Len(rs) \in Nat /\ DOMAIN rs = 1..Len(rs)
  BY DEF IsASeq
<1>4. DOMAIN bs = DOMAIN rs \cup {n} /\ bs[n] = resp /\ \A k \in DOMAIN rs : bs[k] = rs[k]
  BY <1>3 DEF Grown
<1>5. UNION {UsersIn(bs[k].result) : k \in DOMAIN bs} = (UNION {UsersIn(rs[k].result) : k \in DOMAIN rs}) \cup UsersIn(res)
  BY <1>1, <1>4
<1>6. ASSUME NEW t \in DOMAIN B PROVE AccumIs(B[t], t, bs)
  <2>1. PICK a, b : a = AccumOf(t, A) /\ b = B[t]
    OBVIOUS
  <2>2. AccumIs(a, t, rs)
    BY <2>1, AccumOfTenant
  <2>3. IsAdded(b, Queries[n], a, resp.result, t)
    BY <1>1, <1>2, <1>6, <2>1
  <2>4. AccumIs(b, t, bs)
    BY <2>2, <2>3, AccumAdded
  <2>5. QED
    BY <2>1, <2>4
<1>7. DOMAIN A = UNION {UsersIn(rs[k].result) : k \in DOMAIN rs}
  BY DEF AccumsAre
<1>8. DOMAIN B = UNION {UsersIn(bs[k].result) : k \in DOMAIN bs}
  BY <1>2, <1>5, <1>7
<1>9. QED
  BY <1>6, <1>8 DEF AccumsAre

(* The responses so far are answers to the queries in their order.         *)
AreAnswers(rs) ==
    \A k \in DOMAIN rs : /\ IsResult(rs[k].result) /\ Instant(rs[k]).ok
                         /\ k = 3 => HasGroups(rs[k].result)

(* What holds of a report without telemetry: the accumulators hold what    *)
(* the responses so far said, and what is rendered is their aggregate.     *)
MetricsInv ==
    source = "metrics" =>
        /\ main \in {"querying", "failed", "rendered"} /\ IsASeq(asked) /\ Len(asked) \in 0..3
        /\ AreAnswers(asked) /\ AccumsAre(accums, asked)
        /\ main = "rendered" =>
            Len(asked) = 3 /\ report.agg = AggregateObservations(accums) /\ report.skipped = 0

(* What a response to a query gives is a result.                           *)
LEMMA AnswerIs ==
  ASSUME NEW n \in 1..3, NEW resp \in Answers[Queries[n]], Instant(resp).ok
  PROVE  IsResult(resp.result) /\ (n = 3 => HasGroups(resp.result)) /\ Instant(resp).samples = resp.result
<1>1. Queries[n] \in Range(Queries) /\ (n = 3 => Queries[n] = "groups")
  BY DEF Queries, Range
<1>2. IsResult(resp.result)
  BY <1>1, TypesAssumption DEF IsResult
<1>3. n = 3 => HasGroups(resp.result)
  BY <1>1, TypesAssumption DEF HasGroups
<1>4. Instant(resp).samples = resp.result
  BY DEF Instant
<1>5. QED
  BY <1>2, <1>3, <1>4

(* One more query.                                                         *)
LEMMA QueryAdds ==
  ASSUME MetricsInv, Query, source = "metrics"
  PROVE  MetricsInv'
<1>1. PICK n, q : n = Len(asked) + 1 /\ q = Queries[n]
  OBVIOUS
<1>2. /\ main = "querying" /\ main' = main /\ source' = source /\ Len(asked) < Len(Queries)
      /\ \E resp \in Answers[q] : Instant(resp).ok /\ asked' = Append(asked, resp)
                                 /\ accums' = Merge(q, accums, Instant(resp).samples)
  BY <1>1 DEF Query
<1>3. PICK resp \in Answers[q] : /\ Instant(resp).ok /\ asked' = Append(asked, resp)
                                 /\ accums' = Merge(q, accums, Instant(resp).samples)
  BY <1>2
<1>4. PICK rs, bs, A, B : rs = asked /\ bs = asked' /\ A = accums /\ B = accums'
  OBVIOUS
<1>5. IsASeq(rs) /\ AreAnswers(rs) /\ AccumsAre(A, rs)
  BY <1>4 DEF MetricsInv
<1>6. n \in 1..3
  <2>1. Len(asked) \in Nat
    BY DEF MetricsInv
  <2>2. Len(Queries) = 3
    BY DEF Queries
  <2>3. QED
    BY <1>1, <1>2, <2>1, <2>2
<1>7. IsResult(resp.result) /\ (n = 3 => HasGroups(resp.result)) /\ B = Merge(q, A, resp.result)
  BY <1>1, <1>3, <1>4, <1>6, AnswerIs
<1>8. bs = Append(rs, resp) /\ n = Len(rs) + 1 /\ Len(rs) \in Nat /\ DOMAIN rs = 1..Len(rs)
  BY <1>1, <1>3, <1>4, <1>5 DEF IsASeq
<1>9. IsASeq(bs) /\ Grown(rs, bs, resp)
  BY <1>5, <1>8, AppendGrows
<1>10. AccumsAre(B, bs)
  <2>1. \A k \in DOMAIN rs : IsResult(rs[k].result)
    BY <1>5 DEF AreAnswers
  <2>2. B = Merge(Queries[n], A, resp.result)
    BY <1>1, <1>7
  <2>3. QED
    BY <1>5, <1>6, <1>7, <1>8, <1>9, <2>1, <2>2, TypesAssumption, MergeAdds
<1>11. AreAnswers(bs) /\ Len(bs) = n
  <2>1. Len(bs) = n /\ DOMAIN bs = 1..n /\ bs[n] = resp /\ \A k \in DOMAIN rs : bs[k] = rs[k]
    BY <1>8, <1>9 DEF Grown
  <2>2. ASSUME NEW k \in DOMAIN bs
        PROVE  IsResult(bs[k].result) /\ Instant(bs[k]).ok /\ (k = 3 => HasGroups(bs[k].result))
    <3>1. CASE k = n
      BY <1>3, <1>7, <2>1, <3>1
    <3>2. CASE k # n
      <4>1. k \in DOMAIN rs
        BY <1>8, <2>1, <2>2, <3>2
      <4>2. bs[k] = rs[k]
        BY <2>1, <4>1
      <4>3. QED
        BY <1>5, <4>1, <4>2 DEF AreAnswers
    <3>3. QED
      BY <3>1, <3>2
  <2>3. QED
    BY <2>1, <2>2 DEF AreAnswers
<1>12. QED
  BY <1>2, <1>4, <1>6, <1>9, <1>10, <1>11 DEF MetricsInv

(* A step that asks nothing and renders nothing.                           *)
LEMMA AskingElsewhere ==
  ASSUME MetricsInv, source' = source, asked' = asked, accums' = accums,
         (main' = main /\ report' = report) \/ main' = "failed" \/ source # "metrics"
  PROVE  MetricsInv'
BY DEF MetricsInv

(* MetricsInv holds throughout a report.                                   *)
THEOREM MetricsInductive == Spec => []MetricsInv
<1>1. Init => MetricsInv
  <2>1. SUFFICES ASSUME Init, source = "metrics" PROVE MetricsInv
    BY DEF MetricsInv
  <2>2. main = "querying" /\ asked = <<>> /\ accums = <<>>
    BY <2>1 DEF Init
  <2>3. IsASeq(asked) /\ Len(asked) = 0 /\ DOMAIN asked = {}
    BY <2>2, NothingRead
  <2>4. AreAnswers(asked)
    BY <2>3 DEF AreAnswers
  <2>5. AccumsAre(accums, asked)
    <3>1. DOMAIN accums = {}
      BY <2>2
    <3>2. UNION {UsersIn(asked[k].result) : k \in DOMAIN asked} = {}
      BY <2>3
    <3>3. QED
      BY <3>1, <3>2 DEF AccumsAre
  <2>6. QED
    BY <2>1, <2>2, <2>3, <2>4, <2>5 DEF MetricsInv
<1>2. MetricsInv /\ [Next]_vars => MetricsInv'
  <2>1. SUFFICES ASSUME MetricsInv, [Next]_vars PROVE MetricsInv'
    OBVIOUS
  <2>2. CASE source # "metrics"
    <3>1. source' = source
      BY <2>1 DEF Next, vars, LoadDefinitions, Fail, ReadLine, StrictFails, RenderLog, Query, QueryFails, RenderMetrics
    <3>2. QED
      BY <2>2, <3>1 DEF MetricsInv
  <2>3. CASE source = "metrics"
    <3>1. main \notin {"loading", "reading"}
      BY <2>1, <2>3 DEF MetricsInv
    <3>2. \/ Query \/ QueryFails \/ RenderMetrics \/ UNCHANGED vars
      BY <2>1, <3>1 DEF Next, LoadDefinitions, Fail, ReadLine, StrictFails, RenderLog
    <3>3. CASE Query
      BY <2>1, <2>3, <3>3, QueryAdds
    <3>4. CASE QueryFails
      BY <2>1, <3>4, AskingElsewhere DEF QueryFails
    <3>5. CASE RenderMetrics
      <4>1. /\ main' = "rendered" /\ source' = source /\ asked' = asked /\ accums' = accums
            /\ Len(asked) = Len(Queries)
            /\ report' = [agg |-> AggregateObservations(accums), skipped |-> 0]
        BY <3>5 DEF RenderMetrics
      <4>2. Len(Queries) = 3
        BY DEF Queries
      <4>3. PICK g : g = AggregateObservations(accums)
        OBVIOUS
      <4>4. report'.agg = g /\ report'.skipped = 0 /\ AggregateObservations(accums)' = g
        BY <4>1, <4>3
      <4>5. QED
        BY <2>1, <2>3, <4>1, <4>2, <4>3, <4>4 DEF MetricsInv
    <3>6. CASE UNCHANGED vars
      BY <2>1, <3>6, AskingElsewhere DEF vars
    <3>7. QED
      BY <3>2, <3>3, <3>4, <3>5, <3>6
  <2>4. QED
    BY <2>2, <2>3
<1>3. QED
  BY <1>1, <1>2, PTL DEF Spec

(* Parts of a total are numbers.                                           *)
IsFraction(s) == s[1] \in Int /\ s[2] \in Int

(* A share of a number in a number.                                        *)
LEMMA ShareIs ==
  ASSUME NEW p \in Int, NEW n \in Int
  PROVE  IsFraction(Share(p, n)) /\ (n # 0 => Share(p, n)[1] = p)
BY DEF Share, IsFraction

(* The groups a tenant reported, as a report has them.                     *)
LEMMA ObservedGroupsAre ==
  ASSUME NEW groups, IsFiniteSet(DOMAIN groups), DOMAIN groups \subseteq Int \X Int,
         \A g \in DOMAIN groups : groups[g] \in Int, NEW gs, gs = ObservedGroups(groups)
  PROVE  /\ SumOver(gs, LAMBDA g : g.rankValue) = SumFunctionOnSet(groups, DOMAIN groups)
         /\ \A k \in DOMAIN gs : gs[k].rules = <<>> /\ IsFraction(gs[k].rankShare)
<1>1. PICK D, n, rows : /\ D = DOMAIN groups /\ n = SumFunction(groups)
                        /\ rows = [g \in DOMAIN groups |->
                              [file |-> g[1], group |-> g[2], rules |-> <<>>, executions |-> Round(groups[g]),
                               rankValue |-> groups[g], rankShare |-> Share(groups[g], SumFunction(groups)),
                               rankObserved |-> TRUE]]
  OBVIOUS
<1>2. gs = Ranked(rows, GroupOrder(D))
  BY <1>1 DEF ObservedGroups
<1>3. n \in Int
  BY <1>1, SumType DEF SumFunction
<1>4. DOMAIN rows = D /\ \A g \in D : rows[g].rankValue = groups[g] /\ rows[g].rules = <<>> /\ rows[g].rankShare = Share(groups[g], n)
  BY <1>1
<1>5. \A g \in D : rows[g].rankValue \in Int /\ IsFraction(rows[g].rankShare)
  BY <1>1, <1>3, <1>4, ShareIs
<1>6. IsOrder(DOMAIN rows, GroupOrder(D))
  BY <1>1, <1>4, GroupsOrdered
<1>7. PICK keys : ListsRows(gs, rows, keys)
  <2>1. IsFiniteSet(DOMAIN rows) /\ \A g \in DOMAIN rows : rows[g].rankValue \in Int
    BY <1>1, <1>4, <1>5
  <2>2. PICK order : order = GroupOrder(D)
    OBVIOUS
  <2>3. IsOrder(DOMAIN rows, order) /\ gs = Ranked(rows, order)
    BY <1>2, <1>6, <2>2
  <2>4. QED
    BY <2>1, <2>3, RankedLists
<1>8. Lists(keys, D) /\ DOMAIN gs = DOMAIN keys /\ \A k \in DOMAIN keys : gs[k] = rows[keys[k]] /\ keys[k] \in D
  BY <1>4, <1>7, ListedAll DEF ListsRows
<1>9. SumOver(gs, LAMBDA g : g.rankValue) = SumFunctionOnSet(groups, D)
  <2>1. PICK a : a = [k \in DOMAIN gs |-> gs[k].rankValue]
    OBVIOUS
  <2>2. DOMAIN a = DOMAIN keys /\ \A k \in DOMAIN keys : a[k] = groups[keys[k]]
    BY <1>4, <1>8, <2>1
  <2>3. SumFunctionOnSet(a, DOMAIN keys) = SumFunctionOnSet(groups, D)
    BY <1>1, <1>8, <2>2, SumListed
  <2>4. SumOver(gs, LAMBDA g : g.rankValue) = SumFunction(a)
    BY <2>1 DEF SumOver
  <2>5. QED
    BY <2>2, <2>3, <2>4 DEF SumFunction
<1>10. QED
  BY <1>1, <1>4, <1>5, <1>8, <1>9

(* The accumulators a report is made of.                                   *)
AreAccums(A) ==
    /\ IsFiniteSet(DOMAIN A) /\ DOMAIN A \subseteq Int
    /\ \A t \in DOMAIN A :
        /\ A[t].duration \in Int /\ A[t].evaluations \in Int
        /\ IsFiniteSet(DOMAIN A[t].groups) /\ DOMAIN A[t].groups \subseteq Int \X Int
        /\ \A g \in DOMAIN A[t].groups : A[t].groups[g] \in Int

(* The figure a tenant is ranked by, all of them, and the evaluations they *)
(* report.                                                                 *)
RankOf(a, m) == IF m = "duration" THEN a.duration ELSE a.evaluations

(* r is the row of a tenant.                                               *)
IsObservedRow(r, t, A, m, total) ==
    /\ r.tenant = t /\ r.executions = Round(A[t].evaluations)
    /\ r.duration = A[t].duration /\ r.durationObserved = A[t].observed
    /\ r.rankValue = RankOf(A[t], m) /\ r.rankShare = Share(RankOf(A[t], m), total)
    /\ r.groups = ObservedGroups(A[t].groups)

RoundedOf(A) == [t \in DOMAIN A |-> Round(A[t].evaluations)]
RankedOf(A, m) == [t \in DOMAIN A |-> RankOf(A[t], m)]

(* What AggregateObservations returns, row by row.                         *)
LEMMA ObservationsAre ==
  ASSUME NEW A, AreAccums(A), NEW agg, agg = AggregateObservations(A), NEW m, m = agg.rankMetric
  PROVE  /\ m \in {"duration", "executions"} /\ agg.granularity = "group"
         /\ agg.total = SumFunction(RoundedOf(A)) /\ Len(agg.tenants) = Cardinality(DOMAIN A)
         /\ \E ts : /\ Lists(ts, DOMAIN A) /\ DOMAIN agg.tenants = DOMAIN ts
                    /\ \A k \in DOMAIN ts : IsObservedRow(agg.tenants[k], ts[k], A, m, SumFunction(RankedOf(A, m)))
<1>1. PICK any, ex, rank : /\ any = (\E t \in DOMAIN A : A[t].observed /\ A[t].duration > 0)
                           /\ ex = [t \in DOMAIN A |-> Round(A[t].evaluations)]
                           /\ rank = [t \in DOMAIN A |-> IF any THEN A[t].duration ELSE A[t].evaluations]
  OBVIOUS
<1>2. PICK rows : rows = [t \in DOMAIN A |->
           [tenant |-> t, executions |-> ex[t], executionShare |-> Share(ex[t], SumFunction(ex)),
            duration |-> A[t].duration, durationObserved |-> A[t].observed,
            rankValue |-> rank[t], rankShare |-> Share(rank[t], SumFunction(rank)),
            groups |-> ObservedGroups(A[t].groups)]]
  OBVIOUS
<1>3. agg = [granularity |-> "group", total |-> SumFunction(ex),
             rankMetric |-> IF any THEN "duration" ELSE "executions", groupRankMetric |-> "executions",
             tenants |-> Ranked(rows, TenantOrder(DOMAIN A))]
  BY <1>1, <1>2 DEF AggregateObservations
<1>4. /\ agg.granularity = "group" /\ agg.total = SumFunction(ex) /\ m = (IF any THEN "duration" ELSE "executions")
      /\ agg.tenants = Ranked(rows, TenantOrder(DOMAIN A))
  BY <1>3
<1>5. ex = RoundedOf(A)
  BY <1>1 DEF RoundedOf
<1>6. rank = RankedOf(A, m)
  BY <1>1, <1>4 DEF RankedOf, RankOf
<1>7. PICK D, s : D = DOMAIN A /\ s = agg.tenants
  OBVIOUS
<1>8. DOMAIN rows = D /\ \A t \in D : rows[t].rankValue = RankOf(A[t], m)
  BY <1>2, <1>6, <1>7 DEF RankedOf
<1>9. \A t \in D : RankOf(A[t], m) \in Int
  BY <1>7 DEF AreAccums, RankOf
<1>10. PICK keys : ListsRows(s, rows, keys)
  <2>1. IsFiniteSet(D) /\ D \in SUBSET Int
    BY <1>7 DEF AreAccums
  <2>2. PICK order : order = TenantOrder(D)
    OBVIOUS
  <2>3. IsOrder(DOMAIN rows, order) /\ s = Ranked(rows, order)
    BY <1>4, <1>7, <1>8, <2>1, <2>2, TenantsOrdered
  <2>4. IsFiniteSet(DOMAIN rows) /\ \A t \in DOMAIN rows : rows[t].rankValue \in Int
    BY <1>8, <1>9, <2>1
  <2>5. QED
    BY <2>3, <2>4, RankedLists
<1>11. /\ Lists(keys, D) /\ DOMAIN s = DOMAIN keys /\ Len(s) = Cardinality(D)
       /\ \A k \in DOMAIN keys : s[k] = rows[keys[k]] /\ keys[k] \in D
  BY <1>8, <1>10, ListedAll DEF ListsRows
<1>12. ASSUME NEW k \in DOMAIN keys PROVE IsObservedRow(s[k], keys[k], A, m, SumFunction(RankedOf(A, m)))
  <2>1. PICK t, r : t = keys[k] /\ r = s[k]
    OBVIOUS
  <2>2. t \in D /\ r = rows[t]
    BY <1>11, <1>12, <2>1
  <2>3. /\ r.tenant = t /\ r.executions = ex[t] /\ r.duration = A[t].duration /\ r.durationObserved = A[t].observed
        /\ r.rankValue = rank[t] /\ r.rankShare = Share(rank[t], SumFunction(rank))
        /\ r.groups = ObservedGroups(A[t].groups)
    BY <1>2, <1>7, <2>2
  <2>4. ex[t] = Round(A[t].evaluations)
    BY <1>1, <1>7, <2>2
  <2>5. rank[t] = RankOf(A[t], m)
    BY <1>6, <1>7, <2>2 DEF RankedOf
  <2>6. QED
    BY <1>6, <2>1, <2>3, <2>4, <2>5 DEF IsObservedRow
<1>13. QED
  BY <1>4, <1>5, <1>7, <1>11, <1>12

(* What was said of a tenant, as the properties put it.                    *)
LEMMA SaidOfIs ==
  ASSUME None \notin Int, NEW k, NEW res, res = asked[k].result, IsResult(res), NEW t \in Int
  PROVE  SaidOf(k, t) = Said(res, t)
<1>1. PICK f, g, W, D : /\ f = [j \in DOMAIN res |-> IF res[j].user = t /\ res[j].pair.kind = "finite" THEN res[j].pair.number ELSE 0]
                        /\ g = Numbers(res) /\ W = Own(res, t) /\ D = DOMAIN res
  OBVIOUS
<1>2. SaidOf(k, t) = SumFunctionOnSet(f, D)
  BY <1>1 DEF SaidOf, SumOver, SumFunction
<1>3. \A j \in D : Usable(res[j]) <=> res[j].user # None /\ res[j].pair.kind = "finite"
  BY <1>1, UsableIs
<1>4. \A j \in D : j \in W <=> res[j].user = t /\ res[j].pair.kind = "finite"
  BY <1>1, <1>3 DEF Own
<1>5. \A j \in W : f[j] = g[j] /\ g[j] \in Int
  <2>1. \A j \in W : j \in D /\ res[j].user = t /\ res[j].pair.kind = "finite"
    BY <1>1, <1>4 DEF Own
  <2>2. \A j \in W : g[j] = res[j].pair.number /\ g[j] \in Int
    <3>1. \A j \in D : Usable(res[j]) => Numbers(res)[j] \in Int /\ Numbers(res)[j] = res[j].pair.number
      BY <1>1, UsableIs
    <3>2. \A j \in W : Usable(res[j])
      BY <1>1 DEF Own
    <3>3. QED
      BY <1>1, <2>1, <3>1, <3>2
  <2>3. \A j \in W : f[j] = res[j].pair.number
    BY <1>1, <2>1
  <2>4. QED
    BY <2>2, <2>3
<1>6. W \in SUBSET D /\ \A j \in D \ W : f[j] = 0
  BY <1>1, <1>4 DEF Own
<1>7. IsFiniteSet(D) /\ IsFiniteSet(W) /\ \A j \in D : f[j] \in Int
  <2>1. IsFiniteSet(D)
    BY <1>1 DEF IsResult
  <2>2. IsFiniteSet(W)
    BY <1>6, <2>1, FS_Subset
  <2>3. \A j \in D : f[j] \in Int
    BY <1>5, <1>6
  <2>4. QED
    BY <2>1, <2>2, <2>3
<1>8. SumFunctionOnSet(f, D) = SumFunctionOnSet(f, W)
  BY <1>6, <1>7, SumRestrict
<1>9. SumFunctionOnSet(f, W) = SumFunctionOnSet(g, W)
  BY <1>5, <1>7, SumAgree
<1>10. QED
  BY <1>1, <1>2, <1>8, <1>9 DEF Said

(* What a report without telemetry is made of.                             *)
LEMMA QueryReport ==
  ASSUME MetricsInv, ByQuery, NEW A, A = accums, NEW m, m = Agg.rankMetric
  PROVE  /\ None \notin Int /\ AreAnswers(asked) /\ DOMAIN asked = 1..3 /\ AreAccums(A) /\ DOMAIN A = Mentioned
         /\ \A t \in DOMAIN A : AccumIs(A[t], t, asked)
         /\ \A t \in DOMAIN A : /\ A[t].duration = SaidOf(1, t) /\ A[t].evaluations = SaidOf(2, t)
                                /\ SumFunctionOnSet(A[t].groups, DOMAIN A[t].groups) = SaidOf(3, t)
         /\ report.skipped = 0
         /\ m \in {"duration", "executions"} /\ Agg.granularity = "group"
         /\ Agg.total = SumFunction(RoundedOf(A)) /\ Len(Rows) = Cardinality(DOMAIN A)
         /\ \E ts : /\ Lists(ts, DOMAIN A) /\ DOMAIN Rows = DOMAIN ts
                    /\ \A k \in DOMAIN ts : IsObservedRow(Rows[k], ts[k], A, m, SumFunction(RankedOf(A, m)))
<1>1. /\ source = "metrics" /\ main = "rendered" /\ IsASeq(asked) /\ Len(asked) = 3
      /\ AreAnswers(asked) /\ AccumsAre(A, asked) /\ report.agg = AggregateObservations(A) /\ report.skipped = 0
  BY DEF ByQuery, MetricsInv
<1>2. None \notin Int
  BY TypesAssumption
<1>3. DOMAIN asked = 1..3
  BY <1>1 DEF IsASeq
<1>4. \A k \in 1..3 : IsResult(asked[k].result)
  BY <1>1, <1>3 DEF AreAnswers
<1>5. ASSUME NEW k \in 1..3
      PROVE  /\ UsersIn(asked[k].result) = {x.user : x \in {y \in Range(asked[k].result) : y.pair.kind = "finite"}} \ {None}
             /\ IsFiniteSet(UsersIn(asked[k].result)) /\ UsersIn(asked[k].result) \subseteq Int
  <2>1. PICK res : res = asked[k].result
    OBVIOUS
  <2>2. IsResult(res)
    BY <1>4, <1>5, <2>1
  <2>3. \A j \in DOMAIN res : /\ Usable(res[j]) <=> res[j].user # None /\ res[j].pair.kind = "finite"
                              /\ Usable(res[j]) => res[j].user \in Int
    BY <1>2, <2>2, UsableIs
  <2>4. UsersIn(res) \subseteq Int
    BY <2>3 DEF UsersIn
  <2>5. PICK V, f : V = {j \in DOMAIN res : Usable(res[j])} /\ f = [j \in V |-> res[j].user]
    OBVIOUS
  <2>6. IsFiniteSet(V)
    BY <2>2, <2>5, FS_Subset DEF IsResult
  <2>7. UsersIn(res) = {f[j] : j \in V}
    BY <2>5 DEF UsersIn
  <2>8. IsFiniteSet(UsersIn(res))
    BY <2>6, <2>7, ImageFinite
  <2>9. UsersIn(res) = {x.user : x \in {y \in Range(res) : y.pair.kind = "finite"}} \ {None}
    BY <2>3 DEF UsersIn, Range
  <2>10. QED
    BY <2>1, <2>4, <2>8, <2>9
<1>6. DOMAIN A = UNION {UsersIn(asked[k].result) : k \in 1..3}
  BY <1>1, <1>3 DEF AccumsAre
<1>7. DOMAIN A = Mentioned
  <2>1. PICK U : U = [k \in 1..3 |-> {x.user : x \in {y \in Range(asked[k].result) : y.pair.kind = "finite"}}]
    OBVIOUS
  <2>2. \A k \in 1..3 : UsersIn(asked[k].result) = U[k] \ {None}
    BY <1>5, <2>1
  <2>3. Mentioned = (UNION {U[k] : k \in 1..3}) \ {None}
    BY <1>3, <2>1 DEF Mentioned
  <2>4. QED
    BY <1>6, <2>2, <2>3
<1>8. DOMAIN A = UsersIn(asked[1].result) \cup UsersIn(asked[2].result) \cup UsersIn(asked[3].result)
  BY <1>6
<1>9. IsFiniteSet(DOMAIN A) /\ DOMAIN A \subseteq Int
  <2>1. PICK U, V, W : U = UsersIn(asked[1].result) /\ V = UsersIn(asked[2].result) /\ W = UsersIn(asked[3].result)
    OBVIOUS
  <2>2. IsFiniteSet(U) /\ IsFiniteSet(V) /\ IsFiniteSet(W) /\ U \subseteq Int /\ V \subseteq Int /\ W \subseteq Int
    BY <1>5, <2>1
  <2>3. IsFiniteSet(U \cup V)
    BY <2>2, FS_Union
  <2>4. IsFiniteSet((U \cup V) \cup W)
    BY <2>2, <2>3, FS_Union
  <2>5. QED
    BY <1>8, <2>1, <2>2, <2>4
<1>10. \A t \in DOMAIN A : AccumIs(A[t], t, asked)
  BY <1>1 DEF AccumsAre
<1>11. ASSUME NEW t \in DOMAIN A, NEW k \in 1..3 PROVE Told(asked, k, t) = SaidOf(k, t) /\ Told(asked, k, t) \in Int
  <2>1. PICK res : res = asked[k].result
    OBVIOUS
  <2>2. IsResult(res) /\ t \in Int
    BY <1>4, <1>9, <1>11, <2>1
  <2>3. SaidOf(k, t) = Said(res, t) /\ Said(res, t) \in Int
    BY <1>2, <2>1, <2>2, SaidOfIs, SaidIs
  <2>4. QED
    BY <1>3, <1>11, <2>1, <2>3 DEF Told
<1>12. \A t \in DOMAIN A : /\ A[t].duration = SaidOf(1, t) /\ A[t].evaluations = SaidOf(2, t)
                           /\ SumFunctionOnSet(A[t].groups, DOMAIN A[t].groups) = SaidOf(3, t)
  BY <1>10, <1>11 DEF AccumIs
<1>13. AreAccums(A)
  <2>1. ASSUME NEW t \in DOMAIN A
        PROVE  /\ A[t].duration \in Int /\ A[t].evaluations \in Int
               /\ IsFiniteSet(DOMAIN A[t].groups) /\ DOMAIN A[t].groups \subseteq Int \X Int
               /\ \A g \in DOMAIN A[t].groups : A[t].groups[g] \in Int
    <3>1. Told(asked, 1, t) \in Int /\ Told(asked, 2, t) \in Int
      BY <1>11, <2>1
    <3>2. QED
      BY <1>10, <2>1, <3>1 DEF AccumIs
  <2>2. QED
    BY <1>9, <2>1 DEF AreAccums
<1>14. PICK agg : agg = Agg
  OBVIOUS
<1>15. agg = AggregateObservations(A) /\ m = agg.rankMetric
  BY <1>1, <1>14 DEF Agg
<1>16. /\ m \in {"duration", "executions"} /\ agg.granularity = "group"
       /\ agg.total = SumFunction(RoundedOf(A)) /\ Len(agg.tenants) = Cardinality(DOMAIN A)
       /\ \E ts : /\ Lists(ts, DOMAIN A) /\ DOMAIN agg.tenants = DOMAIN ts
                  /\ \A k \in DOMAIN ts : IsObservedRow(agg.tenants[k], ts[k], A, m, SumFunction(RankedOf(A, m)))
  BY <1>13, <1>15, ObservationsAre
<1>17. QED
  BY <1>1, <1>2, <1>3, <1>7, <1>10, <1>12, <1>13, <1>14, <1>16 DEF Rows

(* A report without telemetry counts what the second query said.           *)
LEMMA QueryCountsOnce ==
  ASSUME MetricsInv, ByQuery
  PROVE  SumOver(Rows, LAMBDA r : r.executions) = Agg.total
<1>1. PICK A, m, n : A = accums /\ m = Agg.rankMetric /\ n = SumFunction(RankedOf(A, m))
  OBVIOUS
<1>2. AreAccums(A) /\ Agg.total = SumFunction(RoundedOf(A))
  BY <1>1, QueryReport
<1>3. PICK ts : /\ Lists(ts, DOMAIN A) /\ DOMAIN Rows = DOMAIN ts
                /\ \A k \in DOMAIN ts : IsObservedRow(Rows[k], ts[k], A, m, n)
  BY <1>1, QueryReport
<1>4. PICK a, b : a = [k \in DOMAIN Rows |-> Rows[k].executions] /\ b = RoundedOf(A)
  OBVIOUS
<1>5. DOMAIN b = DOMAIN A /\ \A t \in DOMAIN A : b[t] = Round(A[t].evaluations)
  BY <1>4 DEF RoundedOf
<1>6. \A t \in DOMAIN A : b[t] \in Int
  BY <1>2, <1>5 DEF AreAccums, Round
<1>7. \A k \in DOMAIN ts : ts[k] \in DOMAIN A
  BY <1>3, ListedAll
<1>8. DOMAIN a = DOMAIN ts /\ \A k \in DOMAIN ts : a[k] = b[ts[k]]
  BY <1>3, <1>4, <1>5, <1>7 DEF IsObservedRow
<1>9. SumFunctionOnSet(a, DOMAIN ts) = SumFunctionOnSet(b, DOMAIN A)
  BY <1>3, <1>6, <1>8, SumListed
<1>10. QED
  BY <1>2, <1>4, <1>5, <1>8, <1>9 DEF SumOver, SumFunction

(* The rows of a report without telemetry, each with its tenant.           *)
LEMMA QueryRow ==
  ASSUME MetricsInv, ByQuery, NEW r \in Range(Rows), NEW A, A = accums, NEW m, m = Agg.rankMetric
  PROVE  \E t \in DOMAIN A : IsObservedRow(r, t, A, m, SumFunction(RankedOf(A, m)))
<1>1. PICK n : n = SumFunction(RankedOf(A, m))
  OBVIOUS
<1>2. PICK ts : /\ Lists(ts, DOMAIN A) /\ DOMAIN Rows = DOMAIN ts
                /\ \A k \in DOMAIN ts : IsObservedRow(Rows[k], ts[k], A, m, n)
  BY <1>1, QueryReport
<1>3. PICK k \in DOMAIN Rows : r = Rows[k]
  BY DEF Range
<1>4. ts[k] \in DOMAIN A
  BY <1>2, <1>3, ListedAll
<1>5. QED
  BY <1>1, <1>2, <1>3, <1>4

(* It has a row for each tenant a query mentions, with what they said.     *)
LEMMA QueryReportsTenants ==
  ASSUME MetricsInv, ByQuery
  PROVE  /\ \A k \in DOMAIN asked : IsAVector(asked[k])
         /\ RowForEach(Mentioned)
         /\ \A r \in Range(Rows) : TellsWhatWasSaid(r)
<1>1. PICK A, m, n : A = accums /\ m = Agg.rankMetric /\ n = SumFunction(RankedOf(A, m))
  OBVIOUS
<1>2. AreAccums(A) /\ DOMAIN A = Mentioned /\ Len(Rows) = Cardinality(DOMAIN A) /\ AreAnswers(asked)
  BY <1>1, QueryReport
<1>3. ASSUME NEW k \in DOMAIN asked PROVE IsAVector(asked[k])
  <2>1. Instant(asked[k]).ok
    BY <1>2, <1>3 DEF AreAnswers
  <2>2. PICK resp : resp = asked[k]
    OBVIOUS
  <2>3. /\ resp.reached /\ resp.status = 200 /\ resp.decodes /\ resp.api = "success"
        /\ resp.type \in {"", "vector"}
    BY <2>1, <2>2 DEF Instant
  <2>4. IsAVector(resp)
    BY <2>3 DEF IsAVector
  <2>5. QED
    BY <2>2, <2>4
<1>4. PICK ts : /\ Lists(ts, DOMAIN A) /\ DOMAIN Rows = DOMAIN ts
                /\ \A k \in DOMAIN ts : IsObservedRow(Rows[k], ts[k], A, m, n)
  BY <1>1, QueryReport
<1>5. {ts[k] : k \in DOMAIN ts} = DOMAIN A /\ \A k \in DOMAIN ts : Rows[k].tenant = ts[k]
  BY <1>4, ListedAll DEF IsObservedRow
<1>6. {r.tenant : r \in Range(Rows)} = DOMAIN A
  BY <1>4, <1>5 DEF Range
<1>7. RowForEach(Mentioned)
  BY <1>2, <1>6 DEF RowForEach
<1>8. ASSUME NEW r \in Range(Rows) PROVE TellsWhatWasSaid(r)
  <2>1. PICK t \in DOMAIN A : IsObservedRow(r, t, A, m, n)
    BY <1>1, <1>8, QueryRow
  <2>2. /\ A[t].duration = SaidOf(1, t) /\ A[t].evaluations = SaidOf(2, t)
        /\ SumFunctionOnSet(A[t].groups, DOMAIN A[t].groups) = SaidOf(3, t)
    BY <1>1, QueryReport
  <2>3. PICK groups, gs : groups = A[t].groups /\ gs = r.groups
    OBVIOUS
  <2>4. IsFiniteSet(DOMAIN groups) /\ DOMAIN groups \subseteq Int \X Int /\ \A g \in DOMAIN groups : groups[g] \in Int
    BY <1>2, <2>3 DEF AreAccums
  <2>5. gs = ObservedGroups(groups)
    BY <2>1, <2>3 DEF IsObservedRow
  <2>6. SumOver(gs, LAMBDA g : g.rankValue) = SumFunctionOnSet(groups, DOMAIN groups)
    BY <2>4, <2>5, ObservedGroupsAre
  <2>7. SumOver(r.groups, LAMBDA g : g.rankValue) = SaidOf(3, t)
    BY <2>2, <2>3, <2>6
  <2>8. r.tenant = t /\ r.duration = SaidOf(1, t) /\ r.executions = Round(SaidOf(2, t))
    BY <2>1, <2>2 DEF IsObservedRow
  <2>9. QED
    BY <2>7, <2>8 DEF TellsWhatWasSaid
<1>9. QED
  BY <1>3, <1>7, <1>8

(* It flags the time of a tenant as measured if the first query gave it.   *)
LEMMA QueryFlagsMeasured ==
  ASSUME MetricsInv, ByQuery
  PROVE  \A r \in Range(Rows) : r.durationObserved <=> TimedBy(r.tenant)
<1>1. PICK A, m, n, res : A = accums /\ m = Agg.rankMetric /\ n = SumFunction(RankedOf(A, m)) /\ res = asked[1].result
  OBVIOUS
<1>2. /\ None \notin Int /\ AreAnswers(asked) /\ DOMAIN asked = 1..3
      /\ \A t \in DOMAIN A : AccumIs(A[t], t, asked)
  BY <1>1, QueryReport
<1>3. IsResult(res)
  BY <1>1, <1>2 DEF AreAnswers
<1>4. \A k \in DOMAIN res : Usable(res[k]) <=> res[k].user # None /\ res[k].pair.kind = "finite"
  BY <1>2, <1>3, UsableIs
<1>5. ASSUME NEW t PROVE Own(res, t) # {} <=> TimedBy(t)
  BY <1>1, <1>4 DEF Own, TimedBy, Range
<1>6. ASSUME NEW r \in Range(Rows) PROVE r.durationObserved <=> TimedBy(r.tenant)
  <2>1. PICK t \in DOMAIN A : IsObservedRow(r, t, A, m, n)
    BY <1>1, <1>6, QueryRow
  <2>2. A[t].observed <=> WasTimed(asked, t)
    BY <1>2, <2>1 DEF AccumIs
  <2>3. WasTimed(asked, t) <=> TimedBy(t)
    BY <1>1, <1>2, <1>5 DEF WasTimed
  <2>4. r.durationObserved = A[t].observed /\ r.tenant = t
    BY <2>1 DEF IsObservedRow
  <2>5. QED
    BY <2>2, <2>3, <2>4, Zenon
<1>7. QED
  BY <1>6

--------------------------------------------------------------------------------
(* The two pages.                                                          *)

(* One figure with one share, as the two pages show it.                    *)
LEMMA CellsAgree ==
  ASSUME NEW o, NEW v, NEW s, IsFraction(s),
         NEW x, x.value = FormatMeasured(o, v), x.share = ShareCell("markdown", o, s),
         NEW y, y.value = FormatMeasured(o, v), y.share = ShareCell("html", o, s), x.executions = y.executions
  PROVE  SameFigures(x, y) /\ (IsMeasured(x) <=> o) /\ (IsMeasured(y) <=> o) /\ (o => y.share.shows = s)
<1>1. \A u : Shows(u) # Says("not measured") /\ Shows(u).shows = u
  <2>1. ASSUME NEW u PROVE Shows(u) # Says("not measured") /\ Shows(u).shows = u
    <3>1. "shows" \in DOMAIN Shows(u) /\ "shows" \notin DOMAIN Says("not measured")
      BY DEF Shows, Says
    <3>2. Shows(u).shows = u
      BY DEF Shows
    <3>3. QED
      BY <3>1, <3>2
  <2>2. QED
    BY <2>1
<1>2. CASE o
  <2>1. x.value = Shows(v) /\ y.value = Shows(v) /\ x.share = Shows(s) /\ y.share = Shows(s)
    BY <1>2 DEF FormatMeasured, ShareCell, HTMLShare, FormatMeasuredPct
  <2>2. IsMeasured(x) /\ IsMeasured(y) /\ y.share # Says("not measured") /\ x.share.shows = s /\ y.share.shows = s
    BY <1>1, <2>1 DEF IsMeasured
  <2>3. s[1] * s[2] = s[2] * s[1]
    BY DEF IsFraction
  <2>4. QED
    BY <1>2, <2>1, <2>2, <2>3 DEF SameFigures
<1>3. CASE ~o
  <2>1. x.value = Says("not measured") /\ y.value = Says("not measured") /\ y.share = Says("not measured")
    BY <1>3 DEF FormatMeasured, ShareCell, HTMLShare
  <2>2. QED
    BY <1>3, <2>1 DEF SameFigures, IsMeasured
<1>4. QED
  BY <1>2, <1>3

(* The figures of a group, and of its rules, are numbers; a rule's is      *)
(* flagged as measured exactly when it was.                                *)
RuleFits(q) == q.rankValue \in Int /\ (q.rankObserved <=> Seen(Agg.rankMetric, RunOf(q.id)))
(* What the pages need of a group.                                         *)
GroupFits(g) ==
    /\ IsFraction(g.rankShare)
    /\ \A k \in DOMAIN g.rules : g.rankValue \in Int /\ RuleFits(g.rules[k])

(* A rule on a page is the rule of the report.                             *)
LEMMA RuleCell ==
  ASSUME NEW g, NEW k \in DOMAIN g.rules, NEW q, q = g.rules[k], NEW page, NEW u, u = Rules(g, page)[k]
  PROVE  /\ u.id = q.id /\ u.executions = q.figures.executions
         /\ u.value = FormatMeasured(q.rankObserved, q.rankValue)
         /\ u.share = ShareCell(page, q.rankObserved, Share(q.rankValue, g.rankValue))
<1>1. PICK n, v, c : /\ n = q.figures.executions /\ v = FormatMeasured(q.rankObserved, q.rankValue)
                     /\ c = ShareCell(page, q.rankObserved, Share(q.rankValue, g.rankValue))
  OBVIOUS
<1>2. u = [id |-> q.id, kind |-> q.kind, executions |-> n, value |-> v, share |-> c]
  BY <1>1, Zenon DEF Rules
<1>3. QED
  BY <1>1, <1>2

(* A group on a page is the group of the report.                           *)
LEMMA GroupCell ==
  ASSUME NEW r, NEW k \in DOMAIN r.groups, NEW g, g = r.groups[k], NEW page, NEW u, u = Groups(Agg, r, page)[k]
  PROVE  /\ u.executions = g.executions /\ u.value = FormatMeasured(g.rankObserved, g.rankValue)
         /\ u.share = ShareCell(page, g.rankObserved, g.rankShare)
         /\ u.rules = Rules(g, page) /\ u.absent = RulesAbsent(Agg, g)
<1>1. PICK v, c, rs, a : /\ v = FormatMeasured(g.rankObserved, g.rankValue) /\ c = ShareCell(page, g.rankObserved, g.rankShare)
                         /\ rs = Rules(g, page) /\ a = RulesAbsent(Agg, g)
  OBVIOUS
<1>2. u = [file |-> g.file, group |-> g.group, executions |-> g.executions, value |-> v, share |-> c, rules |-> rs, absent |-> a]
  BY <1>1, Zenon DEF Groups
<1>3. QED
  BY <1>1, <1>2

(* So the pages agree on rules                                             *)
LEMMA RulesAgree ==
  ASSUME NEW g, GroupFits(g), NEW x, x.rules = Rules(g, "markdown"), NEW y, y.rules = Rules(g, "html")
  PROVE  SameRules(x, y)
<1>1. DOMAIN x.rules = DOMAIN g.rules
  BY DEF Rules
<1>2. ASSUME NEW k \in DOMAIN g.rules
      PROVE  SameFigures(x.rules[k], y.rules[k]) /\ (IsMeasured(x.rules[k]) <=> Seen(Agg.rankMetric, RunOf(x.rules[k].id)))
  <2>1. PICK q, s, u, w : q = g.rules[k] /\ s = Share(q.rankValue, g.rankValue) /\ u = x.rules[k] /\ w = y.rules[k]
    OBVIOUS
  <2>2. RuleFits(q) /\ g.rankValue \in Int
    BY <1>2, <2>1 DEF GroupFits
  <2>3. PICK o : o = q.rankObserved
    OBVIOUS
  <2>4. IsFraction(s)
    BY <2>1, <2>2, <2>3, ShareIs DEF RuleFits
  <2>5. u.id = q.id /\ u.executions = q.figures.executions /\ u.value = FormatMeasured(o, q.rankValue) /\ u.share = ShareCell("markdown", o, s)
    BY <1>2, <2>1, <2>3, RuleCell
  <2>6. w.executions = q.figures.executions /\ w.value = FormatMeasured(o, q.rankValue) /\ w.share = ShareCell("html", o, s)
    BY <1>2, <2>1, <2>3, RuleCell
  <2>7. SameFigures(u, w) /\ (IsMeasured(u) <=> o)
    BY <2>4, <2>5, <2>6, CellsAgree
  <2>8. o <=> Seen(Agg.rankMetric, RunOf(q.id))
    BY <2>2, <2>3 DEF RuleFits
  <2>9. QED
    BY <2>1, <2>5, <2>7, <2>8
<1>3. QED
  BY <1>1, <1>2 DEF SameRules

(* and on groups.                                                          *)
LEMMA GroupsAgree ==
  ASSUME NEW r, \A k \in DOMAIN r.groups : GroupFits(r.groups[k]), ByQuery => Agg.granularity = "group",
         NEW x, x.groups = Groups(Agg, r, "markdown"), NEW y, y.groups = Groups(Agg, r, "html")
  PROVE  SameGroups(x, y)
<1>1. DOMAIN x.groups = DOMAIN r.groups
  BY DEF Groups
<1>2. ASSUME NEW k \in DOMAIN r.groups
      PROVE  /\ SameFigures(x.groups[k], y.groups[k]) /\ SameRules(x.groups[k], y.groups[k])
             /\ ByQuery => x.groups[k].absent # Says("no matched rule executions in this group")
  <2>1. PICK g, o, u, w : g = r.groups[k] /\ o = g.rankObserved /\ u = x.groups[k] /\ w = y.groups[k]
    OBVIOUS
  <2>2. GroupFits(g)
    BY <1>2, <2>1
  <2>3. /\ u.executions = g.executions /\ u.value = FormatMeasured(o, g.rankValue)
        /\ u.share = ShareCell("markdown", o, g.rankShare) /\ u.rules = Rules(g, "markdown") /\ u.absent = RulesAbsent(Agg, g)
    BY <1>2, <2>1, GroupCell
  <2>4. /\ w.executions = g.executions /\ w.value = FormatMeasured(o, g.rankValue)
        /\ w.share = ShareCell("html", o, g.rankShare) /\ w.rules = Rules(g, "html")
    BY <1>2, <2>1, GroupCell
  <2>5. SameFigures(u, w)
    <3>1. IsFraction(g.rankShare)
      BY <2>1, <2>2 DEF GroupFits
    <3>2. PICK v, s : v = g.rankValue /\ s = g.rankShare
      OBVIOUS
    <3>3. /\ u.value = FormatMeasured(o, v) /\ u.share = ShareCell("markdown", o, s)
          /\ w.value = FormatMeasured(o, v) /\ w.share = ShareCell("html", o, s) /\ u.executions = w.executions
      BY <2>3, <2>4, <3>2
    <3>4. QED
      BY <3>1, <3>2, <3>3, CellsAgree
  <2>6. SameRules(u, w)
    BY <2>2, <2>3, <2>4, RulesAgree
  <2>7. ASSUME ByQuery PROVE u.absent # Says("no matched rule executions in this group")
    <3>1. u.absent = Says("") \/ u.absent = Says("rule-level detail not available from this source")
      BY <2>3, <2>7 DEF RulesAbsent
    <3>2. \A w1, w2 : Says(w1) = Says(w2) => w1 = w2
      <4>1. ASSUME NEW w1, NEW w2, Says(w1) = Says(w2) PROVE w1 = w2
        <5>1. Says(w1).says = w1 /\ Says(w2).says = w2
          BY DEF Says
        <5>2. QED
          BY <4>1, <5>1
      <4>2. QED
        BY <4>1
    <3>3. QED
      BY <3>1, <3>2
  <2>8. QED
    BY <2>1, <2>5, <2>6, <2>7
<1>3. QED
  BY <1>1, <1>2 DEF SameGroups

(* Whether the figure the report ranks by was measured of a tenant.        *)
RankMeasured(t) == Agg.rankMetric = "executions" \/ IF ByLog THEN Seen(Agg.rankMetric, RunBy(t)) ELSE TimedBy(t)

(* r's figures are numbers, its share is of that total, and its figure is  *)
(* flagged as measured exactly when it was, and zero otherwise.            *)
RowFits(r, total) ==
    /\ r.rankValue \in Int /\ r.rankShare = Share(r.rankValue, total)
    /\ \A k \in DOMAIN r.groups : GroupFits(r.groups[k])
    /\ TenantObserved(Agg, r) <=> RankMeasured(r.tenant)
    /\ ~TenantObserved(Agg, r) => r.rankValue = 0

(* So the pages agree on tenants,                                          *)
LEMMA TenantsAgree ==
  ASSUME NEW total \in Int, NEW r, RowFits(r, total), ByQuery => Agg.granularity = "group",
         NEW x, x = Tenant(Agg, r, r.rankShare, "markdown"),
         NEW y, y = Tenant(Agg, r, Share(r.rankValue, total), "html")
  PROVE  /\ SameTenant(x, y) /\ (~IsMeasured(y) => r.rankValue = 0)
         /\ IsMeasured(y) /\ total # 0 => y.share.shows[1] = r.rankValue
<1>1. PICK o, v, s : o = TenantObserved(Agg, r) /\ v = r.rankValue /\ s = Share(v, total)
  OBVIOUS
<1>2. /\ (o <=> RankMeasured(r.tenant)) /\ (~o => v = 0) /\ v \in Int /\ r.rankShare = s
      /\ \A k \in DOMAIN r.groups : GroupFits(r.groups[k])
  BY <1>1 DEF RowFits
<1>3. /\ x.tenant = r.tenant /\ x.value = FormatMeasured(o, v) /\ x.share = ShareCell("markdown", o, s)
      /\ x.groups = Groups(Agg, r, "markdown") /\ x.executions = ExecutionsOf(Agg, r)
  BY <1>1, <1>2 DEF Tenant
<1>4. /\ y.tenant = r.tenant /\ y.value = FormatMeasured(o, v) /\ y.share = ShareCell("html", o, s)
      /\ y.groups = Groups(Agg, r, "html") /\ y.executions = ExecutionsOf(Agg, r)
  BY <1>1, <1>2 DEF Tenant
<1>5. IsFraction(s) /\ (total # 0 => s[1] = v)
  BY <1>1, <1>2, ShareIs
<1>6. SameFigures(x, y) /\ (IsMeasured(x) <=> o) /\ (IsMeasured(y) <=> o) /\ (o => y.share.shows = s)
  BY <1>2, <1>3, <1>4, <1>5, CellsAgree
<1>7. SameGroups(x, y)
  BY <1>2, <1>3, <1>4, GroupsAgree
<1>8. SameTenant(x, y)
  BY <1>2, <1>3, <1>4, <1>6, <1>7 DEF SameTenant, RankMeasured
<1>9. QED
  BY <1>1, <1>2, <1>5, <1>6, <1>8

(* and on what is shared out among the tenants.                            *)
LEMMA PagesFit ==
  ASSUME NEW n \in Nat, DOMAIN Rows = 1..n, ByQuery => Agg.granularity = "group",
         NEW total, total = SumFunction(RankColumn(Rows)), \A k \in DOMAIN Rows : RowFits(Rows[k], total),
         NEW md, md = MarkdownPage(Agg, report.skipped), NEW html, html = HTMLPage(Agg, report.skipped),
         NEW shown, shown = {k \in DOMAIN html.tenants : IsMeasured(html.tenants[k])}
  PROVE  /\ Len(md.tenants) = Len(html.tenants) /\ md.coverage = html.coverage /\ md.unmatched = html.unmatched
         /\ \A k \in DOMAIN md.tenants : SameTenant(md.tenants[k], html.tenants[k])
         /\ SumOver(Rows, LAMBDA r : r.rankValue) = total
         /\ total > 0 => SumFunction([k \in shown |-> html.tenants[k].share.shows[1]]) = total
         /\ md.coverage = Coverage(Agg, report.skipped)
<1>1. PICK f, D : f = RankColumn(Rows) /\ D = DOMAIN Rows
  OBVIOUS
<1>2. DOMAIN f = D /\ D = 1..n /\ (\A k \in D : f[k] = Rows[k].rankValue /\ f[k] \in Int) /\ total = SumFunction(f)
  BY <1>1 DEF RankColumn, RowFits
<1>3. IsFiniteSet(D)
  BY <1>2, FS_Interval
<1>4. total \in Int /\ total = SumFunctionOnSet(f, D)
  BY <1>2, <1>3, SumType DEF SumFunction
<1>5. SumOver(Rows, LAMBDA r : r.rankValue) = total
  BY DEF SumOver, RankColumn
<1>6. SumFunction([k \in DOMAIN Agg.tenants |-> Agg.tenants[k].rankValue]) = total
  BY DEF RankColumn, Rows
<1>7. PICK rows : rows = Agg.tenants
  OBVIOUS
<1>8. rows = Rows /\ DOMAIN rows = D
  BY <1>1, <1>7 DEF Rows
<1>9. /\ md.tenants = [k \in DOMAIN rows |-> Tenant(Agg, rows[k], rows[k].rankShare, "markdown")]
      /\ md.coverage = Coverage(Agg, report.skipped) /\ md.unmatched = UnmatchedTable(Agg)
  BY <1>7 DEF MarkdownPage
<1>10. /\ html.tenants = [k \in DOMAIN rows |-> Tenant(Agg, rows[k], Share(rows[k].rankValue, total), "html")]
       /\ html.coverage = Coverage(Agg, report.skipped) /\ html.unmatched = UnmatchedTable(Agg)
  BY <1>6, <1>7 DEF HTMLPage
<1>11. PICK xs, ys : xs = md.tenants /\ ys = html.tenants
  OBVIOUS
<1>12. /\ DOMAIN xs = D /\ DOMAIN ys = D
       /\ \A k \in D : /\ xs[k] = Tenant(Agg, rows[k], rows[k].rankShare, "markdown")
                       /\ ys[k] = Tenant(Agg, rows[k], Share(rows[k].rankValue, total), "html")
  BY <1>8, <1>9, <1>10, <1>11
<1>13. Len(xs) = n /\ Len(ys) = n
  <2>1. PICK h : h = [k \in D |-> Tenant(Agg, rows[k], rows[k].rankShare, "markdown")]
    OBVIOUS
  <2>2. xs = [k \in 1..n |-> xs[k]]
    BY <1>2, <1>8, <1>9, <1>11
  <2>3. ys = [k \in 1..n |-> ys[k]]
    BY <1>2, <1>8, <1>10, <1>11
  <2>4. QED
    BY <2>2, <2>3, LengthIs
<1>14. ASSUME NEW k \in D
       PROVE  /\ SameTenant(xs[k], ys[k]) /\ (~IsMeasured(ys[k]) => f[k] = 0)
              /\ IsMeasured(ys[k]) /\ total # 0 => ys[k].share.shows[1] = f[k]
  <2>1. PICK r, x, y : r = rows[k] /\ x = xs[k] /\ y = ys[k]
    OBVIOUS
  <2>2. RowFits(r, total) /\ f[k] = r.rankValue
    BY <1>2, <1>8, <1>14, <2>1
  <2>3. x = Tenant(Agg, r, r.rankShare, "markdown") /\ y = Tenant(Agg, r, Share(r.rankValue, total), "html")
    BY <1>12, <1>14, <2>1
  <2>4. /\ SameTenant(x, y) /\ (~IsMeasured(y) => r.rankValue = 0)
        /\ IsMeasured(y) /\ total # 0 => y.share.shows[1] = r.rankValue
    BY <1>4, <2>2, <2>3, TenantsAgree
  <2>5. QED
    BY <2>1, <2>2, <2>4
<1>15. ASSUME total > 0 PROVE SumFunction([k \in shown |-> html.tenants[k].share.shows[1]]) = total
  <2>1. shown \in SUBSET D /\ (\A k \in D \ shown : f[k] = 0) /\ \A k \in shown : ys[k].share.shows[1] = f[k]
    BY <1>4, <1>11, <1>12, <1>14, <1>15
  <2>2. SumFunctionOnSet(f, D) = SumFunctionOnSet(f, shown)
    BY <1>2, <1>3, <2>1, SumRestrict
  <2>3. IsFiniteSet(shown)
    BY <1>3, <2>1, FS_Subset
  <2>4. PICK h : h = [k \in shown |-> ys[k].share.shows[1]]
    OBVIOUS
  <2>5. DOMAIN h = shown /\ \A k \in shown : h[k] = f[k]
    BY <2>1, <2>4
  <2>6. SumFunctionOnSet(h, shown) = SumFunctionOnSet(f, shown)
    BY <2>3, <2>5, SumAgree
  <2>7. SumFunction(h) = total
    BY <1>4, <2>2, <2>5, <2>6 DEF SumFunction
  <2>8. QED
    BY <1>11, <2>4, <2>7
<1>16. \A k \in DOMAIN md.tenants : SameTenant(md.tenants[k], html.tenants[k])
  BY <1>11, <1>12, <1>14
<1>17. QED
  BY <1>5, <1>9, <1>10, <1>11, <1>13, <1>15, <1>16

(* The row of a rule in a report on telemetry.                             *)
LEMMA LogRuleFits ==
  ASSUME None \notin Int, NEW es, AreExecutions(es), NEW m \in Metrics, m = Agg.rankMetric,
         DOMAIN es = Window, \A k \in Window : es[k] = executions[k], NEW defs, NEW t, NEW id \in RulesOf(es, defs, t),
         NEW total, NEW q, IsRuleRow(q, id, Restrict(es, OfRule(es, id)), m, total)
  PROVE  RuleFits(q)
<1>1. PICK own, K : K = OfRule(es, id) /\ own = Restrict(es, K)
  OBVIOUS
<1>2. K \in SUBSET DOMAIN es /\ DOMAIN own = K /\ \A k \in K : own[k] = es[k]
  BY <1>1, RestrictIs DEF OfRule
<1>3. q.id = id /\ q.rankValue = MetricValue(m, own) /\ (q.rankObserved <=> (m = "executions" \/ ObservedIn(m, own)))
  BY <1>1 DEF IsRuleRow
<1>4. q.rankValue \in Int
  BY <1>2, <1>3, FigureIsSum
<1>5. K # {}
  BY <1>1 DEF RulesOf, OfRule, OfTenant
<1>6. RunOf(id) = K
  BY <1>1 DEF RunOf, OfRule
<1>7. Seen(m, K) <=> m = "executions" \/ ObservedIn(m, own)
  BY <1>2, <1>5 DEF Seen, ObservedIn
<1>8. QED
  BY <1>3, <1>4, <1>6, <1>7 DEF RuleFits

(* The row of a group.                                                     *)
LEMMA LogGroupFits ==
  ASSUME None \notin Int, NEW es, AreExecutions(es), NEW m \in Metrics, m = Agg.rankMetric,
         DOMAIN es = Window, \A k \in Window : es[k] = executions[k], NEW defs, NEW t,
         NEW r, r.rankValue \in Int, NEW rules, IsTenantRow(r, t, es, defs, m, rules), NEW j \in DOMAIN r.groups
  PROVE  GroupFits(r.groups[j])
<1>1. PICK keys : /\ Lists(keys, KeysOf(RulesOf(es, defs, t))) /\ DOMAIN r.groups = DOMAIN keys
                  /\ \A k \in DOMAIN keys : IsGroupRow(r.groups[k], keys[k], rules, r.rankValue)
  BY DEF IsTenantRow
<1>2. PICK g, key, total : g = r.groups[j] /\ key = keys[j] /\ total = r.rankValue
  OBVIOUS
<1>3. IsGroupRow(g, key, rules, total) /\ total \in Int
  BY <1>1, <1>2
<1>4. g.rankValue \in Int /\ g.rankShare = Share(g.rankValue, total)
  BY <1>3 DEF IsGroupRow
<1>5. IsFraction(g.rankShare)
  BY <1>3, <1>4, ShareIs
<1>6. ASSUME NEW k \in DOMAIN g.rules PROVE RuleFits(g.rules[k])
  <2>1. PICK ids : ids = {x \in DOMAIN rules : GroupKey(x) = key}
    OBVIOUS
  <2>2. PICK id \in ids : g.rules[k] = rules[id]
    <3>1. \A h \in DOMAIN g.rules : \E id \in ids : g.rules[h] = rules[id]
      BY <1>3, <2>1, RulesInGroup, SMTT(60)
    <3>2. QED
      BY <1>6, <3>1
  <2>3. id \in RulesOf(es, defs, t)
    BY <2>1, <2>2 DEF IsTenantRow
  <2>4. IsRuleRow(rules[id], id, Restrict(es, OfRule(es, id)), m, total)
    BY <1>2, <2>3 DEF IsTenantRow
  <2>5. PICK q : q = rules[id]
    OBVIOUS
  <2>6. RuleFits(q)
    BY <2>3, <2>4, <2>5, LogRuleFits
  <2>7. QED
    BY <2>2, <2>5, <2>6
<1>7. QED
  BY <1>2, <1>4, <1>5, <1>6 DEF GroupFits

(* The row of a tenant.                                                    *)
LEMMA LogRowFits ==
  ASSUME ByLog, Agg.granularity = "rule", None \notin Int, NEW es, AreExecutions(es), NEW m \in Metrics, m = Agg.rankMetric,
         DOMAIN es = Window, \A k \in Window : es[k] = executions[k], NEW defs, NEW t,
         NEW r, r.rankValue \in Int, NEW rules, IsTenantRow(r, t, es, defs, m, rules), NEW total, total = MetricValue(m, es)
  PROVE  RowFits(r, total)
<1>1. \A k \in DOMAIN r.groups : GroupFits(r.groups[k])
  BY LogGroupFits
<1>2. r.rankShare = Share(r.rankValue, total)
  BY DEF IsTenantRow
<1>3. PICK P, g : P = OfTenant(es, t) /\ g = Figures(Restrict(es, P))
  OBVIOUS
<1>4. P \in SUBSET DOMAIN es /\ r.tenant = t /\ r.figures = g /\ r.rankValue = Total(m, es, P)
  BY <1>3 DEF OfTenant, IsTenantRow
<1>5. CASE m = "executions"
  <2>1. TenantObserved(Agg, r) /\ RankMeasured(r.tenant)
    BY <1>5 DEF TenantObserved, RankMeasured
  <2>2. QED
    BY <1>1, <1>2, <2>1 DEF RowFits
<1>6. CASE m # "executions"
  <2>1. m \in Stats
    BY <1>6 DEF Metrics
  <2>2. /\ g.observed[m] <=> \E k \in P : es[k].stats[m] # None
        /\ (\A k \in P : es[k].stats[m] = None) => Total(m, es, P) = 0
    BY <1>3, <1>4, <2>1, FiguresAre, UnmeasuredIsZero
  <2>3. RunBy(t) = P
    BY <1>3 DEF RunBy, OfTenant
  <2>4. Seen(m, P) <=> \E k \in P : es[k].stats[m] # None
    BY <1>4, <1>6 DEF Seen
  <2>5. RankMeasured(t) <=> Seen(m, P)
    BY <1>6, <2>3 DEF RankMeasured
  <2>6. TenantObserved(Agg, r) = g.observed[m]
    BY <1>4, <1>6 DEF TenantObserved
  <2>7. TenantObserved(Agg, r) <=> RankMeasured(t)
    BY <2>2, <2>4, <2>5, <2>6
  <2>8. ~TenantObserved(Agg, r) => r.rankValue = 0
    BY <1>4, <2>2, <2>4, <2>5, <2>7
  <2>9. QED
    BY <1>1, <1>2, <1>4, <2>7, <2>8 DEF RowFits
<1>7. QED
  BY <1>5, <1>6

(* The pages of a report on telemetry agree.                               *)
LEMMA LogPagesAgree ==
  ASSUME LogInv, ReadInv, ByLog
  PROVE  PagesAgree
<1>1. PICK es, defs, m, total : es = Counted /\ defs = definitions /\ m = PickRankMetric(es) /\ total = SumFunction(RankColumn(Rows))
  OBVIOUS
<1>2. /\ None \notin Int /\ AreExecutions(es) /\ DOMAIN es = Window /\ (\A k \in Window : es[k] = executions[k])
      /\ m \in Metrics /\ Agg.rankMetric = m /\ Agg.granularity = "rule" /\ Agg.total = Cardinality(Window)
      /\ report.skipped = readErrs /\ Len(Agg.unmatched) = Cardinality(Strays(es, defs))
  BY <1>1, LogReport
<1>3. PICK ts : ListsTenants(Rows, ts, es, defs, m)
  BY <1>1, LogReport
<1>4. total = MetricValue(m, es)
  BY <1>1, <1>2, <1>3, TenantsAddUp
<1>5. ASSUME NEW k \in DOMAIN Rows PROVE RowFits(Rows[k], total)
  <2>1. PICK r, t : r = Rows[k] /\ t = ts[k]
    OBVIOUS
  <2>2. r.rankValue \in Int /\ \E rules : IsTenantRow(r, t, es, defs, m, rules)
    BY <1>3, <1>5, <2>1 DEF ListsTenants
  <2>3. PICK rules : IsTenantRow(r, t, es, defs, m, rules)
    BY <2>2
  <2>4. RowFits(r, total)
    BY <1>2, <1>4, <2>2, <2>3, LogRowFits
  <2>5. QED
    BY <2>1, <2>4
<1>6. PICK n : n = Cardinality(ReportedTenants(es, defs))
  OBVIOUS
<1>7. n \in Nat /\ DOMAIN Rows = 1..n
  BY <1>3, <1>6, ListedAll DEF ListsTenants
<1>8. ~ByQuery
  BY DEF ByLog, ByQuery
<1>9. PICK md, html, shown : /\ md = MarkdownPage(Agg, report.skipped) /\ html = HTMLPage(Agg, report.skipped)
                             /\ shown = {k \in DOMAIN html.tenants : IsMeasured(html.tenants[k])}
  OBVIOUS
<1>10. /\ Len(md.tenants) = Len(html.tenants) /\ md.coverage = html.coverage /\ md.unmatched = html.unmatched
       /\ \A k \in DOMAIN md.tenants : SameTenant(md.tenants[k], html.tenants[k])
       /\ SumOver(Rows, LAMBDA r : r.rankValue) = total
       /\ total > 0 => SumFunction([k \in shown |-> html.tenants[k].share.shows[1]]) = total
       /\ md.coverage = Coverage(Agg, report.skipped)
  BY <1>1, <1>5, <1>7, <1>8, <1>9, PagesFit
<1>11. PICK line, u, w : line = md.coverage /\ u = Len(Agg.unmatched) /\ w = Agg.total
  OBVIOUS
<1>12. /\ line.captured = w + readErrs /\ line.matched = w - u /\ line.unmatched = u /\ line.skipped = readErrs
  BY <1>2, <1>10, <1>11 DEF Coverage
<1>13. u \in Int /\ w \in Int /\ readErrs \in Int
  <2>1. IsFiniteSet(Window)
    BY <1>2 DEF AreExecutions
  <2>2. PICK S : S = Strays(es, defs)
    OBVIOUS
  <2>3. S \subseteq Window
    BY <1>2, <2>2 DEF Strays
  <2>4. IsFiniteSet(S)
    BY <2>1, <2>3, FS_Subset
  <2>5. Cardinality(S) \in Nat /\ Cardinality(Window) \in Nat
    BY <2>1, <2>4, FS_CardinalityType
  <2>6. readErrs \in Nat
    BY DEF ReadInv, ByLog
  <2>7. QED
    BY <1>2, <1>11, <2>2, <2>5, <2>6
<1>14. line.captured = line.matched + line.unmatched + line.skipped
  BY <1>12, <1>13
<1>15. ASSUME cutoff = None PROVE line.captured = Len(lines)
  <2>1. Window = DOMAIN executions
    BY <1>15 DEF Window
  <2>2. IsASeq(executions)
    BY DEF LogInv
  <2>3. PICK e : e = Len(executions)
    OBVIOUS
  <2>4. e \in Nat /\ Window = 1..e
    BY <2>1, <2>2, <2>3 DEF IsASeq
  <2>5. Cardinality(1..e) = e
    BY <2>4, FS_Interval
  <2>6. w = e
    BY <1>2, <1>11, <2>4, <2>5
  <2>7. Len(lines) = e + readErrs
    BY <2>3 DEF ReadInv, ByLog
  <2>8. QED
    BY <1>12, <2>6, <2>7
<1>16. QED
  BY <1>8, <1>9, <1>10, <1>11, <1>14, <1>15 DEF PagesAgree

(* So do those of a report without telemetry.                              *)
LEMMA QueryPagesAgree ==
  ASSUME MetricsInv, ByQuery
  PROVE  PagesAgree
<1>1. PICK A, m, total : A = accums /\ m = Agg.rankMetric /\ total = SumFunction(RankColumn(Rows))
  OBVIOUS
<1>2. /\ None \notin Int /\ AreAccums(A) /\ m \in {"duration", "executions"} /\ Agg.granularity = "group"
      /\ \A t \in DOMAIN A : A[t].duration = SaidOf(1, t)
  BY <1>1, QueryReport
<1>3. PICK ts : /\ Lists(ts, DOMAIN A) /\ DOMAIN Rows = DOMAIN ts
                /\ \A k \in DOMAIN ts : IsObservedRow(Rows[k], ts[k], A, m, SumFunction(RankedOf(A, m)))
  BY <1>1, QueryReport
<1>4. PICK b, D : b = RankedOf(A, m) /\ D = DOMAIN A
  OBVIOUS
<1>5. DOMAIN b = D /\ \A t \in D : b[t] = RankOf(A[t], m) /\ b[t] \in Int
  BY <1>2, <1>4 DEF RankedOf, RankOf, AreAccums
<1>6. total = SumFunction(b) /\ total \in Int
  <2>1. PICK a : a = RankColumn(Rows)
    OBVIOUS
  <2>2. \A k \in DOMAIN ts : ts[k] \in D
    BY <1>3, <1>4, ListedAll
  <2>3. DOMAIN a = DOMAIN ts /\ \A k \in DOMAIN ts : a[k] = b[ts[k]]
    BY <1>3, <1>5, <2>1, <2>2 DEF RankColumn, IsObservedRow
  <2>4. SumFunctionOnSet(a, DOMAIN ts) = SumFunctionOnSet(b, D)
    BY <1>3, <1>4, <1>5, <2>3, SumListed
  <2>5. IsFiniteSet(D)
    BY <1>2, <1>4 DEF AreAccums
  <2>6. SumFunctionOnSet(b, D) \in Int
    BY <1>5, <2>5, SumType
  <2>7. QED
    BY <1>1, <1>5, <2>1, <2>3, <2>4, <2>6 DEF SumFunction
<1>7. ASSUME NEW k \in DOMAIN Rows PROVE RowFits(Rows[k], total)
  <2>1. PICK r, t : r = Rows[k] /\ t = ts[k]
    OBVIOUS
  <2>2. t \in D /\ IsObservedRow(r, t, A, m, total)
    BY <1>3, <1>4, <1>6, <1>7, <2>1, ListedAll
  <2>3. /\ r.tenant = t /\ r.rankValue = RankOf(A[t], m) /\ r.rankShare = Share(RankOf(A[t], m), total)
        /\ r.groups = ObservedGroups(A[t].groups)
    BY <2>2 DEF IsObservedRow
  <2>4. r.rankValue \in Int /\ r.rankShare = Share(r.rankValue, total)
    BY <1>5, <2>2, <2>3
  <2>5. \A j \in DOMAIN r.groups : GroupFits(r.groups[j])
    <3>1. PICK groups, gs : groups = A[t].groups /\ gs = r.groups
      OBVIOUS
    <3>2. IsFiniteSet(DOMAIN groups) /\ DOMAIN groups \subseteq Int \X Int /\ \A g \in DOMAIN groups : groups[g] \in Int
      BY <1>2, <1>4, <2>2, <3>1 DEF AreAccums
    <3>3. gs = ObservedGroups(groups)
      BY <2>3, <3>1
    <3>4. \A j \in DOMAIN gs : gs[j].rules = <<>> /\ IsFraction(gs[j].rankShare)
      BY <3>2, <3>3, ObservedGroupsAre
    <3>5. ASSUME NEW g, g.rules = <<>>, IsFraction(g.rankShare) PROVE GroupFits(g)
      <4>1. DOMAIN g.rules = {}
        BY <3>5
      <4>2. QED
        BY <3>5, <4>1 DEF GroupFits
    <3>6. QED
      BY <3>1, <3>4, <3>5
  <2>6. CASE m = "executions"
    <3>1. TenantObserved(Agg, r) /\ RankMeasured(r.tenant)
      BY <1>1, <2>6 DEF TenantObserved, RankMeasured
    <3>2. RowFits(r, total)
      BY <2>4, <2>5, <3>1 DEF RowFits
    <3>3. QED
      BY <2>1, <3>2
  <2>7. CASE m = "duration"
    <3>1. r \in Range(Rows)
      BY <1>7, <2>1 DEF Range
    <3>2. r.durationObserved <=> TimedBy(t)
      BY <2>3, <3>1, QueryFlagsMeasured
    <3>3. TenantObserved(Agg, r) = r.durationObserved
      BY <1>1, <1>2, <2>7 DEF TenantObserved
    <3>4. RankMeasured(t) <=> TimedBy(t)
      BY <1>1, <2>7 DEF RankMeasured, ByLog, ByQuery
    <3>5. TenantObserved(Agg, r) <=> RankMeasured(t)
      BY <3>2, <3>3, <3>4
    <3>6. ~TimedBy(t) => r.rankValue = 0
      <4>1. AccumIs(A[t], t, asked) /\ AreAnswers(asked) /\ DOMAIN asked = 1..3
        BY <1>1, <1>4, <2>2, QueryReport
      <4>2. PICK res : res = asked[1].result
        OBVIOUS
      <4>3. IsResult(res)
        BY <4>1, <4>2 DEF AreAnswers
      <4>4. \A j \in DOMAIN res : Usable(res[j]) <=> res[j].user # None /\ res[j].pair.kind = "finite"
        BY <1>2, <4>3, UsableIs
      <4>5. ~TimedBy(t) => Own(res, t) = {}
        BY <4>2, <4>4 DEF Own, TimedBy, Range
      <4>6. Own(res, t) = {} => Said(res, t) = 0
        BY <1>2, <4>3, SaidIs
      <4>7. r.rankValue = Said(res, t)
        BY <2>3, <2>7, <4>1, <4>2 DEF AccumIs, Told, RankOf
      <4>8. QED
        BY <4>5, <4>6, <4>7
    <3>7. RowFits(r, total)
      BY <2>3, <2>4, <2>5, <3>4, <3>5, <3>6 DEF RowFits
    <3>8. QED
      BY <2>1, <3>7
  <2>8. QED
    BY <1>2, <2>1, <2>6, <2>7
<1>8. PICK n : n = Cardinality(D)
  OBVIOUS
<1>9. n \in Nat /\ DOMAIN Rows = 1..n
  BY <1>3, <1>4, <1>8, ListedAll
<1>10. PICK md, html, shown : /\ md = MarkdownPage(Agg, report.skipped) /\ html = HTMLPage(Agg, report.skipped)
                              /\ shown = {k \in DOMAIN html.tenants : IsMeasured(html.tenants[k])}
  OBVIOUS
<1>11. /\ Len(md.tenants) = Len(html.tenants) /\ md.coverage = html.coverage /\ md.unmatched = html.unmatched
       /\ \A k \in DOMAIN md.tenants : SameTenant(md.tenants[k], html.tenants[k])
       /\ SumOver(Rows, LAMBDA r : r.rankValue) = total
       /\ total > 0 => SumFunction([k \in shown |-> html.tenants[k].share.shows[1]]) = total
  BY <1>1, <1>2, <1>7, <1>9, <1>10, PagesFit
<1>12. ~ByLog
  BY DEF ByLog, ByQuery
<1>13. QED
  BY <1>10, <1>11, <1>12 DEF PagesAgree

--------------------------------------------------------------------------------
(* The theorems.                                                           *)

(* Every execution of the window is counted once: tenants add up to the    *)
(* report, rules and unmatched executions to their tenant in every figure, *)
(* and each rule is in the group of its file that defines it               *)
(* (attribution.go:171).                                                   *)
THEOREM EveryExecutionCounted == Spec => []WorkCountedOnce
<1>1. LogInv /\ ReadInv /\ MetricsInv => WorkCountedOnce
  BY LogCountsOnce, QueryCountsOnce DEF WorkCountedOnce
<1>2. QED
  BY <1>1, LogInductive, ReadInductive, MetricsInductive, PTL

(* No tenant vanishes and none is made up: one row for each tenant that    *)
(* owns a rule or ran one, or that one of the three queries mentions, with *)
(* what they said of it and nothing else (promapi.go:170).                 *)
THEOREM NoTenantVanishes == Spec => []EveryTenantReported
<1>1. LogInv /\ ReadInv /\ MetricsInv => EveryTenantReported
  BY LogReportsTenants, QueryReportsTenants DEF EveryTenantReported
<1>2. QED
  BY <1>1, LogInductive, ReadInductive, MetricsInductive, PTL

(* A figure is flagged as measured exactly when some record measured it,   *)
(* and a report ranks by a figure only if some tenant measured it above    *)
(* zero (attribution.go:195).                                              *)
THEOREM MeasuredIsFlagged == Spec => []UnmeasuredIsNotZero
<1>1. LogInv /\ ReadInv /\ MetricsInv => UnmeasuredIsNotZero
  BY LogFlagsMeasured, QueryFlagsMeasured DEF UnmeasuredIsNotZero
<1>2. QED
  BY <1>1, LogInductive, ReadInductive, MetricsInductive, PTL

(* The Markdown and the HTML page show the same figures and shares and the *)
(* same gaps, share out all of what the tenants add up to, and account for *)
(* every record that was read (workload_md.go, workload_html.go).          *)
THEOREM PagesTellTheSame == Spec => []PagesAgree
<1>1. LogInv /\ ReadInv /\ MetricsInv => PagesAgree
  <2>1. main = "rendered" => ByLog \/ ByQuery
    BY DEF ByLog, ByQuery
  <2>2. main # "rendered" => PagesAgree
    BY DEF PagesAgree
  <2>3. QED
    BY <2>1, <2>2, LogPagesAgree, QueryPagesAgree
<1>2. QED
  BY <1>1, LogInductive, ReadInductive, MetricsInductive, PTL
================================================================================
