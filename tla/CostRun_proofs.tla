----------------------------- MODULE CostRun_proofs ----------------------------
(***************************************************************************)
(* Theorems about one run of the cost command for any responses Mimir may  *)
(* give, any requests and inventories, any windows and any expected        *)
(* tenants, with every query free to fail. ReadInv says what each read has *)
(* heard and made of it so far; RunInv, what the run has measured, in      *)
(* which order, and that its report is made of exactly that.               *)
(***************************************************************************)
EXTENDS CostRun, CollectionTheorems, SequenceTheorems

Drivers == {r.drivers : r \in Responses} \cup {<<>>}
MemoryQueries == {"classic", "ingest storage", "points", "replication factor"}
ProbeQueries  == {"distributor queries", "ruler query seconds", "ruler evaluations"}
InferQueries  == ProbeQueries \cup {"rule evaluation seconds"}
Queries       == MemoryQueries \cup InferQueries \cup {"mode", "chain"}
RulerPools    == {PoolQueryPath, PoolRulerCPU}
Metrics == {QueryPathChain[k] : k \in 1..4}
           \cup {"", "classic", "ingest storage", "rule evaluation seconds"}

Answer  == [query : Queries, link : 0..4, response : Responses]

Measurements ==
    [pool : KnownPools \cup {None}, drivers : Drivers, metric : Metrics,
     zeroed : [link : 1..4, drivers : Drivers] \cup {None},
     unreplicated : BOOLEAN, deduplicated : BOOLEAN,
     rf : FactorAnswers \cup {None}, ruleEvaluation : Modes, fallback : BOOLEAN]

ModeType == [mode : Modes \cup {None}, evalSeconds : Drivers,
             distributor : BOOLEAN, querySeconds : BOOLEAN, evaluations : BOOLEAN]

Calls == [pool : KnownPools \cup {None}, window : Windows \cup {None},
          query : Queries \cup {"none"}, link : 0..4]

SourceTypes ==
    /\ call \in Calls
    /\ m \in Measurements
    /\ mode \in ModeType
    /\ evalModes \in [Windows -> ModeType]
    /\ heard \in Seq(Answer)
    /\ last = Nothing \/ (last \in Measurements /\ last.pool # None)

(* Which query belongs to which read.                                      *)
WhoAsks ==
    \/ call = Idle
    \/ call.query \in MemoryQueries /\ call.pool = PoolIngesterMemory /\ m.pool = PoolIngesterMemory
    \/ /\ call.query \in InferQueries \cup {"mode"}
       /\ call.pool \in RulerPools /\ m = Measurement(call.pool)
    \/ /\ call.query = "chain" /\ call.link \in 1..4
       /\ call.pool = PoolQueryPath /\ m.pool = PoolQueryPath

OneAtATime ==
    /\ request.window \in Windows
    /\ call # Idle => last = Nothing /\ call.window = request.window

(* Pool 1.                                                                 *)
OnePath(x) ==
    /\ heard[1].response.any =>
            Len(heard) = 1 /\ x.drivers = heard[1].response.drivers /\ ~x.deduplicated
    /\ ~heard[1].response.any =>
            /\ Len(heard) = 2 /\ heard[1].query = "classic" /\ heard[2].query = "ingest storage"
            /\ x.drivers = heard[2].response.drivers
            /\ (x.deduplicated <=> heard[2].response.any)

MemoryRead ==
    /\ call.query = "classic" => heard = <<>> /\ ~m.deduplicated
    /\ call.query = "ingest storage" =>
            Len(heard) = 1 /\ heard[1].query = "classic" /\ ~heard[1].response.any
    /\ call.query \in {"points", "replication factor"} => OnePath(m)
    /\ last.pool = PoolIngesterMemory => OnePath(last)

(* Pool 6: the answers of the chain come after o others, in its order.     *)
AsksFrom(o, n) ==
    /\ Len(heard) = o + n
    /\ \A i \in 1..o : heard[i].query # "chain"
    /\ \A k \in 1..n : heard[o + k].query = "chain" /\ heard[o + k].link = k

Told(o, k)   == heard[o + k].response.drivers
IsZero(o, k) == SumFunction(Told(o, k)) <= 0
Silent(o, n) == \A k \in 1..n : DOMAIN Told(o, k) = {}
FirstTold(o, n, k) ==
    /\ k \in 1..n /\ DOMAIN Told(o, k) # {}
    /\ \A j \in 1..(k - 1) : DOMAIN Told(o, j) = {}

(* zeroed is the first answer with a tenant in it.                         *)
ZeroedIs(o, n, z) ==
    \/ z = None /\ Silent(o, n)
    \/ z # None /\ FirstTold(o, n, z.link) /\ z.drivers = Told(o, z.link)

ChainSoFar(o, n) ==
    /\ AsksFrom(o, n)
    /\ \A k \in 1..n : IsZero(o, k)
    /\ m.drivers = <<>> /\ m.metric = "" /\ ~m.fallback
    /\ ZeroedIs(o, n, m.zeroed)

Takes(o, k) ==
    last.drivers = Told(o, k) /\ last.metric = QueryPathChain[k] /\ (last.fallback <=> k = 4)

ChainEnded(o, n) ==
    /\ AsksFrom(o, n)
    /\ \A k \in 1..n - 1 : IsZero(o, k)
    /\ \/ ~IsZero(o, n) /\ Takes(o, n)
       \/ IsZero(o, n) /\ n = 4 /\ \E k \in 1..4 : FirstTold(o, n, k) /\ Takes(o, k)
       \/ /\ n = 4 /\ Silent(o, n) /\ IsZero(o, n)
          /\ last.drivers = <<>> /\ last.metric = QueryPathChain[1] /\ ~last.fallback

ChainRead ==
    /\ call.query = "rule evaluation seconds" => heard = <<>>
    /\ call.query \in ProbeQueries \cup {"mode"} => \E o \in {0, 1} : AsksFrom(o, 0)
    /\ call.query = "chain" => \E o \in {0, 1} : ChainSoFar(o, call.link - 1)
    /\ last.pool = PoolQueryPath => \E o \in {0, 1}, n \in 1..4 : ChainEnded(o, n)

(* Where rules are evaluated.                                              *)
Agrees(x)  == Cached(request.window) /\ x.ruleEvaluation = evalModes[request.window].mode
Decided(e) == e.mode # None /\ (operatorMode # "" => e.mode = operatorMode)

ModeRead ==
    /\ operatorMode \in RuleEvaluations
    /\ \A w \in Windows : Cached(w) => Decided(evalModes[w])
    /\ call.query \in InferQueries => ~Cached(call.window)
    /\ call.query \in ProbeQueries => operatorMode = ""
    /\ call.query = "mode" =>
            Decided(mode) /\ (Cached(call.window) => mode = evalModes[call.window])
    /\ call.query = "chain" => Agrees(m)
    /\ last.pool \in RulerPools => Agrees(last)

ReadInv == SourceTypes /\ WhoAsks /\ OneAtATime /\ MemoryRead /\ ChainRead /\ ModeRead

--------------------------------------------------------------------------------
(* Constants and the sequence of answers.                                  *)

(* The constants: a response adds up to a number, nil is no pool, no mode  *)
(* and no answer, the pools and the drivers of the chain are all           *)
(* different.                                                              *)
LEMMA Constants ==
  /\ \A r \in Responses : SumFunction(r.drivers) \in Int /\ r.drivers \in Drivers /\ r.any \in BOOLEAN
  /\ None \notin KnownPools \cup Modes
  /\ \A r \in Responses, k \in 1..4 : None # [link |-> k, drivers |-> r.drivers]
  /\ KnownPools = {PoolIngesterMemory, PoolQueryPath, PoolRulerCPU}
  /\ None # PoolIngesterMemory /\ None # PoolQueryPath /\ None # PoolRulerCPU
  /\ PoolIngesterMemory # PoolQueryPath /\ PoolIngesterMemory # PoolRulerCPU /\ PoolQueryPath # PoolRulerCPU
  /\ <<>> \in Drivers
  /\ Len(QueryPathChain) = 4 /\ Seconds = 4
  /\ \A k \in 1..4 : QueryPathChain[k] \in Metrics /\ (QueryPathChain[k] = QueryPathChain[4] => k = 4)
<1>1. ASSUME NEW r \in Responses PROVE SumFunction(r.drivers) \in Int
  <2>1. \A t \in DOMAIN r.drivers : r.drivers[t] \in Int
    BY DriversAssumption
  <2>2. IsFiniteSet(DOMAIN r.drivers)
    BY DriversAssumption
  <2>3. QED
    BY <2>1, <2>2, SumType DEF SumFunction
<1>2. Len(QueryPathChain) = 4 /\ Seconds = 4
  BY DEF QueryPathChain, Seconds
<1>3. KnownPools = {PoolIngesterMemory, PoolQueryPath, PoolRulerCPU}
  BY DEF KnownPools, PoolOrder, Range
<1>4. \A k \in 1..4 : QueryPathChain[k] \in Metrics /\ (QueryPathChain[k] = QueryPathChain[4] => k = 4)
  <2>1. /\ QueryPathChain[1] = "chunk bytes" /\ QueryPathChain[2] = "samples processed"
        /\ QueryPathChain[3] = "series fetched" /\ QueryPathChain[4] = "query seconds"
    BY DEF QueryPathChain
  <2>2. \A k \in 1..4 : QueryPathChain[k] = QueryPathChain[4] => k = 4
    <3>1. ASSUME NEW k \in 1..4, QueryPathChain[k] = QueryPathChain[4] PROVE k = 4
      <4>1. k = 1 \/ k = 2 \/ k = 3 \/ k = 4
        OBVIOUS
      <4>2. QED
        BY <2>1, <3>1, <4>1
    <3>2. QED
      BY <3>1
  <2>3. \A k \in 1..4 : QueryPathChain[k] \in Metrics
    BY DEF Metrics
  <2>4. QED
    BY <2>2, <2>3
<1>5. None # PoolIngesterMemory /\ None # PoolQueryPath /\ None # PoolRulerCPU
  BY <1>3, DriversAssumption
<1>6. PoolIngesterMemory # PoolQueryPath /\ PoolIngesterMemory # PoolRulerCPU /\ PoolQueryPath # PoolRulerCPU
  BY DEF PoolIngesterMemory, PoolQueryPath, PoolRulerCPU
<1>7. \A r \in Responses, k \in 1..4 : None # [link |-> k, drivers |-> r.drivers]
  BY <1>2, DriversAssumption
<1>8. QED
  BY <1>1, <1>2, <1>3, <1>4, <1>5, <1>6, <1>7, DriversAssumption DEF Drivers

(* An answer is heard after the others.                                    *)
LEMMA HeardGrows ==
  ASSUME heard \in Seq(Answer), NEW q \in Queries, call.link \in 0..4, NEW r \in Responses, Heard(q, r)
  PROVE  /\ heard' \in Seq(Answer) /\ Len(heard) \in Nat /\ Len(heard') = Len(heard) + 1
         /\ \A i \in 1..Len(heard) : heard'[i] = heard[i]
         /\ heard'[Len(heard) + 1].query = q /\ heard'[Len(heard) + 1].link = call.link
         /\ heard'[Len(heard) + 1].response = r
<1>1. PICK a : a = [query |-> q, link |-> call.link, response |-> r]
  OBVIOUS
<1>2. a \in Answer
  BY <1>1 DEF Answer
<1>3. PICK S : S = Answer
  OBVIOUS
<1>4. heard' = Append(heard, a)
  BY <1>1 DEF Heard
<1>5. heard' \in Seq(S) /\ Len(heard) \in Nat /\ Len(heard') = Len(heard) + 1
      /\ (\A i \in 1..Len(heard) : heard'[i] = heard[i]) /\ heard'[Len(heard) + 1] = a
  BY <1>2, <1>3, <1>4, AppendProperties, LenProperties
<1>6. QED
  BY <1>1, <1>3, <1>5

(* The names of the queries.                                               *)
LEMMA QueryNames ==
  /\ "classic" \in Queries /\ "ingest storage" \in Queries /\ "points" \in Queries
  /\ "replication factor" \in Queries /\ "rule evaluation seconds" \in Queries
  /\ "distributor queries" \in Queries /\ "ruler query seconds" \in Queries
  /\ "ruler evaluations" \in Queries /\ "mode" \in Queries /\ "chain" \in Queries
  /\ "none" \notin Queries
BY DEF Queries, MemoryQueries, ProbeQueries, InferQueries

(* Asking the next query leaves the read it belongs to alone.              *)
LEMMA AskMoves ==
  ASSUME SourceTypes, NEW q \in Queries, Ask(q)
  PROVE  /\ call' \in Calls /\ call'.query = q
         /\ call'.pool = call.pool /\ call'.window = call.window /\ call'.link = call.link
<1>1. call \in Calls /\ call' = [call EXCEPT !.query = q]
  BY DEF SourceTypes, Ask
<1>2. QED
  BY <1>1 DEF Calls

(* The query that is asked tells which pool is read and what the           *)
(* measurement is so far.                                                  *)
LEMMA WhoIs ==
  ASSUME ReadInv
  PROVE  /\ call.link \in 0..4 /\ call \in Calls
         /\ call.query \in MemoryQueries =>
                call # Idle /\ call.pool = PoolIngesterMemory /\ m.pool = PoolIngesterMemory
         /\ call.query \in InferQueries \cup {"mode"} =>
                call # Idle /\ call.pool \in RulerPools /\ m = Measurement(call.pool)
         /\ call.query = "chain" =>
                call # Idle /\ call.link \in 1..4 /\ call.pool = PoolQueryPath /\ m.pool = PoolQueryPath
<1>1. call \in Calls /\ Idle.query = "none" /\ WhoAsks
  BY DEF ReadInv, SourceTypes, Idle
<1>2. call.link \in 0..4
  BY <1>1 DEF Calls
<1>3. call.query \in MemoryQueries => call # Idle /\ call.pool = PoolIngesterMemory /\ m.pool = PoolIngesterMemory
  BY <1>1 DEF WhoAsks, MemoryQueries, InferQueries, ProbeQueries
<1>4. call.query \in InferQueries \cup {"mode"} =>
                call # Idle /\ call.pool \in RulerPools /\ m = Measurement(call.pool)
  BY <1>1 DEF WhoAsks, MemoryQueries, InferQueries, ProbeQueries
<1>5. call.query = "chain" =>
                call # Idle /\ call.link \in 1..4 /\ call.pool = PoolQueryPath /\ m.pool = PoolQueryPath
  BY <1>1 DEF WhoAsks, MemoryQueries, InferQueries, ProbeQueries
<1>6. QED
  BY <1>1, <1>2, <1>3, <1>4, <1>5

--------------------------------------------------------------------------------
(* Pool 1.                                                                 *)

(* The classic series query keeps ReadInv.                                 *)
LEMMA ClassicKeeps ==
  ASSUME ReadInv, ClassicSeries, UNCHANGED <<operatorMode, request>>
  PROVE  ReadInv'
<1>1. PICK r \in Responses :
        /\ Heard("classic", r)
        /\ m' = [m EXCEPT !.drivers = r.drivers, !.metric = IF r.any THEN "classic" ELSE ""]
        /\ Ask(IF r.any THEN "points" ELSE "ingest storage")
  BY DEF ClassicSeries
<1>2. call.query = "classic" /\ UNCHANGED <<mode, evalModes, last, operatorMode, request>>
  BY DEF ClassicSeries
<1>3. call # Idle /\ call.pool = PoolIngesterMemory /\ m.pool = PoolIngesterMemory /\ call.link \in 0..4
  BY <1>2, WhoIs DEF MemoryQueries
<1>4. /\ heard' \in Seq(Answer) /\ Len(heard') = 1
      /\ heard'[1].query = "classic" /\ heard'[1].response = r
  <2>1. heard = <<>>
    BY <1>2 DEF ReadInv, MemoryRead
  <2>2. Len(heard) = 0 /\ heard \in Seq(Answer)
    BY <2>1 DEF ReadInv, SourceTypes
  <2>3. /\ heard' \in Seq(Answer) /\ Len(heard') = Len(heard) + 1
        /\ heard'[Len(heard) + 1].query = "classic" /\ heard'[Len(heard) + 1].response = r
    <3>1. "classic" \in Queries
      BY QueryNames
    <3> HIDE DEF Queries
    <3>2. QED
      BY <1>1, <1>3, <2>2, <3>1, HeardGrows
  <2>4. QED
    BY <2>2, <2>3
<1>5. /\ call'.pool = PoolIngesterMemory /\ call'.window = call.window /\ call'.link = call.link
      /\ call'.query = (IF r.any THEN "points" ELSE "ingest storage")
      /\ call' \in Calls
  BY <1>1, <1>3, AskMoves, QueryNames DEF ReadInv
<1>6. m'.pool = PoolIngesterMemory /\ m'.drivers = r.drivers /\ m'.deduplicated = m.deduplicated /\ m' \in Measurements
  <2>1. m \in Measurements /\ (IF r.any THEN "classic" ELSE "") \in Metrics
    BY DEF ReadInv, SourceTypes, Metrics
  <2>2. PICK x : x = IF r.any THEN "classic" ELSE ""
    OBVIOUS
  <2>3. r.drivers \in Drivers /\ x \in Metrics /\ m' = [m EXCEPT !.drivers = r.drivers, !.metric = x]
    BY <1>1, <2>1, <2>2, Constants
  <2>4. QED
    BY <1>3, <2>1, <2>3 DEF Measurements
<1>7. SourceTypes'
  BY <1>2, <1>4, <1>5, <1>6 DEF ReadInv, SourceTypes
<1>8. WhoAsks'
  BY <1>5, <1>6 DEF WhoAsks, MemoryQueries
<1>9. OneAtATime' /\ last = Nothing
  BY <1>2, <1>3, <1>5 DEF ReadInv, OneAtATime
<1>10. MemoryRead'
  <2>1. last'.pool = None /\ None # PoolIngesterMemory
    BY <1>2, <1>9, Constants DEF Nothing
  <2>2. ~m.deduplicated
    BY <1>2 DEF ReadInv, MemoryRead
  <2>3. r.any \in BOOLEAN /\ call'.query # "classic"
    BY <1>5, DriversAssumption
  <2>4. CASE r.any
    BY <1>4, <1>5, <1>6, <2>1, <2>2, <2>3, <2>4 DEF MemoryRead, OnePath
  <2>5. CASE ~r.any
    BY <1>4, <1>5, <1>6, <2>1, <2>2, <2>3, <2>5 DEF MemoryRead, OnePath
  <2>6. QED
    BY <2>4, <2>5
<1>11. ChainRead'
  <2>1. last'.pool # PoolQueryPath
    BY <1>2, <1>9, Constants DEF Nothing
  <2>2. QED
    BY <1>5, <2>1 DEF ChainRead, ProbeQueries
<1>12. ModeRead'
  <2>1. last'.pool \notin RulerPools
    BY <1>2, <1>9, Constants DEF Nothing, RulerPools
  <2>2. QED
    BY <1>2, <1>5, <2>1 DEF ReadInv, ModeRead, InferQueries, ProbeQueries, Decided, Cached
<1>13. QED
  BY <1>7, <1>8, <1>9, <1>10, <1>11, <1>12 DEF ReadInv

(* A new measurement is one.                                               *)
LEMMA NewMeasurement ==
  ASSUME NEW pool \in KnownPools \cup {None}
  PROVE  /\ Measurement(pool) \in Measurements /\ Measurement(pool).pool = pool
         /\ Measurement(pool).drivers = <<>> /\ Measurement(pool).metric = ""
         /\ Measurement(pool).zeroed = None
         /\ ~Measurement(pool).fallback /\ ~Measurement(pool).deduplicated
<1>1. "" \in Metrics /\ "" \in Modes
  BY DEF Metrics, Modes, RuleEvaluations
<1>2. QED
  BY <1>1, Constants DEF Measurement, Measurements

(* Nothing is known of an evaluation mode to begin with.                   *)
LEMMA NewMode == NoMode \in ModeType /\ NoMode.mode = None
BY Constants DEF NoMode, ModeType

(* A read that ends with a well-formed measurement leaves a well-formed    *)
(* Source.                                                                 *)
LEMMA ReturnKeeps ==
  ASSUME ReadInv, NEW x \in Measurements, x.pool # None, Return(x)
  PROVE  /\ call' = Idle /\ call' \in Calls /\ call'.query = "none"
         /\ m' \in Measurements /\ mode' \in ModeType
         /\ last' = x /\ last' \in Measurements /\ last'.pool # None
         /\ WhoAsks'
<1>1. Idle \in Calls /\ Idle.query = "none"
  BY Constants DEF Idle, Calls
<1>2. QED
  BY <1>1, NewMeasurement, NewMode DEF Return, Forget, WhoAsks

(* Pool 1's queries are no query of the other reads.                       *)
LEMMA MemoryOnly ==
  ASSUME ReadInv, UNCHANGED <<evalModes, operatorMode, request>>,
         call'.query \in MemoryQueries \cup {"none"}, last'.pool \notin RulerPools
  PROVE  ChainRead' /\ ModeRead'
<1>1. ChainRead'
  BY DEF ChainRead, ProbeQueries, RulerPools, MemoryQueries
<1>2. ModeRead'
  BY DEF ReadInv, ModeRead, InferQueries, ProbeQueries, Decided, Cached, MemoryQueries
<1>3. QED
  BY <1>1, <1>2

(* The inference's queries are none of pool 1 nor of the chain.            *)
LEMMA RulerOnly ==
  ASSUME call'.query \notin MemoryQueries, last'.pool # PoolIngesterMemory
  PROVE  MemoryRead'
BY DEF MemoryRead, MemoryQueries

(* No measurement is none of a pool.                                       *)
LEMMA NothingIs == Nothing.pool = None /\ None \notin RulerPools /\ None # PoolIngesterMemory
BY Constants DEF Nothing, RulerPools

(* The ingest-storage query keeps ReadInv.                                 *)
LEMMA IngestStorageKeeps ==
  ASSUME ReadInv, IngestStorageSeries, UNCHANGED <<operatorMode, request>>
  PROVE  ReadInv'
<1>1. PICK r \in Responses :
        /\ Heard("ingest storage", r)
        /\ m' = [m EXCEPT !.drivers = r.drivers, !.deduplicated = r.any,
                          !.metric = IF r.any THEN "ingest storage" ELSE ""]
        /\ Ask(IF r.any THEN "points" ELSE "replication factor")
  BY DEF IngestStorageSeries
<1>2. call.query = "ingest storage" /\ UNCHANGED <<mode, evalModes, last, operatorMode, request>>
  BY DEF IngestStorageSeries
<1>3. call # Idle /\ call.pool = PoolIngesterMemory /\ m.pool = PoolIngesterMemory /\ call.link \in 0..4
  BY <1>2, WhoIs DEF MemoryQueries
<1>4. /\ heard' \in Seq(Answer) /\ Len(heard') = 2 /\ heard'[1] = heard[1]
      /\ heard'[2].query = "ingest storage" /\ heard'[2].response = r
  <2>1. Len(heard) = 1 /\ heard \in Seq(Answer)
    BY <1>2 DEF ReadInv, MemoryRead, SourceTypes
  <2>2. PICK n : n = Len(heard)
    OBVIOUS
  <2>3. /\ heard' \in Seq(Answer) /\ Len(heard') = n + 1
        /\ \A i \in 1..n : heard'[i] = heard[i]
        /\ heard'[n + 1].query = "ingest storage" /\ heard'[n + 1].response = r
    <3>1. "ingest storage" \in Queries
      BY QueryNames
    <3> HIDE DEF Queries
    <3>2. QED
      BY <1>1, <1>3, <2>1, <2>2, <3>1, HeardGrows
  <2>4. n = 1 /\ n \in Int /\ 1 \in 1..n /\ n + 1 = 2
    BY <2>1, <2>2
  <2>5. Len(heard') = 2 /\ heard'[2].query = "ingest storage" /\ heard'[2].response = r
    BY <2>3, <2>4
  <2>6. heard'[1] = heard[1]
    BY <2>3, <2>4
  <2>7. QED
    BY <2>3, <2>5, <2>6
<1>5. /\ call'.pool = PoolIngesterMemory /\ call'.window = call.window /\ call'.link = call.link
      /\ call'.query \in {"points", "replication factor"} /\ call' \in Calls
  BY <1>1, <1>3, AskMoves, QueryNames DEF ReadInv
<1>6. m'.pool = PoolIngesterMemory /\ m'.drivers = r.drivers /\ (m'.deduplicated <=> r.any) /\ m' \in Measurements
  <2>1. m \in Measurements /\ (IF r.any THEN "ingest storage" ELSE "") \in Metrics
    BY DEF ReadInv, SourceTypes, Metrics
  <2>2. PICK x : x = IF r.any THEN "ingest storage" ELSE ""
    OBVIOUS
  <2>3. /\ r.drivers \in Drivers /\ r.any \in BOOLEAN /\ x \in Metrics
        /\ m' = [m EXCEPT !.drivers = r.drivers, !.deduplicated = r.any, !.metric = x]
    BY <1>1, <2>1, <2>2, Constants
  <2>4. QED
    BY <1>3, <2>1, <2>3 DEF Measurements
<1>7. SourceTypes'
  BY <1>2, <1>4, <1>5, <1>6 DEF ReadInv, SourceTypes
<1>8. WhoAsks'
  BY <1>5, <1>6 DEF WhoAsks, MemoryQueries
<1>9. OneAtATime' /\ last = Nothing
  BY <1>2, <1>3, <1>5 DEF ReadInv, OneAtATime
<1>10. MemoryRead'
  <2>1. last'.pool # PoolIngesterMemory
    BY <1>2, <1>9, NothingIs
  <2>2. heard[1].query = "classic" /\ ~heard[1].response.any
    BY <1>2 DEF ReadInv, MemoryRead
  <2>3. ~heard'[1].response.any /\ heard'[1].query = "classic"
    BY <1>4, <2>2
  <2>4. OnePath(m)'
    <3>0. heard'[2].query = "ingest storage" /\ heard'[2].response = r /\ Len(heard') = 2
      BY <1>4
    <3>1. m'.drivers = heard'[2].response.drivers
      BY <1>6, <3>0
    <3>2. heard'[2].response.any <=> r.any
      BY <1>4
    <3>3. m'.deduplicated <=> heard'[2].response.any
      BY <1>6, <3>2
    <3>4. QED
      BY <2>3, <3>0, <3>1, <3>3 DEF OnePath
  <2>5. QED
    BY <1>5, <2>1, <2>4 DEF MemoryRead
<1>11. ChainRead' /\ ModeRead'
  BY <1>2, <1>5, <1>9, NothingIs, MemoryOnly DEF MemoryQueries
<1>12. QED
  BY <1>7, <1>8, <1>9, <1>10, <1>11 DEF ReadInv

(* The averaging check keeps ReadInv.                                      *)
LEMMA PointsKeeps ==
  ASSUME ReadInv, PipelinePoints, UNCHANGED <<operatorMode, request>>
  PROVE  ReadInv'
<1>1. /\ call.query = "points" /\ Ask("replication factor")
      /\ UNCHANGED <<m, mode, evalModes, heard, last, operatorMode, request>>
  BY DEF PipelinePoints
<1>2. call # Idle /\ call.pool = PoolIngesterMemory /\ m.pool = PoolIngesterMemory
  BY <1>1, WhoIs DEF MemoryQueries
<1>3. /\ call'.pool = PoolIngesterMemory /\ call'.window = call.window /\ call'.link = call.link
      /\ call'.query = "replication factor" /\ call' \in Calls
  BY <1>1, <1>2, AskMoves, QueryNames DEF ReadInv
<1>4. SourceTypes' /\ WhoAsks'
  BY <1>1, <1>2, <1>3 DEF ReadInv, SourceTypes, WhoAsks, MemoryQueries
<1>5. OneAtATime' /\ last = Nothing
  BY <1>1, <1>2, <1>3 DEF ReadInv, OneAtATime
<1>6. MemoryRead'
  <2>1. last'.pool # PoolIngesterMemory
    BY <1>1, <1>5, NothingIs
  <2>2. OnePath(m)
    BY <1>1 DEF ReadInv, MemoryRead
  <2>3. QED
    BY <1>1, <1>3, <2>1, <2>2 DEF MemoryRead, OnePath
<1>7. ChainRead' /\ ModeRead'
  BY <1>1, <1>3, <1>5, NothingIs, MemoryOnly DEF MemoryQueries
<1>8. QED
  BY <1>4, <1>5, <1>6, <1>7 DEF ReadInv

(* The replication factor query ends the read of pool 1 and keeps ReadInv. *)
LEMMA FactorKeeps ==
  ASSUME ReadInv, ReplicationFactor, UNCHANGED <<operatorMode, request>>
  PROVE  ReadInv'
<1>1. PICK rf \in FactorAnswers : Return([m EXCEPT !.rf = rf])
  BY DEF ReplicationFactor
<1>2. call.query = "replication factor" /\ UNCHANGED <<evalModes, heard, operatorMode, request>>
  BY DEF ReplicationFactor
<1>3. m.pool = PoolIngesterMemory /\ OnePath(m) /\ m \in Measurements
  <2>1. m.pool = PoolIngesterMemory
    BY <1>2, WhoIs DEF MemoryQueries
  <2>2. OnePath(m) /\ m \in Measurements
    BY <1>2 DEF ReadInv, MemoryRead, SourceTypes
  <2>3. QED
    BY <2>1, <2>2
<1>4. PICK x : x = [m EXCEPT !.rf = rf]
  OBVIOUS
<1>5. /\ x \in Measurements /\ x.pool = PoolIngesterMemory
      /\ x.drivers = m.drivers /\ x.deduplicated = m.deduplicated
  BY <1>3, <1>4 DEF Measurements
<1>6. /\ call' = Idle /\ call' \in Calls /\ call'.query = "none" /\ last' = x
      /\ m' \in Measurements /\ mode' \in ModeType /\ last' \in Measurements /\ last'.pool # None
      /\ WhoAsks'
  BY <1>1, <1>4, <1>5, ReturnKeeps, NothingIs
<1>7. SourceTypes' /\ OneAtATime'
  BY <1>2, <1>6 DEF ReadInv, SourceTypes, OneAtATime
<1>8. MemoryRead'
  BY <1>2, <1>3, <1>5, <1>6 DEF MemoryRead, OnePath
<1>9. ChainRead' /\ ModeRead'
  BY <1>2, <1>5, <1>6, MemoryOnly, Constants DEF RulerPools
<1>10. QED
  BY <1>6, <1>7, <1>8, <1>9 DEF ReadInv

--------------------------------------------------------------------------------
(* Where rules are evaluated.                                              *)

(* What the probes decide on.                                              *)
LEMMA InferredIs == \A e : Inferred(e) \in {"local", "remote", "unknown"}
BY DEF Inferred

(* All of it is a mode.                                                    *)
LEMMA ModesAre == RuleEvaluations \subseteq Modes /\ {"local", "remote", "unknown"} \subseteq Modes /\ "" \in Modes
BY DEF Modes, RuleEvaluations

(* A query of the inference that leaves the measurement and the cache      *)
(* alone keeps ReadInv if it keeps what is said of the mode.               *)
LEMMA RulerStepKeeps ==
  ASSUME ReadInv, call.query \in InferQueries, UNCHANGED <<m, evalModes, last, operatorMode, request>>,
         mode' \in ModeType, heard' \in Seq(Answer), \E o \in {0, 1} : AsksFrom(o, 0)',
         NEW q \in ProbeQueries \cup {"mode"}, Ask(q),
         q \in ProbeQueries => operatorMode = "",
         q = "mode" => Decided(mode')
  PROVE  ReadInv'
<1>1. call # Idle /\ call.pool \in RulerPools /\ m = Measurement(call.pool)
  BY WhoIs
<1>2. q \in Queries
  BY QueryNames DEF ProbeQueries
<1>3. /\ call'.pool = call.pool /\ call'.window = call.window /\ call'.link = call.link
      /\ call'.query = q /\ call' \in Calls
  BY <1>1, <1>2, AskMoves DEF ReadInv
<1>4. SourceTypes'
  BY <1>3 DEF ReadInv, SourceTypes
<1>5. WhoAsks'
  BY <1>1, <1>3 DEF WhoAsks, InferQueries
<1>6. OneAtATime' /\ last = Nothing
  BY <1>1, <1>3 DEF ReadInv, OneAtATime
<1>7. last'.pool \notin RulerPools /\ last'.pool # PoolIngesterMemory
  BY <1>6, NothingIs
<1>8. q \notin MemoryQueries /\ q # "chain" /\ q # "rule evaluation seconds"
      /\ (q \in InferQueries => q \in ProbeQueries)
  BY DEF MemoryQueries, ProbeQueries, InferQueries
<1>9. MemoryRead'
  BY <1>3, <1>7, <1>8, RulerOnly
<1>10. ChainRead'
  BY <1>3, <1>7, <1>8 DEF ChainRead, RulerPools
<1>11. ModeRead'
  <2>1. ModeRead /\ ~Cached(call.window)
    BY DEF ReadInv, ModeRead
  <2>2. q = "mode" => Decided(mode)'
    BY DEF Decided
  <2>3. q = "mode" => q \notin ProbeQueries /\ q \notin InferQueries
    BY DEF ProbeQueries, InferQueries
  <2>4. QED
    BY <1>3, <1>7, <1>8, <2>1, <2>2, <2>3 DEF ModeRead, Decided, Cached
<1>12. QED
  BY <1>4, <1>5, <1>6, <1>9, <1>10, <1>11 DEF ReadInv

(* The rule evaluation seconds query keeps ReadInv.                        *)
LEMMA EvaluationKeeps ==
  ASSUME ReadInv, RuleEvaluationSeconds, UNCHANGED <<operatorMode, request>>
  PROVE  ReadInv'
<1>1. PICK r \in Responses :
        /\ Heard("rule evaluation seconds", r)
        /\ mode' = [mode EXCEPT !.evalSeconds = r.drivers,
                                !.mode = IF operatorMode = "" THEN None ELSE operatorMode]
  BY DEF RuleEvaluationSeconds
<1>2. /\ call.query = "rule evaluation seconds" /\ UNCHANGED <<m, evalModes, last, operatorMode, request>>
      /\ Ask(IF operatorMode = "" THEN "distributor queries" ELSE "mode")
  BY DEF RuleEvaluationSeconds
<1>3. PICK x : x = IF operatorMode = "" THEN None ELSE operatorMode
  OBVIOUS
<1>4. PICK q : q = IF operatorMode = "" THEN "distributor queries" ELSE "mode"
  OBVIOUS
<1>5. x \in Modes \cup {None} /\ operatorMode \in RuleEvaluations
  BY <1>3, ModesAre DEF ReadInv, ModeRead
<1>6. mode' \in ModeType /\ mode'.mode = x
  BY <1>1, <1>3, <1>5, Constants DEF ModeType, ReadInv, SourceTypes
<1>7. heard' \in Seq(Answer) /\ AsksFrom(1, 0)'
  <2>1. Len(heard) = 0 /\ heard \in Seq(Answer) /\ call.link \in 0..4
    BY <1>2, WhoIs DEF ReadInv, ChainRead, SourceTypes
  <2>2. heard' \in Seq(Answer) /\ Len(heard') = Len(heard) + 1
        /\ heard'[Len(heard) + 1].query = "rule evaluation seconds"
    <3>1. "rule evaluation seconds" \in Queries
      BY QueryNames
    <3> HIDE DEF Queries
    <3>2. QED
      BY <1>1, <2>1, <3>1, HeardGrows
  <2>3. Len(heard) + 1 = 1
    BY <2>1
  <2>4. Len(heard') = 1 /\ heard'[1].query = "rule evaluation seconds"
    BY <2>2, <2>3
  <2>5. 1..1 = {1} /\ 1..0 = {} /\ 1 + 0 = 1
    OBVIOUS
  <2>6. /\ Len(heard') = 1 + 0
        /\ \A i \in 1..1 : heard'[i].query # "chain"
        /\ \A k \in 1..0 : heard'[1 + k].query = "chain" /\ heard'[1 + k].link = k
    BY <2>4, <2>5
  <2>7. QED
    BY <2>2, <2>6 DEF AsksFrom
<1>8. q = "mode" => Decided(mode')
  BY <1>3, <1>4, <1>5, <1>6, ModesAre, Constants DEF Decided
<1>9. q \in ProbeQueries \cup {"mode"} /\ (q \in ProbeQueries => operatorMode = "") /\ Ask(q)
  BY <1>2, <1>4 DEF ProbeQueries
<1>10. call.query \in InferQueries
  BY <1>2 DEF InferQueries
<1>11. QED
  BY <1>2, <1>6, <1>7, <1>8, <1>9, <1>10, RulerStepKeeps

(* The three probes keep ReadInv.                                          *)
LEMMA ProbesKeep ==
  ASSUME ReadInv, DistributorQueries \/ RulerQuerySeconds \/ RulerEvaluations,
         UNCHANGED <<operatorMode, request>>
  PROVE  ReadInv'
<1>1. call.query \in ProbeQueries /\ UNCHANGED <<m, evalModes, heard, last, operatorMode, request>>
  BY DEF DistributorQueries, RulerQuerySeconds, RulerEvaluations, ProbeQueries
<1>2. \E o \in {0, 1} : AsksFrom(o, 0)'
  BY <1>1 DEF ReadInv, ChainRead, AsksFrom
<1>3. mode \in ModeType /\ operatorMode = "" /\ heard' \in Seq(Answer) /\ call.query \in InferQueries
  BY <1>1 DEF ReadInv, SourceTypes, ModeRead, InferQueries
<1>4. ASSUME NEW q \in ProbeQueries, Ask(q), mode' \in ModeType PROVE ReadInv'
  BY <1>1, <1>2, <1>3, <1>4, RulerStepKeeps DEF ProbeQueries
<1>5. CASE DistributorQueries
  <2>1. PICK present \in BOOLEAN : mode' = [mode EXCEPT !.distributor = present]
    BY <1>5 DEF DistributorQueries
  <2>2. mode' \in ModeType
    BY <1>3, <2>1 DEF ModeType
  <2>3. QED
    BY <1>4, <1>5, <2>2 DEF DistributorQueries, ProbeQueries
<1>6. CASE RulerQuerySeconds
  <2>1. PICK present \in BOOLEAN : mode' = [mode EXCEPT !.querySeconds = present]
    BY <1>6 DEF RulerQuerySeconds
  <2>2. mode' \in ModeType
    BY <1>3, <2>1 DEF ModeType
  <2>3. QED
    BY <1>4, <1>6, <2>2 DEF RulerQuerySeconds, ProbeQueries
<1>7. CASE RulerEvaluations
  <2>1. PICK present \in BOOLEAN :
            mode' = [[mode EXCEPT !.evaluations = present]
                        EXCEPT !.mode = Inferred([mode EXCEPT !.evaluations = present])]
    BY <1>7 DEF RulerEvaluations
  <2>2. PICK e : e = [mode EXCEPT !.evaluations = present]
    OBVIOUS
  <2>3. PICK i : i = Inferred(e) /\ i \in {"local", "remote", "unknown"}
    BY InferredIs
  <2>4. e \in ModeType
    BY <1>3, <2>2 DEF ModeType
  <2>5. mode' = [e EXCEPT !.mode = i] /\ i \in Modes
    BY <2>1, <2>2, <2>3, ModesAre
  <2>6. mode' \in ModeType /\ mode'.mode = i
    BY <2>4, <2>5 DEF ModeType
  <2>7. Decided(mode')
    BY <1>3, <2>5, <2>6, Constants DEF Decided
  <2>8. Ask("mode")
    BY <1>7 DEF RulerEvaluations
  <2>9. "mode" \notin ProbeQueries
    BY DEF ProbeQueries
  <2>10. QED
    BY <1>1, <1>2, <1>3, <2>6, <2>7, <2>8, <2>9, RulerStepKeeps
<1>8. QED
  BY <1>5, <1>6, <1>7

(* Remembering the mode and going on to the pool keeps ReadInv.            *)
LEMMA ModeKnownKeeps ==
  ASSUME ReadInv, ModeKnown, UNCHANGED <<operatorMode, request>>
  PROVE  ReadInv'
<1>1. /\ call.query = "mode" /\ evalModes' = [evalModes EXCEPT ![call.window] = mode]
      /\ UNCHANGED <<heard, operatorMode, request>>
  BY DEF ModeKnown
<1>2. /\ call # Idle /\ call.pool \in RulerPools /\ m = Measurement(call.pool)
      /\ mode \in ModeType /\ evalModes \in [Windows -> ModeType] /\ call.window = request.window
      /\ call.window \in Windows /\ Decided(mode) /\ heard \in Seq(Answer) /\ call \in Calls
      /\ last = Nothing
  BY <1>1, WhoIs DEF ReadInv, SourceTypes, OneAtATime, ModeRead
<1>3. mode.mode \in Modes /\ mode.mode # None
  BY <1>2 DEF ModeType, Decided
<1>4. /\ evalModes' \in [Windows -> ModeType] /\ evalModes'[request.window] = mode
      /\ \A w \in Windows : evalModes'[w] = mode \/ evalModes'[w] = evalModes[w]
  BY <1>1, <1>2
<1>5. \A w \in Windows : Cached(w)' => Decided(evalModes[w])'
  BY <1>1, <1>2, <1>4 DEF ReadInv, ModeRead, Cached, Decided
<1>6. PICK y : y = Measurement(call.pool)
  OBVIOUS
<1>7. /\ y \in Measurements /\ y.pool = call.pool /\ y.drivers = <<>> /\ y.metric = ""
      /\ y.zeroed = None /\ ~y.fallback /\ m = y
  <2>1. call.pool \in KnownPools \cup {None}
    BY <1>2 DEF Calls
  <2>2. QED
    BY <1>2, <1>6, <2>1, NewMeasurement
<1>8. PICK o \in {0, 1} : AsksFrom(o, 0)
  BY <1>1 DEF ReadInv, ChainRead
<1>9. CASE call.pool = PoolRulerCPU
  <2>1. PICK x : x = [m EXCEPT !.drivers = mode.evalSeconds, !.ruleEvaluation = mode.mode,
                               !.metric = "rule evaluation seconds"]
    OBVIOUS
  <2>2. Return(x)
    BY <1>9, <2>1, Constants DEF ModeKnown
  <2>3. x \in Measurements /\ x.pool = PoolRulerCPU /\ x.ruleEvaluation = mode.mode
    <3>1. mode.evalSeconds \in Drivers /\ "rule evaluation seconds" \in Metrics
      BY <1>2 DEF ModeType, Metrics
    <3>2. QED
      BY <1>3, <1>7, <1>9, <2>1, <3>1 DEF Measurements
  <2>4. /\ call' = Idle /\ call' \in Calls /\ call'.query = "none" /\ last' = x
        /\ m' \in Measurements /\ mode' \in ModeType /\ last' \in Measurements /\ last'.pool # None
        /\ WhoAsks'
    BY <2>2, <2>3, ReturnKeeps, Constants
  <2>5. SourceTypes' /\ OneAtATime'
    BY <1>1, <1>4, <2>4 DEF ReadInv, SourceTypes, OneAtATime
  <2>6. MemoryRead'
    BY <2>3, <2>4, RulerOnly, Constants DEF MemoryQueries
  <2>7. ChainRead'
    BY <2>3, <2>4, Constants DEF ChainRead, ProbeQueries
  <2>8. ModeRead'
    <3>1. Agrees(last)'
      BY <1>3, <1>4, <2>3, <2>4 DEF Agrees, Cached
    <3>2. operatorMode' \in RuleEvaluations
      BY <1>1 DEF ReadInv, ModeRead
    <3>3. QED
      BY <1>5, <2>4, <3>1, <3>2 DEF ModeRead, InferQueries, ProbeQueries
  <2>9. QED
    BY <2>4, <2>5, <2>6, <2>7, <2>8 DEF ReadInv
<1>10. CASE call.pool = PoolQueryPath
  <2>1. /\ m' = [m EXCEPT !.ruleEvaluation = mode.mode]
        /\ call' = [call EXCEPT !.query = "chain", !.link = 1]
        /\ UNCHANGED <<mode, last>>
    BY <1>10, Constants DEF ModeKnown
  <2>2. /\ m' \in Measurements /\ m'.pool = PoolQueryPath /\ m'.drivers = <<>> /\ m'.metric = ""
        /\ m'.zeroed = None /\ ~m'.fallback /\ m'.ruleEvaluation = mode.mode
    BY <1>3, <1>7, <1>10, <2>1 DEF Measurements
  <2>3. /\ call' \in Calls /\ call'.query = "chain" /\ call'.link = 1 /\ call'.pool = PoolQueryPath
        /\ call'.window = call.window
    <3>1. PICK q : q = "chain" /\ q \in Queries
      BY QueryNames
    <3>2. call' = [call EXCEPT !.query = q, !.link = 1] /\ 1 \in 0..4
      BY <2>1, <3>1
    <3>3. QED
      BY <1>2, <1>10, <3>1, <3>2 DEF Calls
  <2>4. SourceTypes' /\ OneAtATime'
    BY <1>1, <1>2, <1>4, <2>1, <2>2, <2>3 DEF ReadInv, SourceTypes, OneAtATime
  <2>5. WhoAsks'
    <3>1. call'.link \in 1..4
      BY <2>3
    <3>2. QED
      BY <2>2, <2>3, <3>1 DEF WhoAsks
  <2>6. last'.pool = None
    BY <1>2, <2>1, NothingIs
  <2>7. MemoryRead'
    BY <2>3, <2>6, NothingIs, RulerOnly DEF MemoryQueries
  <2>8. ChainRead'
    <3>1. AsksFrom(o, 0)' /\ call'.link - 1 = 0
      BY <1>1, <1>8, <2>3 DEF AsksFrom
    <3>2. ChainSoFar(o, 0)'
      <4>1. 1..0 = {}
        OBVIOUS
      <4>2. Silent(o, 0)' /\ \A k \in 1..0 : IsZero(o, k)'
        BY <4>1 DEF Silent
      <4>3. QED
        BY <2>2, <3>1, <4>2 DEF ChainSoFar, ZeroedIs
    <3>3. QED
      BY <2>3, <2>6, <3>1, <3>2, Constants DEF ChainRead, ProbeQueries
  <2>9. ModeRead'
    <3>1. Agrees(m)'
      BY <1>3, <1>4, <2>2 DEF Agrees, Cached
    <3>2. operatorMode' \in RuleEvaluations
      BY <1>1 DEF ReadInv, ModeRead
    <3>3. QED
      BY <1>5, <2>3, <2>6, <3>1, <3>2, NothingIs DEF ModeRead, InferQueries, ProbeQueries
  <2>10. QED
    BY <2>4, <2>5, <2>7, <2>8, <2>9 DEF ReadInv
<1>11. QED
  BY <1>2, <1>9, <1>10 DEF RulerPools

--------------------------------------------------------------------------------
(* The chain of pool 6.                                                    *)

(* What one more answer r of the chain does, before it is decided on.      *)
LEMMA ChainHears ==
  ASSUME ReadInv, call.query = "chain", NEW r \in Responses, Heard("chain", r),
         NEW L \in 1..4, L = call.link, NEW z, z = FirstZeroed(L, r.drivers)
  PROVE  /\ heard' \in Seq(Answer)
         /\ \E o \in {0, 1} :
              /\ AsksFrom(o, L)' /\ Told(o, L)' = r.drivers
              /\ \A k \in 1..(L - 1) : IsZero(o, k)'
              /\ ZeroedIs(o, L, z)'
<1>1. L \in 1..4 /\ L = call.link
  OBVIOUS
<1>2. PICK o \in {0, 1} : ChainSoFar(o, L - 1)
  BY <1>1 DEF ReadInv, ChainRead
<1>3. heard \in Seq(Answer) /\ Len(heard) = o + (L - 1) /\ o + (L - 1) \in Nat /\ o \in Nat
  <2>1. heard \in Seq(Answer) /\ Len(heard) = o + (L - 1)
    BY <1>2 DEF ReadInv, SourceTypes, ChainSoFar, AsksFrom
  <2>2. o \in Nat /\ o + (L - 1) \in Nat
    OBVIOUS
  <2>3. QED
    BY <2>1, <2>2
<1>4. PICK n \in Nat : n = o + L - 1 /\ n = Len(heard) /\ n + 1 = o + L
  BY <1>1, <1>3
<1>5. /\ heard' \in Seq(Answer) /\ Len(heard') = n + 1
      /\ \A i \in 1..n : heard'[i] = heard[i]
      /\ heard'[n + 1].query = "chain" /\ heard'[n + 1].link = L
      /\ heard'[n + 1].response = r
  <2>1. "chain" \in Queries /\ call.link \in 0..4
    BY QueryNames, WhoIs
  <2> HIDE DEF Queries
  <2>2. QED
    BY <1>1, <1>3, <1>4, <2>1, HeardGrows
<1>6. /\ \A i \in 1..o : i \in 1..n
      /\ \A k \in 1..(L - 1) : o + k \in 1..n
      /\ \A k \in 1..L : k # L => k \in 1..(L - 1)
  <2>1. CASE o = 0
    <3>1. n = L - 1
      BY <1>4, <2>1
    <3>2. QED
      BY <2>1, <3>1
  <2>2. CASE o = 1
    <3>1. n = L
      BY <1>4, <2>2
    <3>2. QED
      BY <2>2, <3>1
  <2>3. QED
    BY <2>1, <2>2
<1>7. \A k \in 1..(L - 1) : heard'[o + k] = heard[o + k] /\ Told(o, k)' = Told(o, k)
  BY <1>5, <1>6 DEF Told
<1>8. heard'[o + L].query = "chain" /\ heard'[o + L].link = L /\ heard'[o + L].response = r /\ Len(heard') = o + L
  BY <1>4, <1>5
<1>9. AsksFrom(o, L)'
  <2>1. \A i \in 1..o : heard'[i].query # "chain"
    BY <1>2, <1>5, <1>6 DEF ChainSoFar, AsksFrom
  <2>2. \A k \in 1..(L - 1) : heard'[o + k].query = "chain" /\ heard'[o + k].link = k
    BY <1>2, <1>7 DEF ChainSoFar, AsksFrom
  <2>3. \A k \in 1..L : heard'[o + k].query = "chain" /\ heard'[o + k].link = k
    BY <1>6, <1>8, <2>2
  <2>4. QED
    BY <1>8, <2>1, <2>3 DEF AsksFrom
<1>10. Told(o, L)' = r.drivers
  BY <1>8 DEF Told
<1>11. \A k \in 1..(L - 1) : IsZero(o, k)'
  BY <1>2, <1>7 DEF ChainSoFar, IsZero
<1>13. PICK y : y = m.zeroed
  OBVIOUS
<1>14. ZeroedIs(o, L - 1, y)
  BY <1>2, <1>13 DEF ChainSoFar
<1>15. z = IF y # None \/ DOMAIN r.drivers = {} THEN y ELSE [link |-> L, drivers |-> r.drivers]
  BY <1>13 DEF FirstZeroed
<1>16. ZeroedIs(o, L, z)'
  <2>1. CASE y # None
    <3>1. z = y /\ FirstTold(o, L - 1, y.link) /\ y.drivers = Told(o, y.link)
      BY <1>14, <1>15, <2>1 DEF ZeroedIs
    <3>2. PICK k \in 1..(L - 1) : k = y.link
      BY <3>1 DEF FirstTold
    <3>3. k \in 1..L /\ \A j \in 1..(k - 1) : j \in 1..(L - 1)
      BY <1>1, <3>2
    <3>4. FirstTold(o, L, k)'
      BY <1>7, <3>1, <3>2, <3>3 DEF FirstTold
    <3>5. z.drivers = Told(o, k)'
      BY <1>7, <3>1, <3>2
    <3>6. QED
      BY <2>1, <3>1, <3>2, <3>4, <3>5 DEF ZeroedIs
  <2>2. CASE y = None /\ DOMAIN r.drivers = {}
    <3>1. z = None /\ Silent(o, L - 1)
      BY <1>14, <1>15, <2>2 DEF ZeroedIs
    <3>2. Silent(o, L)'
      BY <1>6, <1>7, <1>10, <2>2, <3>1 DEF Silent
    <3>3. QED
      BY <3>1, <3>2 DEF ZeroedIs
  <2>3. CASE y = None /\ DOMAIN r.drivers # {}
    <3>1. z = [link |-> L, drivers |-> r.drivers] /\ Silent(o, L - 1)
      BY <1>14, <1>15, <2>3 DEF ZeroedIs
    <3>2. z # None
      BY <3>1, Constants
    <3>3. FirstTold(o, L, L)'
      BY <1>1, <1>7, <1>10, <2>3, <3>1 DEF FirstTold, Silent
    <3>4. QED
      BY <1>10, <3>1, <3>2, <3>3 DEF ZeroedIs
  <2>4. QED
    BY <2>1, <2>2, <2>3
<1>18. QED
  BY <1>1, <1>5, <1>9, <1>10, <1>11, <1>16

(* One link of the chain keeps ReadInv.                                    *)
LEMMA ChainLinkKeeps ==
  ASSUME ReadInv, ChainLink, UNCHANGED <<operatorMode, request>>
  PROVE  ReadInv'
<1>1. call.query = "chain" /\ UNCHANGED <<evalModes, operatorMode, request>>
  BY DEF ChainLink
<1>2. PICK L \in 1..4 : L = call.link
  BY <1>1, WhoIs
<1>3. PICK r \in Responses :
        /\ Heard("chain", r)
        /\ \/ /\ SumFunction(r.drivers) > 0
              /\ Return(Choose(L, r.drivers))
           \/ /\ SumFunction(r.drivers) <= 0
              /\ L = 4
              /\ Return(Exhausted(FirstZeroed(L, r.drivers)))
           \/ /\ SumFunction(r.drivers) <= 0
              /\ L < 4
              /\ m' = [m EXCEPT !.zeroed = FirstZeroed(L, r.drivers)]
              /\ call' = [call EXCEPT !.link = @ + 1]
              /\ UNCHANGED <<mode, last>>
  BY <1>2, Constants DEF ChainLink
<1>4. PICK z : z = FirstZeroed(L, r.drivers)
  OBVIOUS
<1>5. heard' \in Seq(Answer)
  BY <1>1, <1>2, <1>3, <1>4, ChainHears
<1>6. PICK o \in {0, 1} :
        /\ AsksFrom(o, L)' /\ Told(o, L)' = r.drivers
        /\ \A k \in 1..(L - 1) : IsZero(o, k)'
        /\ ZeroedIs(o, L, z)'
  BY <1>1, <1>2, <1>3, <1>4, ChainHears
<1>7. /\ m \in Measurements /\ m.pool = PoolQueryPath /\ m.drivers = <<>> /\ m.metric = "" /\ ~m.fallback
      /\ Agrees(m) /\ last = Nothing /\ call \in Calls /\ call # Idle /\ call.pool = PoolQueryPath
  BY <1>1, WhoIs DEF ReadInv, SourceTypes, OneAtATime, ModeRead, ChainRead, ChainSoFar
<1>8. z \in [link : 1..4, drivers : Drivers] \cup {None}
  <2>1. m.zeroed \in [link : 1..4, drivers : Drivers] \cup {None}
    BY <1>7 DEF Measurements
  <2>2. QED
    BY <1>4, <2>1, Constants DEF FirstZeroed
<1>9. SumFunction(r.drivers) \in Int /\ (IsZero(o, L)' <=> SumFunction(r.drivers) <= 0)
  BY <1>6, Constants DEF IsZero
(* A read that ends hands back x, which is what the answers make it.       *)
<1>10. ASSUME NEW x \in Measurements, Return(x), x.pool = PoolQueryPath,
              x.ruleEvaluation = m.ruleEvaluation, last' = x => ChainEnded(o, L)'
       PROVE  ReadInv'
  <2>1. /\ call' = Idle /\ call' \in Calls /\ call'.query = "none" /\ last' = x
        /\ m' \in Measurements /\ mode' \in ModeType /\ last' \in Measurements /\ last'.pool # None
        /\ WhoAsks'
    BY <1>10, ReturnKeeps, Constants
  <2>2. SourceTypes' /\ OneAtATime'
    BY <1>1, <1>5, <2>1 DEF ReadInv, SourceTypes, OneAtATime
  <2>3. MemoryRead'
    BY <1>10, <2>1, RulerOnly, Constants DEF MemoryQueries
  <2>4. ChainRead'
    BY <1>10, <2>1 DEF ChainRead, ProbeQueries
  <2>5. ModeRead'
    <3>1. Agrees(last)'
      BY <1>1, <1>7, <1>10, <2>1 DEF Agrees, Cached
    <3>2. QED
      BY <1>1, <2>1, <3>1 DEF ReadInv, ModeRead, InferQueries, ProbeQueries, Decided, Cached
  <2>6. QED
    BY <2>1, <2>2, <2>3, <2>4, <2>5 DEF ReadInv
<1>11. ASSUME NEW k \in 1..4, NEW d \in Drivers, NEW x, x = Choose(k, d)
       PROVE  /\ x \in Measurements /\ x.pool = PoolQueryPath
              /\ x.ruleEvaluation = m.ruleEvaluation
              /\ x.drivers = d /\ x.metric = QueryPathChain[k] /\ (x.fallback <=> k = 4)
  <2>1. PICK c : c = QueryPathChain[k] /\ c \in Metrics
    BY Constants
  <2>2. PICK f \in BOOLEAN : f <=> k = 4
    OBVIOUS
  <2>3. x = [m EXCEPT !.drivers = d, !.metric = c, !.fallback = f]
    BY <1>11, <2>1, <2>2, Constants DEF Choose
  <2>4. x \in Measurements /\ x.pool = m.pool /\ x.ruleEvaluation = m.ruleEvaluation
        /\ x.drivers = d /\ x.metric = c /\ x.fallback = f
    BY <1>7, <2>1, <2>3 DEF Measurements
  <2>5. QED
    BY <1>7, <2>1, <2>2, <2>4
<1>12. CASE SumFunction(r.drivers) > 0 /\ Return(Choose(L, r.drivers))
  <2>1. PICK x : x = Choose(L, r.drivers)
    OBVIOUS
  <2>2. /\ x \in Measurements /\ x.pool = PoolQueryPath /\ x.ruleEvaluation = m.ruleEvaluation
        /\ x.drivers = r.drivers /\ x.metric = QueryPathChain[L] /\ (x.fallback <=> L = 4)
    BY <1>11, <2>1, Constants
  <2>3. last' = x => ChainEnded(o, L)'
    BY <1>6, <1>9, <1>12, <2>2 DEF ChainEnded, Takes
  <2>4. QED
    BY <1>10, <1>12, <2>1, <2>2, <2>3
<1>13. CASE SumFunction(r.drivers) <= 0 /\ L = 4 /\ Return(Exhausted(FirstZeroed(L, r.drivers)))
  <2>1. PICK x : x = Exhausted(z)
    OBVIOUS
  <2>2. Return(x) /\ IsZero(o, 4)' /\ ZeroedIs(o, 4, z)'
    BY <1>4, <1>6, <1>9, <1>13, <2>1
  <2>3. CASE z = None
    <3>1. x = [m EXCEPT !.metric = QueryPathChain[1]]
      BY <2>1, <2>3 DEF Exhausted
    <3>2. PICK c : c = QueryPathChain[1] /\ c \in Metrics
      BY Constants
    <3>3. /\ x \in Measurements /\ x.pool = PoolQueryPath /\ x.ruleEvaluation = m.ruleEvaluation
          /\ x.drivers = <<>> /\ x.metric = QueryPathChain[1] /\ ~x.fallback
      BY <1>7, <3>1, <3>2 DEF Measurements
    <3>4. Silent(o, 4)'
      BY <2>2, <2>3 DEF ZeroedIs
    <3>5. last' = x => ChainEnded(o, L)'
      BY <1>6, <1>13, <2>2, <3>3, <3>4 DEF ChainEnded
    <3>6. QED
      BY <1>10, <2>2, <3>3, <3>5
  <2>4. CASE z # None
    <3>1. x = Choose(z.link, z.drivers) /\ z.link \in 1..4 /\ z.drivers \in Drivers
      BY <1>8, <2>1, <2>4 DEF Exhausted
    <3>2. PICK k \in 1..4, d \in Drivers : k = z.link /\ d = z.drivers
      BY <3>1
    <3>3. /\ x \in Measurements /\ x.pool = PoolQueryPath /\ x.ruleEvaluation = m.ruleEvaluation
          /\ x.drivers = d /\ x.metric = QueryPathChain[k] /\ (x.fallback <=> k = 4)
      BY <1>11, <3>1, <3>2
    <3>4. FirstTold(o, 4, k)' /\ d = Told(o, k)'
      BY <2>2, <2>4, <3>2 DEF ZeroedIs
    <3>5. last' = x => Takes(o, k)'
      BY <3>3, <3>4 DEF Takes
    <3>6. last' = x => ChainEnded(o, L)'
      BY <1>6, <1>13, <2>2, <3>4, <3>5 DEF ChainEnded
    <3>7. QED
      BY <1>10, <2>2, <3>3, <3>6
  <2>5. QED
    BY <2>3, <2>4
<1>14. CASE /\ SumFunction(r.drivers) <= 0
            /\ L < 4
            /\ m' = [m EXCEPT !.zeroed = FirstZeroed(L, r.drivers)]
            /\ call' = [call EXCEPT !.link = @ + 1]
            /\ UNCHANGED <<mode, last>>
  <2>1. /\ m' \in Measurements /\ m'.pool = PoolQueryPath /\ m'.drivers = <<>> /\ m'.metric = ""
        /\ m'.zeroed = z /\ ~m'.fallback /\ m'.ruleEvaluation = m.ruleEvaluation
    <3>1. m' = [m EXCEPT !.zeroed = z]
      BY <1>4, <1>14
    <3>2. QED
      BY <1>7, <1>8, <3>1 DEF Measurements
  <2>2. /\ call' \in Calls /\ call'.query = "chain" /\ call'.link = L + 1 /\ call'.pool = PoolQueryPath
        /\ call'.window = call.window
    <3>1. PICK K \in 1..4 : K = L + 1
      BY <1>14
    <3>2. call' = [call EXCEPT !.link = K] /\ K \in 0..4
      BY <1>2, <1>14, <3>1
    <3>3. QED
      BY <1>1, <1>7, <3>1, <3>2 DEF Calls
  <2>3. SourceTypes' /\ OneAtATime'
    BY <1>1, <1>5, <1>7, <1>14, <2>1, <2>2 DEF ReadInv, SourceTypes, OneAtATime
  <2>4. WhoAsks'
    <3>1. call'.link \in 1..4
      BY <1>14, <2>2
    <3>2. QED
      BY <2>1, <2>2, <3>1 DEF WhoAsks
  <2>5. last'.pool = None
    BY <1>7, <1>14, NothingIs
  <2>6. MemoryRead'
    BY <2>2, <2>5, NothingIs, RulerOnly DEF MemoryQueries
  <2>7. ChainRead'
    <3>1. \A k \in 1..L : IsZero(o, k)'
      <4>1. \A k \in 1..L : k = L \/ k \in 1..(L - 1)
        OBVIOUS
      <4>2. QED
        BY <1>6, <1>9, <1>14, <4>1
    <3>2. ChainSoFar(o, L)'
      BY <1>6, <2>1, <3>1 DEF ChainSoFar
    <3>3. call'.link - 1 = L
      BY <2>2
    <3>4. QED
      BY <2>2, <2>5, <3>2, <3>3, Constants DEF ChainRead, ProbeQueries
  <2>8. ModeRead'
    <3>1. Agrees(m)'
      BY <1>1, <1>7, <2>1 DEF Agrees, Cached
    <3>2. QED
      BY <1>1, <2>2, <2>5, <3>1, NothingIs DEF ReadInv, ModeRead, InferQueries, ProbeQueries, Decided, Cached
  <2>9. QED
    BY <2>3, <2>4, <2>6, <2>7, <2>8 DEF ReadInv
<1>15. QED
  BY <1>3, <1>12, <1>13, <1>14

--------------------------------------------------------------------------------
(* The run.                                                                *)
Sel == SelectPools(request)

OrderKept(n) ==
    /\ measurements \in Seq(Measurements) /\ Len(measurements) = n
    /\ \A i \in 1..n : /\ measurements[i].pool = Sel[i]
                       /\ measurements[i].pool \in RulerPools => Agrees(measurements[i])

ReadsInOrder ==
    LET n == Len(measurements)
    IN  /\ OrderKept(n)
        /\ todo \in Seq(KnownPools) /\ Len(todo) = Len(Sel) - n
        /\ \A i \in 1..Len(todo) : todo[i] = Sel[n + i]
        /\ call # Idle => Len(todo) > 0 /\ call.pool = todo[1]
        /\ last # Nothing => Len(todo) > 0 /\ last.pool = todo[1]
        /\ report = None /\ ~counted

Complete ==
    /\ todo = <<>> /\ OrderKept(Len(Sel))
    /\ report = AllocateAll(ByPool(measurements), inv, Expected)

Settled == ReadInv /\ Acceptable(request, inv)
Unread  == Init /\ todo = <<>> /\ measurements = <<>> /\ report = None /\ ~counted

RunInv ==
    /\ request \in Requests /\ operatorMode = inv.ruleEvaluation
    /\ \/ main = "checking" /\ Unread
       \/ main = "reading" /\ Settled /\ ReadsInOrder
       \/ main \in {"loading rules", "rendered"} /\ Settled /\ Complete
          /\ (main = "loading rules" \/ counted => request.ruleOutputs)
          /\ (main = "loading rules" => ~counted)
          /\ call = Idle /\ last = Nothing
       \/ main = "failed" /\ last.pool = None /\ ~counted /\ (report = None \/ (Settled /\ Complete))

--------------------------------------------------------------------------------
(* The Source as a whole.                                                  *)

(* No call asks no query.                                                  *)
LEMMA IdleNames == Idle.query = "none" /\ Idle.pool = None /\ Idle \in Calls
BY Constants DEF Idle, Calls

(* A new Source with a valid evaluation mode satisfies ReadInv.            *)
LEMMA InitIsReady ==
  ASSUME Init, operatorMode \in RuleEvaluations, request.window \in Windows
  PROVE  ReadInv
<1>1. /\ call = Idle /\ call.query = "none" /\ m \in Measurements /\ mode \in ModeType
      /\ heard = <<>> /\ last = Nothing /\ last.pool = None /\ call \in Calls
  BY IdleNames, NewMeasurement, NewMode, NothingIs DEF Init
<1>2. evalModes \in [Windows -> ModeType] /\ \A w \in Windows : evalModes[w].mode = None
  BY NewMode DEF Init
<1>3. SourceTypes /\ WhoAsks /\ OneAtATime
  BY <1>1, <1>2 DEF SourceTypes, WhoAsks, OneAtATime
<1>4. MemoryRead /\ ChainRead
  BY <1>1, Constants DEF MemoryRead, ChainRead, MemoryQueries, ProbeQueries
<1>5. ModeRead
  BY <1>1, <1>2, NothingIs DEF ModeRead, InferQueries, ProbeQueries, Cached
<1>6. QED
  BY <1>3, <1>4, <1>5 DEF ReadInv

(* Beginning a read of any pool keeps ReadInv.                             *)
LEMMA BeginKeeps ==
  ASSUME ReadInv, NEW pool \in KnownPools, Begin(pool, request.window), UNCHANGED request
  PROVE  ReadInv' /\ call' # Idle /\ call'.pool = pool /\ last' = Nothing /\ UNCHANGED <<evalModes, operatorMode>>
<1>1. /\ call = Idle /\ heard' = <<>> /\ last' = Nothing /\ UNCHANGED <<evalModes, operatorMode, request>>
      /\ last'.pool = None /\ heard' \in Seq(Answer) /\ Len(heard') = 0
  BY NothingIs DEF Begin
<1>2. /\ request.window \in Windows /\ evalModes \in [Windows -> ModeType] /\ mode \in ModeType /\ ModeRead
  BY DEF ReadInv, SourceTypes, OneAtATime
<1>3. CASE pool = PoolIngesterMemory /\ BeginIngesterMemory(request.window)
  <2>1. /\ call' \in Calls /\ call'.pool = pool /\ call'.window = request.window /\ call'.query = "classic"
    <3>1. PICK q \in Queries : q = "classic"
      BY QueryNames
    <3>2. call' = [pool |-> pool, window |-> request.window, query |-> q, link |-> 0]
      BY <1>3, <3>1 DEF BeginIngesterMemory
    <3>3. QED
      BY <1>2, <3>1, <3>2 DEF Calls
  <2>2. /\ m' \in Measurements /\ m'.pool = pool /\ ~m'.deduplicated /\ mode' = mode
    BY <1>3, NewMeasurement DEF BeginIngesterMemory
  <2>3. call' # Idle
    BY <2>1, IdleNames
  <2>4. SourceTypes' /\ WhoAsks' /\ OneAtATime'
    BY <1>1, <1>2, <1>3, <2>1, <2>2, <2>3 DEF SourceTypes, WhoAsks, OneAtATime, MemoryQueries
  <2>5. MemoryRead'
    BY <1>1, <2>1, <2>2, NothingIs DEF MemoryRead
  <2>6. ChainRead' /\ ModeRead'
    BY <1>1, <2>1, NothingIs, MemoryOnly DEF MemoryQueries
  <2>7. QED
    BY <1>1, <2>1, <2>3, <2>4, <2>5, <2>6 DEF ReadInv
<1>4. CASE pool \in RulerPools /\ BeginRuler(pool, request.window)
  <2>1. PICK q : q = IF Cached(request.window) THEN "mode" ELSE "rule evaluation seconds"
    OBVIOUS
  <2>2. q \in Queries /\ q \notin MemoryQueries /\ q # "chain" /\ q # "none" /\ q \notin ProbeQueries
        /\ q \in InferQueries \cup {"mode"}
    BY <2>1, QueryNames DEF MemoryQueries, InferQueries, ProbeQueries
  <2>3. /\ call' \in Calls /\ call'.pool = pool /\ call'.window = request.window /\ call'.query = q
    <3>1. call' = [pool |-> pool, window |-> request.window, link |-> 0, query |-> q]
      BY <1>4, <2>1 DEF BeginRuler
    <3>2. QED
      BY <1>2, <2>2, <3>1 DEF Calls
  <2>4. /\ m' = Measurement(pool) /\ m' \in Measurements /\ mode' \in ModeType
        /\ mode' = IF Cached(request.window) THEN evalModes[request.window] ELSE NoMode
    BY <1>2, <1>4, NewMeasurement, NewMode DEF BeginRuler
  <2>5. call' # Idle
    BY <2>2, <2>3, IdleNames
  <2>6. SourceTypes' /\ OneAtATime'
    BY <1>1, <1>2, <2>3, <2>4 DEF SourceTypes, OneAtATime
  <2>7. WhoAsks'
    BY <1>4, <2>2, <2>3, <2>4 DEF WhoAsks
  <2>8. MemoryRead'
    BY <1>1, <2>2, <2>3, NothingIs, RulerOnly
  <2>9. ChainRead'
    <3>1. 1..0 = {} /\ 0 + 0 = 0
      OBVIOUS
    <3>2. AsksFrom(0, 0)'
      BY <1>1, <3>1 DEF AsksFrom
    <3>3. QED
      BY <1>1, <2>2, <2>3, <3>2, Constants DEF ChainRead
  <2>10. ModeRead'
    <3>1. q = "mode" => Decided(mode') /\ mode' = evalModes[request.window]
      BY <1>2, <2>1, <2>4 DEF ModeRead
    <3>2. q \in InferQueries => ~Cached(request.window)
      BY <2>1 DEF InferQueries, ProbeQueries
    <3>3. QED
      BY <1>1, <1>2, <2>2, <2>3, <3>1, <3>2, NothingIs DEF ModeRead, Decided, Cached
  <2>11. QED
    BY <1>1, <2>3, <2>5, <2>6, <2>7, <2>8, <2>9, <2>10 DEF ReadInv
<1>5. QED
  BY <1>3, <1>4 DEF Begin, RulerPools

(* One query's answer: the read goes on or hands its measurement back, and *)
(* what the cache says about the window does not change once it is there.  *)
LEMMA AnsweredKeeps ==
  ASSUME ReadInv, Answered, UNCHANGED request
  PROVE  /\ ReadInv' /\ call # Idle
         /\ call' # Idle => call'.pool = call.pool
         /\ last' # Nothing => last'.pool = call.pool
         /\ Cached(request.window) => evalModes'[request.window] = evalModes[request.window]
<1>1. UNCHANGED <<operatorMode, request>>
  BY DEF Answered
<1>2. ReadInv'
  BY <1>1, ClassicKeeps, IngestStorageKeeps, PointsKeeps, FactorKeeps, EvaluationKeeps, ProbesKeep,
     ModeKnownKeeps, ChainLinkKeeps DEF Answered
<1>3. call.query # "none" /\ call # Idle
  <2>1. call.query # "none"
    BY DEF Answered, ClassicSeries, IngestStorageSeries, PipelinePoints, ReplicationFactor,
           RuleEvaluationSeconds, DistributorQueries, RulerQuerySeconds, RulerEvaluations, ModeKnown, ChainLink
  <2>2. QED
    BY <2>1, IdleNames
<1>4. /\ last = Nothing /\ call \in Calls /\ m \in Measurements /\ call.pool = m.pool
      /\ request.window \in Windows
  <2>1. m.pool = call.pool
    <3>1. call.pool \in RulerPools => Measurement(call.pool).pool = call.pool
      BY NewMeasurement, Constants DEF RulerPools
    <3>2. QED
      BY <1>3, <3>1 DEF ReadInv, WhoAsks
  <2>2. QED
    BY <1>3, <2>1 DEF ReadInv, SourceTypes, OneAtATime
<1>5. ASSUME NEW q, Ask(q) PROVE call'.pool = call.pool
  BY <1>4, <1>5 DEF Ask, Calls
<1>6. ASSUME NEW x, Return(x), x.pool = call.pool
      PROVE  call' = Idle /\ last'.pool = call.pool
  BY <1>6 DEF Return
<1>7. Cached(request.window) => evalModes'[request.window] = evalModes[request.window]
  <2>1. CASE ModeKnown
    <3>1. /\ evalModes' = [evalModes EXCEPT ![call.window] = mode] /\ call.query = "mode"
          /\ evalModes \in [Windows -> ModeType] /\ call.window = request.window
      BY <1>3, <2>1 DEF ModeKnown, ReadInv, SourceTypes, OneAtATime
    <3>2. Cached(call.window) => mode = evalModes[call.window]
      BY <3>1 DEF ReadInv, ModeRead
    <3>3. QED
      BY <1>4, <3>1, <3>2
  <2>2. CASE ~ModeKnown
    BY <2>2 DEF Answered, ClassicSeries, IngestStorageSeries, PipelinePoints, ReplicationFactor,
           RuleEvaluationSeconds, DistributorQueries, RulerQuerySeconds, RulerEvaluations, ChainLink
  <2>3. QED
    BY <2>1, <2>2
<1>8. (call' # Idle => call'.pool = call.pool) /\ (last' # Nothing => last'.pool = call.pool)
  <2>1. CASE ClassicSeries
    BY <1>4, <1>5, <2>1 DEF ClassicSeries
  <2>2. CASE IngestStorageSeries
    BY <1>4, <1>5, <2>2 DEF IngestStorageSeries
  <2>3. CASE PipelinePoints \/ RuleEvaluationSeconds
    BY <1>4, <1>5, <2>3 DEF PipelinePoints, RuleEvaluationSeconds
  <2>4. CASE DistributorQueries \/ RulerQuerySeconds \/ RulerEvaluations
    BY <1>4, <1>5, <2>4 DEF DistributorQueries, RulerQuerySeconds, RulerEvaluations
  <2>5. CASE ReplicationFactor
    <3>1. PICK rf \in FactorAnswers : Return([m EXCEPT !.rf = rf])
      BY <2>5 DEF ReplicationFactor
    <3>2. [m EXCEPT !.rf = rf].pool = m.pool
      BY <1>4 DEF Measurements
    <3>3. QED
      BY <1>4, <1>6, <3>1, <3>2
  <2>6. CASE ModeKnown
    <3>1. CASE Return([m EXCEPT !.drivers = mode.evalSeconds, !.ruleEvaluation = mode.mode,
                                !.metric = "rule evaluation seconds"])
      <4>1. PICK x : x = [m EXCEPT !.drivers = mode.evalSeconds, !.ruleEvaluation = mode.mode,
                                   !.metric = "rule evaluation seconds"]
        OBVIOUS
      <4>2. x.pool = m.pool
        BY <1>4, <4>1 DEF Measurements
      <4>3. QED
        BY <1>4, <1>6, <3>1, <4>1, <4>2
    <3>2. CASE call' = [call EXCEPT !.query = "chain", !.link = 1] /\ UNCHANGED last
      BY <1>4, <3>2 DEF Calls
    <3>3. QED
      BY <2>6, <3>1, <3>2 DEF ModeKnown
  <2>7. CASE ChainLink
    <3>1. \A k, d : Choose(k, d).pool = m.pool
      BY <1>4 DEF Choose, Measurements
    <3>2. \A z : Exhausted(z).pool = m.pool
      BY <1>4, <3>1 DEF Exhausted, Measurements
    <3>3. CASE call' = [call EXCEPT !.link = @ + 1] /\ UNCHANGED last
      BY <1>4, <3>3 DEF Calls
    <3>4. CASE \E r \in Responses : Return(Choose(call.link, r.drivers))
      BY <1>4, <1>6, <3>1, <3>4
    <3>5. CASE \E r \in Responses : Return(Exhausted(FirstZeroed(call.link, r.drivers)))
      BY <1>4, <1>6, <3>2, <3>5
    <3>6. QED
      BY <2>7, <3>3, <3>4, <3>5 DEF ChainLink
  <2>8. QED
    BY <2>1, <2>2, <2>3, <2>4, <2>5, <2>6, <2>7 DEF Answered
<1>9. QED
  BY <1>2, <1>3, <1>7, <1>8

--------------------------------------------------------------------------------
(* A sequence whose elements are all different stays so when a new one is  *)
(* appended.                                                               *)
Distinct(s) == \A i, j \in 1..Len(s) : s[i] = s[j] => i = j

--------------------------------------------------------------------------------
(* The pools of a request.                                                 *)

(* Elements that are all different stay so when a new one is appended.     *)
LEMMA OneMore ==
  ASSUME NEW S, NEW s \in Seq(S), Distinct(s), NEW b \in S, \A i \in 1..Len(s) : s[i] # b,
         NEW t, t = <<>> \/ t = <<b>>
  PROVE  /\ s \o t \in Seq(S) /\ Distinct(s \o t)
         /\ \A i \in 1..Len(s \o t) : (s \o t)[i] = b \/ \E j \in 1..Len(s) : s[j] = (s \o t)[i]
<1>1. CASE t = <<>>
  <2>1. s \o t = s
    BY <1>1, ConcatEmptySeq
  <2>2. QED
    BY <2>1
<1>2. CASE t = <<b>>
  <2>1. PICK n \in Nat : n = Len(s)
    BY LenProperties
  <2>2. PICK u : u = s \o t
    OBVIOUS
  <2>3. t \in Seq(S) /\ Len(t) = 1 /\ t[1] = b
    BY <1>2
  <2>4. /\ u \in Seq(S) /\ Len(u) = n + 1
        /\ \A i \in 1..(n + 1) : u[i] = IF i <= n THEN s[i] ELSE t[i - n]
    <3>1. /\ u \in Seq(S) /\ Len(u) = Len(s) + Len(t)
          /\ \A i \in 1..Len(s) + Len(t) : u[i] = IF i <= Len(s) THEN s[i] ELSE t[i - Len(s)]
      BY <2>2, <2>3, ConcatProperties
    <3>2. Len(s) + Len(t) = n + 1
      BY <2>1, <2>3
    <3>3. QED
      BY <2>1, <3>1, <3>2
  <2>5. \A i \in 1..(n + 1) : (i <= n => i \in 1..n) /\ (~(i <= n) => i = n + 1 /\ i - n = 1)
    OBVIOUS
  <2>6. \A i \in 1..(n + 1) : (i \in 1..n /\ u[i] = s[i]) \/ (i = n + 1 /\ u[i] = b)
    BY <2>3, <2>4, <2>5
  <2>7. Distinct(u)
    BY <2>1, <2>4, <2>6 DEF Distinct
  <2>8. \A i \in 1..Len(u) : u[i] = b \/ \E j \in 1..Len(s) : s[j] = u[i]
    BY <2>1, <2>4, <2>6
  <2>9. QED
    BY <2>2, <2>4, <2>7, <2>8
<1>3. QED
  BY <1>1, <1>2

(* selectPools returns known pools, none twice.                            *)
LEMMA Selection ==
  ASSUME NEW r
  PROVE  SelectPools(r) \in Seq(KnownPools) /\ Distinct(SelectPools(r)) /\ Len(SelectPools(r)) \in Nat
<1> DEFINE a == IfSelected(r, PoolOrder[1])
           b == IfSelected(r, PoolOrder[2])
           c == IfSelected(r, PoolOrder[3])
<1>1. PoolOrder[1] = PoolIngesterMemory /\ PoolOrder[2] = PoolQueryPath /\ PoolOrder[3] = PoolRulerCPU
  BY DEF PoolOrder
<1>2. /\ a = <<>> \/ a = <<PoolIngesterMemory>>
      /\ b = <<>> \/ b = <<PoolQueryPath>>
      /\ c = <<>> \/ c = <<PoolRulerCPU>>
  BY <1>1 DEF IfSelected
<1>3. SelectPools(r) = (a \o b) \o c
  BY DEF SelectPools
<1> HIDE DEF a, b, c
<1>4. a \in Seq(KnownPools) /\ Distinct(a) /\ \A i \in 1..Len(a) : a[i] = PoolIngesterMemory
  <2>1. PICK p \in KnownPools : p = PoolIngesterMemory
    BY Constants
  <2>2. CASE a = <<>>
    <3>1. Len(a) = 0 /\ a \in Seq(KnownPools) /\ \A i \in 1..Len(a) : FALSE
      BY <2>2
    <3>2. QED
      BY <3>1 DEF Distinct
  <2>3. CASE a = <<p>>
    <3>1. Len(a) = 1 /\ a[1] = p /\ a \in Seq(KnownPools)
      BY <2>3
    <3>2. \A i \in 1..Len(a) : i = 1
      BY <3>1
    <3>3. QED
      BY <2>1, <3>1, <3>2 DEF Distinct
  <2>4. QED
    BY <1>2, <2>1, <2>2, <2>3
<1>5. /\ a \o b \in Seq(KnownPools) /\ Distinct(a \o b)
      /\ \A i \in 1..Len(a \o b) : (a \o b)[i] \in {PoolIngesterMemory, PoolQueryPath}
  <2>1. PoolQueryPath \in KnownPools /\ \A i \in 1..Len(a) : a[i] # PoolQueryPath
    BY <1>4, Constants
  <2>2. /\ a \o b \in Seq(KnownPools) /\ Distinct(a \o b)
        /\ \A i \in 1..Len(a \o b) :
              (a \o b)[i] = PoolQueryPath \/ \E j \in 1..Len(a) : a[j] = (a \o b)[i]
    BY <1>2, <1>4, <2>1, OneMore
  <2>3. QED
    BY <1>4, <2>2
<1>6. PICK s : s = a \o b
  OBVIOUS
<1>7. s \o c \in Seq(KnownPools) /\ Distinct(s \o c)
  <2>1. PoolRulerCPU \in KnownPools /\ \A i \in 1..Len(s) : s[i] # PoolRulerCPU
    BY <1>5, <1>6, Constants
  <2>2. QED
    BY <1>2, <1>5, <1>6, <2>1, OneMore
<1>8. QED
  BY <1>3, <1>6, <1>7, LenProperties

(* A step that leaves the Source and the request alone keeps ReadInv.      *)
LEMMA ReadStutters ==
  ASSUME ReadInv, UNCHANGED <<sourceVars, request>>
  PROVE  ReadInv'
<1>1. UNCHANGED <<call, m, mode, evalModes, operatorMode, heard, last, request>>
  BY DEF sourceVars
<1>2. SourceTypes' /\ WhoAsks' /\ OneAtATime'
  BY <1>1 DEF ReadInv, SourceTypes, WhoAsks, OneAtATime
<1>3. MemoryRead'
  BY <1>1 DEF ReadInv, MemoryRead, OnePath
<1>4. ChainRead'
  <2>1. \A o, n : (AsksFrom(o, n)' <=> AsksFrom(o, n)) /\ (ChainSoFar(o, n)' <=> ChainSoFar(o, n))
                  /\ (ChainEnded(o, n)' <=> ChainEnded(o, n))
    BY <1>1 DEF AsksFrom, ChainSoFar, ChainEnded, IsZero, Told, ZeroedIs, FirstTold, Silent, Takes
  <2>2. QED
    BY <1>1, <2>1 DEF ReadInv, ChainRead
<1>5. ModeRead'
  BY <1>1 DEF ReadInv, ModeRead, Agrees, Decided, Cached
<1>6. QED
  BY <1>2, <1>3, <1>4, <1>5 DEF ReadInv

--------------------------------------------------------------------------------
(* The steps of the run.                                                   *)

(* What is measured stays in order while the cache keeps what it says.     *)
LEMMA OrderStays ==
  ASSUME NEW n \in Nat, OrderKept(n), UNCHANGED <<measurements, request>>,
         Cached(request.window) => evalModes'[request.window] = evalModes[request.window]
  PROVE  OrderKept(n)'
<1>1. \A x : Agrees(x) => Agrees(x)'
  BY DEF Agrees, Cached
<1>2. Sel' = Sel
  BY DEF Sel
<1>3. QED
  BY <1>1, <1>2 DEF OrderKept

(* The pools of this run.                                                  *)
LEMMA SelIs == Sel \in Seq(KnownPools) /\ Distinct(Sel) /\ Len(Sel) \in Nat
BY Selection DEF Sel

(* Accept keeps RunInv: everything is still to be read.                    *)
LEMMA AcceptStarts ==
  ASSUME RunInv, Accept
  PROVE  RunInv'
<1>1. /\ main = "checking" /\ Acceptable(request, inv) /\ main' = "reading" /\ todo' = Sel
      /\ UNCHANGED <<sourceVars, request, inv, measurements, report, counted>>
  BY DEF Accept, Sel
<1>2. /\ request \in Requests /\ operatorMode = inv.ruleEvaluation /\ Init
      /\ measurements = <<>> /\ report = None /\ ~counted
  BY <1>1 DEF RunInv, Unread
<1>3. ReadInv
  <2>1. operatorMode \in RuleEvaluations
    BY <1>1, <1>2 DEF Acceptable, Validate
  <2>2. request.window \in Windows
    BY <1>2, RunAssumption
  <2>3. QED
    BY <1>2, <2>1, <2>2, InitIsReady
<1>4. ReadInv' /\ Acceptable(request, inv)'
  BY <1>1, <1>3, ReadStutters DEF Acceptable
<1>5. call = Idle /\ last = Nothing /\ UNCHANGED <<call, last, operatorMode>>
  BY <1>1, <1>2 DEF Init, sourceVars
<1>6. PICK n \in Nat : n = 0
  OBVIOUS
<1>7. Len(measurements') = n /\ measurements' \in Seq(Measurements) /\ 1..n = {}
  BY <1>1, <1>2, <1>6
<1>8. OrderKept(n)'
  BY <1>7 DEF OrderKept
<1>9. todo' \in Seq(KnownPools) /\ Len(todo') = Len(Sel') - n /\ \A i \in 1..Len(todo') : todo'[i] = Sel'[n + i]
  <2>1. Sel' = Sel /\ todo' = Sel
    BY <1>1 DEF Sel
  <2>2. Len(Sel) - n = Len(Sel) /\ \A i \in 1..Len(Sel) : n + i = i
    BY <1>6, SelIs
  <2>3. QED
    BY <2>1, <2>2, SelIs
<1>10. ReadsInOrder'
  BY <1>1, <1>2, <1>5, <1>7, <1>8, <1>9 DEF ReadsInOrder
<1>11. QED
  BY <1>1, <1>2, <1>4, <1>5, <1>10 DEF RunInv, Settled

(* StartRead keeps RunInv.                                                 *)
LEMMA StartReadKeeps ==
  ASSUME RunInv, StartRead
  PROVE  RunInv'
<1>1. /\ main = "reading" /\ todo # <<>> /\ last.pool = None
      /\ Begin(Head(todo), request.window)
      /\ UNCHANGED <<request, inv, main, todo, measurements, report, counted>>
  BY DEF StartRead
<1>2. request \in Requests /\ operatorMode = inv.ruleEvaluation /\ ReadInv /\ Acceptable(request, inv) /\ ReadsInOrder
  BY <1>1 DEF RunInv, Settled
<1>3. PICK pool \in KnownPools : pool = todo[1] /\ pool = Head(todo) /\ Len(todo) > 0
  BY <1>1, <1>2 DEF ReadsInOrder
<1>4. ReadInv' /\ call' # Idle /\ call'.pool = pool /\ last' = Nothing /\ UNCHANGED <<evalModes, operatorMode>>
  BY <1>1, <1>2, <1>3, BeginKeeps
<1>5. PICK n \in Nat : n = Len(measurements) /\ OrderKept(n)
  BY <1>2, LenProperties DEF ReadsInOrder, OrderKept
<1>6. OrderKept(n)'
  BY <1>1, <1>4, <1>5, OrderStays
<1>7. ReadsInOrder'
  BY <1>1, <1>2, <1>3, <1>4, <1>5, <1>6 DEF ReadsInOrder, Sel
<1>8. Acceptable(request, inv)'
  BY <1>1, <1>2 DEF Acceptable
<1>9. QED
  BY <1>1, <1>2, <1>4, <1>7, <1>8 DEF RunInv, Settled

(* An answer keeps RunInv.                                                 *)
LEMMA ReadGoesOnKeeps ==
  ASSUME RunInv, ReadGoesOn
  PROVE  RunInv'
<1>1. main = "reading" /\ Answered /\ UNCHANGED <<request, inv, main, todo, measurements, report, counted, operatorMode>>
  BY DEF ReadGoesOn, runVars, Answered
<1>2. request \in Requests /\ operatorMode = inv.ruleEvaluation /\ ReadInv /\ Acceptable(request, inv) /\ ReadsInOrder
  BY <1>1 DEF RunInv, Settled
<1>3. /\ ReadInv' /\ call # Idle
      /\ call' # Idle => call'.pool = call.pool
      /\ last' # Nothing => last'.pool = call.pool
      /\ Cached(request.window) => evalModes'[request.window] = evalModes[request.window]
  BY <1>1, <1>2, AnsweredKeeps
<1>4. PICK n \in Nat : n = Len(measurements) /\ OrderKept(n)
  BY <1>2, LenProperties DEF ReadsInOrder, OrderKept
<1>5. OrderKept(n)'
  BY <1>1, <1>3, <1>4, OrderStays
<1>6. ReadsInOrder'
  BY <1>1, <1>2, <1>3, <1>4, <1>5 DEF ReadsInOrder, Sel
<1>7. Acceptable(request, inv)'
  BY <1>1, <1>2 DEF Acceptable
<1>8. QED
  BY <1>1, <1>2, <1>3, <1>6, <1>7 DEF RunInv, Settled

(* Collect keeps RunInv: the measurement just handed back is of the first  *)
(* pool to do.                                                             *)
LEMMA CollectKeeps ==
  ASSUME RunInv, Collect
  PROVE  RunInv'
<1>1. /\ main = "reading" /\ last.pool # None /\ measurements' = Append(measurements, last)
      /\ todo' = Tail(todo) /\ last' = Nothing /\ heard' = <<>>
      /\ UNCHANGED <<call, m, mode, evalModes, operatorMode, request, inv, main, report, counted>>
  BY DEF Collect
<1>2. request \in Requests /\ operatorMode = inv.ruleEvaluation /\ ReadInv /\ Acceptable(request, inv) /\ ReadsInOrder
  BY <1>1 DEF RunInv, Settled
<1>3. last # Nothing /\ call = Idle /\ call.query = "none" /\ last \in Measurements
  BY <1>1, <1>2, NothingIs, IdleNames DEF ReadInv, OneAtATime, SourceTypes
<1>4. ReadInv'
  <2>1. /\ call' = Idle /\ call'.query = "none" /\ last'.pool = None /\ heard' \in Seq(Answer)
    BY <1>1, <1>3, NothingIs
  <2>2. SourceTypes' /\ WhoAsks' /\ OneAtATime'
    BY <1>1, <1>2, <2>1 DEF ReadInv, SourceTypes, WhoAsks, OneAtATime
  <2>3. MemoryRead' /\ ChainRead'
    BY <2>1, Constants DEF MemoryRead, ChainRead, MemoryQueries, ProbeQueries
  <2>4. ModeRead'
    BY <1>1, <1>2, <2>1, NothingIs DEF ReadInv, ModeRead, InferQueries, ProbeQueries, Cached, Decided
  <2>5. QED
    BY <2>2, <2>3, <2>4 DEF ReadInv
<1>5. PICK n \in Nat : n = Len(measurements) /\ OrderKept(n)
  BY <1>2, LenProperties DEF ReadsInOrder, OrderKept
<1>6. /\ todo \in Seq(KnownPools) /\ Len(todo) = Len(Sel) - n /\ (\A i \in 1..Len(todo) : todo[i] = Sel[n + i])
      /\ Len(todo) > 0 /\ last.pool = todo[1] /\ report = None /\ ~counted
  BY <1>2, <1>3, <1>5 DEF ReadsInOrder
<1>7. PICK T : T = Measurements
  OBVIOUS
<1>8. /\ measurements' \in Seq(Measurements) /\ Len(measurements') = n + 1
      /\ \A i \in 1..n : measurements'[i] = measurements[i]
      /\ measurements'[n + 1] = last
  <2>1. measurements \in Seq(T) /\ last \in T
    BY <1>3, <1>5, <1>7 DEF OrderKept
  <2>2. QED
    BY <1>1, <1>5, <1>7, <2>1, AppendProperties
<1>9. last.pool = Sel[n + 1]
  BY <1>6
<1>10. last.pool \in RulerPools => Agrees(last)
  BY <1>2 DEF ReadInv, ModeRead
<1>11. OrderKept(n + 1)'
  <2>1. \A x : Agrees(x) => Agrees(x)'
    BY <1>1 DEF Agrees, Cached
  <2>2. Sel' = Sel
    BY <1>1 DEF Sel
  <2>3. \A i \in 1..(n + 1) : i \in 1..n \/ i = n + 1
    OBVIOUS
  <2>4. \A i \in 1..(n + 1) : /\ measurements'[i].pool = Sel'[i]
                              /\ measurements'[i].pool \in RulerPools => Agrees(measurements[i])'
    <3>1. SUFFICES ASSUME NEW i \in 1..(n + 1)
                   PROVE  /\ measurements'[i].pool = Sel[i]
                          /\ measurements'[i].pool \in RulerPools => Agrees(measurements[i])'
      BY <2>2
    <3>2. CASE i = n + 1
      <4>1. measurements'[i] = last
        BY <1>8, <3>2
      <4>2. Agrees(last) => Agrees(measurements[i])'
        BY <1>1, <4>1 DEF Agrees, Cached
      <4>3. QED
        BY <1>9, <1>10, <3>2, <4>1, <4>2
    <3>3. CASE i \in 1..n
      <4>1. measurements'[i] = measurements[i]
        BY <1>8, <3>3
      <4>2. Agrees(measurements[i]) => Agrees(measurements[i])'
        BY <1>1, <4>1 DEF Agrees, Cached
      <4>3. QED
        BY <1>5, <3>3, <4>1, <4>2 DEF OrderKept
    <3>4. QED
      BY <2>3, <3>2, <3>3
  <2>5. QED
    BY <1>8, <2>4 DEF OrderKept
<1>12. /\ todo' \in Seq(KnownPools) /\ Len(todo') = Len(Sel') - (n + 1)
       /\ \A i \in 1..Len(todo') : todo'[i] = Sel'[(n + 1) + i]
  <2>1. PICK K : K = KnownPools
    OBVIOUS
  <2>2. todo \in Seq(K) /\ todo # <<>>
    BY <1>6, <2>1
  <2>3. PICK L \in Nat : L = Len(todo) /\ L > 0 /\ L = Len(Sel) - n
    BY <1>6, <2>2, LenProperties
  <2>4. todo' \in Seq(K) /\ Len(todo') = L - 1 /\ \A i \in 1..(L - 1) : todo'[i] = todo[i + 1]
    BY <1>1, <2>2, <2>3, HeadTailProperties
  <2>5. \A i \in 1..(L - 1) : i + 1 \in 1..L /\ n + (i + 1) = (n + 1) + i
    OBVIOUS
  <2>6. Sel' = Sel /\ Len(Sel) - (n + 1) = L - 1
    <3>1. Sel' = Sel
      BY <1>1 DEF Sel
    <3>2. QED
      BY <2>3, <3>1, SelIs
  <2>7. \A i \in 1..(L - 1) : todo'[i] = Sel[(n + 1) + i]
    BY <1>6, <2>3, <2>4, <2>5
  <2>8. QED
    BY <2>1, <2>4, <2>6, <2>7
<1>13. ReadsInOrder'
  <2>1. call' = Idle /\ last' = Nothing /\ report' = None /\ ~counted'
    BY <1>1, <1>3, <1>6
  <2>2. Len(measurements') = n + 1
    BY <1>8
  <2>3. QED
    BY <1>11, <1>12, <2>1, <2>2 DEF ReadsInOrder
<1>14. Acceptable(request, inv)'
  BY <1>1, <1>2 DEF Acceptable
<1>15. QED
  BY <1>1, <1>2, <1>4, <1>13, <1>14 DEF RunInv, Settled

--------------------------------------------------------------------------------

(* What a complete run reports: its pools are the selected ones, each from *)
(* its own measurement.                                                    *)
LEMMA CompleteIs ==
  ASSUME ReadInv, Complete
  PROVE  /\ report.pools = [id \in Range(Sel) |-> Allocate(ByPool(measurements)[id], inv, Expected)]
         /\ report.notRead = KnownPools \ Range(Sel)
         /\ report.cross = CrossPool(report.pools, inv, Expected)
         /\ \A id \in Range(Sel) : /\ report.pools[id].pool = id
                                   /\ report.pools[id].ruleEvaluation = ByPool(measurements)[id].ruleEvaluation
                                   /\ id \in RulerPools => Agrees(ByPool(measurements)[id])
         /\ Len(measurements) = Cardinality(Range(Sel))
         /\ \A id \in Range(Sel) : \E x \in Range(measurements) :
                x.pool = id /\ report.pools[id] = Allocate(x, inv, Expected)
<1> DEFINE L == Len(Sel)
           ms == ByPool(measurements)
<1>1. OrderKept(L) /\ report = AllocateAll(ms, inv, Expected) /\ L \in Nat /\ Sel \in Seq(KnownPools) /\ Distinct(Sel)
  BY SelIs DEF Complete
<1> HIDE DEF L
<1>2. measurements \in Seq(Measurements) /\ Len(measurements) = L /\ \A i \in 1..L : measurements[i].pool = Sel[i]
  BY <1>1 DEF OrderKept
<1>3. Range(Sel) = {Sel[i] : i \in 1..L} /\ Range(measurements) = {measurements[i] : i \in 1..L}
  BY <1>1, <1>2 DEF Range, L
<1>4. {x.pool : x \in Range(measurements)} = Range(Sel)
  BY <1>2, <1>3
<1>5. \A id \in Range(Sel) : \E i \in 1..L : ms[id] = measurements[i] /\ Sel[i] = id
  <2>1. SUFFICES ASSUME NEW id \in Range(Sel) PROVE \E i \in 1..L : ms[id] = measurements[i] /\ Sel[i] = id
    OBVIOUS
  <2>2. ms[id] = CHOOSE x \in Range(measurements) : x.pool = id
    BY <1>4 DEF ByPool
  <2>3. \E x \in Range(measurements) : x.pool = id
    BY <1>4
  <2>4. ms[id] \in Range(measurements) /\ ms[id].pool = id
    <3> HIDE DEF ms
    <3>1. QED
      BY <2>2, <2>3
  <2>5. QED
    BY <1>2, <1>3, <2>4
<1>6. DOMAIN ms = Range(Sel)
  BY <1>4 DEF ByPool
<1> HIDE DEF ms
<1>7. \A id \in Range(Sel) : ms[id].pool = id /\ (id \in RulerPools => Agrees(ms[id]))
  BY <1>1, <1>2, <1>5 DEF OrderKept
<1>8. PICK P : P = [id \in Range(Sel) |-> Allocate(ms[id], inv, Expected)]
  OBVIOUS
<1>9. report = [pools |-> P, cross |-> CrossPool(P, inv, Expected), notRead |-> KnownPools \ Range(Sel)]
  BY <1>1, <1>6, <1>8 DEF AllocateAll
<1>10. \A x : Allocate(x, inv, Expected).pool = x.pool /\ Allocate(x, inv, Expected).ruleEvaluation = x.ruleEvaluation
  BY DEF Allocate
<1>11. L = Cardinality(Range(Sel))
  <2> DEFINE f == [i \in 1..L |-> Sel[i]]
  <2>1. f \in Bijection(1..L, Range(Sel))
    <3>1. f \in [1..L -> Range(Sel)] /\ \A id \in Range(Sel) : \E i \in 1..L : f[i] = id
      BY <1>3
    <3>2. \A i, j \in 1..L : f[i] = f[j] => i = j
      BY <1>1 DEF Distinct, L
    <3> HIDE DEF f
    <3>3. QED
      BY <3>1, <3>2 DEF Bijection, Injection, Surjection, IsInjective
  <2>2. ExistsBijection(1..L, Range(Sel)) /\ IsFiniteSet(1..L) /\ Cardinality(1..L) = L
    BY <1>1, <2>1, FS_Interval DEF ExistsBijection
  <2>3. QED
    BY <2>2, FS_Bijection
<1>12. QED
  <2>1. report.pools = P /\ report.notRead = KnownPools \ Range(Sel) /\ report.cross = CrossPool(P, inv, Expected)
    BY <1>9
  <2>2. \A id \in Range(Sel) : P[id].pool = id /\ P[id].ruleEvaluation = ms[id].ruleEvaluation
    BY <1>7, <1>8, <1>10
  <2>3. \A id \in Range(Sel) : \E x \in Range(measurements) : x.pool = id /\ P[id] = Allocate(x, inv, Expected)
    BY <1>3, <1>5, <1>7, <1>8
  <2>4. QED
    BY <1>2, <1>7, <1>8, <1>11, <2>1, <2>2, <2>3 DEF ms

--------------------------------------------------------------------------------
(* The end of the run, and the invariant.                                  *)

(* The run starts in RunInv.                                               *)
LEMMA RunStarts == RunInit => RunInv
BY DEF RunInit, RunInv, Unread

(* AllocatePools keeps RunInv: nothing is left to read.                    *)
LEMMA AllocateKeeps ==
  ASSUME RunInv, AllocatePools
  PROVE  RunInv'
<1>1. /\ main = "reading" /\ todo = <<>> /\ report' = AllocateAll(ByPool(measurements), inv, Expected)
      /\ main' = IF request.ruleOutputs THEN "loading rules" ELSE "rendered"
      /\ UNCHANGED <<sourceVars, request, inv, todo, measurements, counted>>
  BY DEF AllocatePools
<1>2. request \in Requests /\ operatorMode = inv.ruleEvaluation /\ ReadInv /\ Acceptable(request, inv) /\ ReadsInOrder
  BY <1>1 DEF RunInv, Settled
<1>3. ReadInv' /\ Acceptable(request, inv)' /\ UNCHANGED <<call, last, operatorMode, evalModes>>
  BY <1>1, <1>2, ReadStutters DEF Acceptable, sourceVars
<1>4. PICK n \in Nat : n = Len(measurements) /\ OrderKept(n) /\ Len(todo) = Len(Sel) - n
  BY <1>2, LenProperties DEF ReadsInOrder, OrderKept
<1>5. call = Idle /\ last = Nothing /\ Len(todo) = 0
  <2>1. Len(todo) = 0
    BY <1>1
  <2>2. /\ call # Idle => Len(todo) > 0
        /\ last # Nothing => Len(todo) > 0
    BY <1>2 DEF ReadsInOrder
  <2>3. QED
    BY <2>1, <2>2
<1>6. n = Len(Sel) /\ Sel' = Sel
  <2>1. Sel' = Sel
    BY <1>1 DEF Sel
  <2>2. PICK L \in Nat : L = Len(Sel)
    BY SelIs
  <2>3. 0 = L - n
    BY <1>4, <1>5, <2>2
  <2>4. n = L
    BY <2>3
  <2>5. QED
    BY <2>1, <2>2, <2>4
<1>7. OrderKept(n)'
  BY <1>1, <1>3, <1>4, OrderStays
<1>8. Complete'
  BY <1>1, <1>6, <1>7 DEF Complete
<1>9. ~counted' /\ request' = request /\ operatorMode' = inv'.ruleEvaluation
  BY <1>1, <1>2, <1>3 DEF ReadsInOrder
<1>10. QED
  BY <1>1, <1>2, <1>3, <1>5, <1>8, <1>9 DEF RunInv, Settled

(* A complete run stays so.                                                *)
LEMMA CompleteStays ==
  ASSUME ReadInv, Complete, UNCHANGED <<sourceVars, request, inv, todo, measurements, report>>
  PROVE  Complete'
<1>1. Sel' = Sel /\ Len(Sel) \in Nat /\ OrderKept(Len(Sel)) /\ UNCHANGED evalModes
  BY SelIs DEF Complete, Sel, sourceVars
<1>2. PICK n \in Nat : n = Len(Sel)
  BY <1>1
<1>3. OrderKept(n)'
  BY <1>1, <1>2, OrderStays
<1>4. QED
  BY <1>1, <1>2, <1>3 DEF Complete

(* The two ends of --rule-outputs keep RunInv.                             *)
LEMMA EndsKeep ==
  ASSUME RunInv, LoadFails \/ CountOutputs
  PROVE  RunInv'
<1>1. /\ main = "loading rules" /\ main' \in {"failed", "rendered"}
      /\ main' = "failed" => UNCHANGED counted
      /\ UNCHANGED <<sourceVars, request, inv, todo, measurements, report>>
  BY DEF LoadFails, CountOutputs
<1>2. /\ request \in Requests /\ operatorMode = inv.ruleEvaluation /\ Settled /\ Complete
      /\ call = Idle /\ last = Nothing /\ request.ruleOutputs
  BY <1>1 DEF RunInv
<1>3. Settled' /\ Complete' /\ UNCHANGED <<call, last, operatorMode>>
  BY <1>1, <1>2, ReadStutters, CompleteStays DEF Settled, Acceptable, sourceVars
<1>4. CASE LoadFails
  <2>1. ~counted
    BY <1>1 DEF RunInv
  <2>2. QED
    BY <1>1, <1>2, <1>3, <1>4, <2>1, NothingIs DEF RunInv, LoadFails
<1>5. CASE CountOutputs
  BY <1>1, <1>2, <1>3, <1>5 DEF RunInv, CountOutputs
<1>6. QED
  BY <1>4, <1>5

(* So do a refused request and a failed read.                              *)
LEMMA RefusalsKeep ==
  ASSUME RunInv, Refuse \/ ReadFails
  PROVE  RunInv'
<1>1. CASE Refuse
  <2>1. /\ main = "checking" /\ main' = "failed"
        /\ UNCHANGED <<sourceVars, request, inv, todo, measurements, report, counted>>
    BY <1>1 DEF Refuse
  <2>2. request \in Requests /\ operatorMode = inv.ruleEvaluation /\ last = Nothing /\ ~counted /\ report = None
    BY <2>1 DEF RunInv, Unread, Init
  <2>3. QED
    BY <2>1, <2>2, NothingIs DEF RunInv, sourceVars
<1>2. CASE ReadFails
  <2>1. /\ main = "reading" /\ main' = "failed" /\ call.query # "none"
        /\ UNCHANGED <<operatorMode, last, request, inv, todo, measurements, report, counted>>
    BY <1>2 DEF ReadFails, Fail
  <2>2. request \in Requests /\ operatorMode = inv.ruleEvaluation /\ ReadInv /\ ReadsInOrder
    BY <2>1 DEF RunInv, Settled
  <2>3. last = Nothing /\ report = None /\ ~counted
    BY <2>1, <2>2, IdleNames DEF ReadInv, OneAtATime, ReadsInOrder
  <2>4. QED
    BY <2>1, <2>2, <2>3, NothingIs DEF RunInv
<1>3. QED
  BY <1>1, <1>2

(* So does doing nothing.                                                  *)
LEMMA RunStutters ==
  ASSUME RunInv, UNCHANGED allVars
  PROVE  RunInv'
<1>1. UNCHANGED <<sourceVars, request, inv, main, todo, measurements, report, counted>>
  BY DEF allVars, runVars
<1>2. UNCHANGED <<call, m, mode, evalModes, operatorMode, heard, last>>
  BY <1>1 DEF sourceVars
<1>3. Settled => Settled'
  BY <1>1, ReadStutters DEF Settled, Acceptable
<1>4. Settled /\ Complete => Complete'
  BY <1>1, CompleteStays DEF Settled
<1>5. Unread => Unread'
  BY <1>1, <1>2 DEF Unread, Init
<1>6. ReadsInOrder => ReadsInOrder'
  <2>1. SUFFICES ASSUME ReadsInOrder PROVE ReadsInOrder'
    OBVIOUS
  <2>2. PICK n \in Nat : n = Len(measurements) /\ OrderKept(n)
    BY <2>1, LenProperties DEF ReadsInOrder, OrderKept
  <2>3. OrderKept(n)'
    BY <1>1, <1>2, <2>2, OrderStays
  <2>4. QED
    BY <1>1, <1>2, <2>1, <2>2, <2>3 DEF ReadsInOrder, Sel
<1>7. QED
  BY <1>1, <1>2, <1>3, <1>4, <1>5, <1>6 DEF RunInv

(* RunInv holds throughout: every pool is measured by its own read, in     *)
(* order, and a report is made of all of them or not at all.               *)
THEOREM RunInductive == RunSpec => []RunInv
<1>1. RunInv /\ [RunNext]_allVars => RunInv'
  <2>1. ASSUME RunInv, RunNext PROVE RunInv'
    BY <2>1, AcceptStarts, StartReadKeeps, ReadGoesOnKeeps, CollectKeeps, AllocateKeeps, EndsKeep,
       RefusalsKeep DEF RunNext
  <2>2. QED
    BY <2>1, RunStutters
<1>2. QED
  BY <1>1, RunStarts, PTL DEF RunSpec

--------------------------------------------------------------------------------
(* What follows from it.                                                   *)

(* In whichever state the run is, a measurement just handed back is one of *)
(* a read in progress.                                                     *)
LEMMA HandedBack ==
  ASSUME RunInv, last.pool \in KnownPools
  PROVE  ReadInv
<1>1. last.pool # None /\ last # Nothing
  BY NothingIs, Constants
<1>2. QED
  BY <1>1 DEF RunInv, Unread, Init, Settled

(* A report is one of a complete run.                                      *)
LEMMA ReportIsComplete ==
  ASSUME RunInv, report # None
  PROVE  ReadInv /\ Complete /\ Acceptable(request, inv) /\ operatorMode = inv.ruleEvaluation
BY DEF RunInv, Unread, Settled, ReadsInOrder

(* A measurement of ingester memory holds one write path only, whatever    *)
(* Mimir does between the two queries (readIngesterMemory).                *)
THEOREM OnePathOnly == RunSpec => []OneWritePath
<1>1. RunInv => OneWritePath
  <2>1. SUFFICES ASSUME RunInv, last.pool = PoolIngesterMemory PROVE OneWritePath
    BY DEF OneWritePath
  <2>2. ReadInv
    BY <2>1, HandedBack, Constants
  <2>3. OnePath(last) /\ heard \in Seq(Answer) /\ last \in Measurements
    BY <2>1, <2>2, NothingIs DEF ReadInv, MemoryRead, SourceTypes
  <2>4. CASE heard[1].response.any
    BY <2>1, <2>3, <2>4 DEF OneWritePath, OnePath
  <2>5. CASE ~heard[1].response.any
    <3>1. /\ Len(heard) = 2 /\ heard[1].query = "classic" /\ heard[2].query = "ingest storage"
          /\ last.drivers = heard[2].response.drivers
          /\ (last.deduplicated <=> heard[2].response.any)
      BY <2>3, <2>5 DEF OnePath
    <3>2. last.deduplicated = heard[2].response.any
      <4>1. heard[2] \in Answer
        <5>1. PICK S : S = Answer
          OBVIOUS
        <5>2. heard \in Seq(S)
          BY <2>3, <5>1
        <5>3. 2 \in 1..Len(heard)
          <6>1. Len(heard) = 2
            BY <3>1
          <6>2. 2 \in 1..2
            OBVIOUS
          <6>3. QED
            BY <6>1, <6>2
        <5>4. QED
          BY <5>1, <5>2, <5>3, ElementOfSeq
      <4>2. heard[2].response \in Responses
        BY <4>1 DEF Answer
      <4>3. heard[2].response.any \in BOOLEAN /\ last.deduplicated \in BOOLEAN
        BY <2>3, <4>2, DriversAssumption DEF Measurements
      <4>4. QED
        BY <3>1, <4>3
    <3>3. [k \in DOMAIN heard |-> heard[k].query] = <<"classic", "ingest storage">>
      <4>1. DOMAIN heard = 1..2
        <5>1. PICK S : S = Answer
          OBVIOUS
        <5>2. heard \in Seq(S)
          BY <2>3, <5>1
        <5>3. DOMAIN heard = 1..Len(heard)
          BY <5>2, LenProperties
        <5>4. QED
          BY <3>1, <5>3
      <4>2. PICK f : f = [k \in 1..2 |-> heard[k].query]
        OBVIOUS
      <4>3. PICK g, S : g = <<"classic", "ingest storage">> /\ S = {"classic", "ingest storage"}
        OBVIOUS
      <4>4. f = g
        <5>1. \A k \in 1..2 : k = 1 \/ k = 2
          OBVIOUS
        <5>2. 1 \in 1..2 /\ 2 \in 1..2
          OBVIOUS
        <5>3. f[1] = "classic" /\ f[2] = "ingest storage" /\ DOMAIN f = 1..2
          BY <3>1, <4>2, <5>2
        <5>4. f \in [1..2 -> S]
          BY <4>2, <4>3, <5>1, <5>3
        <5>5. f \in Seq(S) /\ Len(f) = 2
          <6>1. PICK n \in Nat : n = 2
            OBVIOUS
          <6>2. f \in [1..n -> S]
            BY <5>4, <6>1
          <6>3. f \in Seq(S) /\ Len(f) = n
            BY <6>2
          <6>4. QED
            BY <6>1, <6>3
        <5>6. g \in Seq(S) /\ Len(g) = 2 /\ g[1] = "classic" /\ g[2] = "ingest storage"
          <6>1. PICK x \in S : x = "classic"
            BY <4>3
          <6>2. PICK y \in S : y = "ingest storage"
            BY <4>3
          <6>3. g = <<x, y>>
            BY <4>3, <6>1, <6>2
          <6>4. <<x, y>> \in Seq(S) /\ Len(<<x, y>>) = 2
            OBVIOUS
          <6>5. QED
            BY <6>1, <6>2, <6>3, <6>4
        <5>7. QED
          BY <5>1, <5>3, <5>5, <5>6, SeqEqual
      <4>5. QED
        BY <4>1, <4>2, <4>3, <4>4
    <3>4. QED
      BY <2>5, <3>1, <3>2, <3>3 DEF OneWritePath
  <2>6. QED
    BY <2>4, <2>5
<1>2. QED
  BY <1>1, RunInductive, PTL

(* A report holds exactly the selected pools, each measured; a failed      *)
(* read, also of the last pool, leaves none (runCost).                     *)
THEOREM SelectedOrNone == RunSpec => []AllSelectedPoolsOrNone
<1>1. RunInv => AllSelectedPoolsOrNone
  <2>1. SUFFICES ASSUME RunInv PROVE AllSelectedPoolsOrNone
    OBVIOUS
  <2>2. ASSUME ReadInv, Complete
        PROVE  /\ DOMAIN report.pools = Range(Sel) /\ report.notRead = KnownPools \ Range(Sel)
               /\ Len(measurements) = Cardinality(DOMAIN report.pools)
               /\ \A id \in DOMAIN report.pools : \E x \in Range(measurements) :
                    x.pool = id /\ report.pools[id] = Allocate(x, inv, Expected)
    BY <2>2, CompleteIs
  <2>3. Rendered => /\ DOMAIN report.pools = Range(Sel) /\ report.notRead = KnownPools \ Range(Sel)
                    /\ Len(measurements) = Cardinality(DOMAIN report.pools)
                    /\ \A id \in DOMAIN report.pools : \E x \in Range(measurements) :
                         x.pool = id /\ report.pools[id] = Allocate(x, inv, Expected)
    BY <2>1, <2>2 DEF Rendered, RunInv, Settled
  <2>4. counted => PoolIngesterMemory \in DOMAIN report.pools
    <3>1. SUFFICES ASSUME counted PROVE PoolIngesterMemory \in DOMAIN report.pools
      OBVIOUS
    <3>2. ReadInv /\ Complete /\ Acceptable(request, inv) /\ request.ruleOutputs
      BY <2>1, <3>1 DEF RunInv, Unread, Settled, ReadsInOrder
    <3>3. PoolIngesterMemory \in Range(Sel)
      BY <3>2 DEF Acceptable, Sel
    <3>4. QED
      BY <2>2, <3>2, <3>3
  <2>5. (\E id \in Range(todo) : main \in {"failed", "rendered"}) => report = None
    <3>1. SUFFICES ASSUME report # None PROVE Range(todo) = {}
      OBVIOUS
    <3>2. todo = <<>>
      BY <2>1, <3>1, ReportIsComplete DEF Complete
    <3>3. QED
      BY <3>2 DEF Range
  <2>6. QED
    BY <2>3, <2>4, <2>5 DEF AllSelectedPoolsOrNone, Sel
<1>2. QED
  BY <1>1, RunInductive, PTL

(* The total is over the priced pools.                                     *)
LEMMA CrossPriced == \A P, i, e : CrossPool(P, i, e).priced = PricedPools(P)
BY DEF CrossPool

(* It warns when it weighs rule queries twice.                             *)
LEMMA CrossWarns ==
  \A P, i, e : PricedPools(P) # {} /\ WeighsRuleQueriesTwice(P, PricedPools(P))
               => "weighs rule queries twice" \in CrossPool(P, i, e).notes
<1>1. SUFFICES ASSUME NEW P, NEW i, NEW e, NEW priced, priced = PricedPools(P), priced # {},
                      WeighsRuleQueriesTwice(P, priced)
               PROVE  "weighs rule queries twice" \in CrossPool(P, i, e).notes
  OBVIOUS
<1>2. PICK extra :
        extra = IF i.platform # None
                   /\ ~(i.platform # None /\ SumFunction([id \in priced |-> P[id].poolCost]) <= i.platform)
                THEN {"priced above platform"} ELSE {}
  OBVIOUS
<1>3. CrossPool(P, i, e).notes =
        (IF WeighsRuleQueriesTwice(P, priced) THEN {"weighs rule queries twice"} ELSE {}) \cup extra
  BY <1>1, <1>2 DEF CrossPool
<1>4. QED
  BY <1>1, <1>3

(* In one report the query path and the ruler say the same about where     *)
(* rules ran, the operator's statement wins, and a total over both warns   *)
(* (ruleEvaluation's cache, crossPool).                                    *)
THEOREM RuleWorkAgrees == RunSpec => []ReportAgreesOnRuleWork
<1>1. RunInv => ReportAgreesOnRuleWork
  <2> DEFINE ruler == {a \in Range(report.pools) : a.pool # PoolIngesterMemory}
             w == request.window
  <2>1. SUFFICES ASSUME RunInv, report # None
                 PROVE  /\ \A a, b \in ruler : a.ruleEvaluation = b.ruleEvaluation
                        /\ inv.ruleEvaluation # "" => \A a \in ruler : a.ruleEvaluation = inv.ruleEvaluation
                        /\ ({PoolQueryPath, PoolRulerCPU} \subseteq report.cross.priced
                            /\ \E a \in ruler : a.ruleEvaluation = "remote")
                           => "weighs rule queries twice" \in report.cross.notes
    BY DEF ReportAgreesOnRuleWork
  <2>2. ReadInv /\ Complete /\ operatorMode = inv.ruleEvaluation
    BY <2>1, ReportIsComplete
  <2>3. PICK P : P = report.pools
    OBVIOUS
  <2>4. /\ DOMAIN P = Range(Sel) /\ report.cross = CrossPool(P, inv, Expected)
        /\ \A id \in Range(Sel) : /\ P[id].pool = id
                                  /\ id \in RulerPools => Cached(w) /\ P[id].ruleEvaluation = evalModes[w].mode
    BY <2>2, <2>3, CompleteIs DEF Agrees
  <2>5. Range(Sel) \subseteq KnownPools
    BY SelIs DEF Range
  <2>6. \A id \in Range(Sel) : P[id].pool # PoolIngesterMemory => id \in RulerPools
    BY <2>4, <2>5, Constants DEF RulerPools
  <2>7. \A a \in ruler : a.ruleEvaluation = evalModes[w].mode /\ Cached(w)
    BY <2>3, <2>4, <2>6 DEF Range
  <2>8. \A id \in Range(Sel) : id \in RulerPools => P[id] \in ruler
    BY <2>3, <2>4, Constants DEF Range, RulerPools
  <2>9. Cached(w) => (operatorMode # "" => evalModes[w].mode = operatorMode)
    BY <2>2 DEF ReadInv, ModeRead, OneAtATime, Decided
  <2> HIDE DEF ruler, w
  <2>10. ASSUME {PoolQueryPath, PoolRulerCPU} \subseteq report.cross.priced,
                \E a \in ruler : a.ruleEvaluation = "remote"
         PROVE  "weighs rule queries twice" \in report.cross.notes
    <3>1. PICK priced : priced = PricedPools(P)
      OBVIOUS
    <3>2. report.cross.priced = priced
      BY <2>4, <3>1, CrossPriced
    <3>3. PoolQueryPath \in Range(Sel) /\ PoolQueryPath \in priced
      BY <2>4, <2>10, <3>1, <3>2 DEF PricedPools
    <3>4. P[PoolQueryPath].ruleEvaluation = "remote"
      BY <2>7, <2>8, <2>10, <3>3 DEF RulerPools
    <3>5. WeighsRuleQueriesTwice(P, priced)
      BY <2>10, <3>2, <3>3, <3>4 DEF WeighsRuleQueriesTwice
    <3>6. PricedPools(P) # {} /\ WeighsRuleQueriesTwice(P, PricedPools(P))
      BY <3>1, <3>3, <3>5
    <3>7. "weighs rule queries twice" \in CrossPool(P, inv, Expected).notes
      BY <3>6, CrossWarns
    <3>8. QED
      BY <2>4, <3>7
  <2>11. QED
    BY <2>2, <2>7, <2>9, <2>10
<1>2. QED
  BY <1>1, RunInductive, PTL

--------------------------------------------------------------------------------
(* The answers of the chain, in the terms of the property.                 *)
Links == {h \in Range(heard) : h.query = "chain"}
Used  == {h \in Links : SumFunction(h.response.drivers) > 0}
Zeros == {h \in Links : DOMAIN h.response.drivers # {}}
FirstOf(S, h) ==
    /\ h \in S /\ \A g \in S : h.link <= g.link
    /\ last.metric = QueryPathChain[h.link]
    /\ last.drivers = h.response.drivers

(* The chain's answers, in the order they were heard.                      *)
LEMMA LinksAre ==
  ASSUME heard \in Seq(Answer), NEW o \in {0, 1}, NEW n \in 1..4, AsksFrom(o, n)
  PROVE  /\ Links = {heard[o + k] : k \in 1..n}
         /\ \A h \in Links : \E k \in 1..n : h = heard[o + k]
         /\ \A k \in 1..n : /\ heard[o + k] \in Links /\ heard[o + k].link = k
                            /\ heard[o + k].response.drivers = Told(o, k)
                            /\ SumFunction(Told(o, k)) \in Int
<1>1. PICK S : S = Answer
  OBVIOUS
<1>2. heard \in Seq(S) /\ Len(heard) = o + n
  BY <1>1 DEF AsksFrom
<1>3. DOMAIN heard = 1..(o + n)
  BY <1>2, LenProperties
<1>4. \A k \in 1..n : o + k \in 1..(o + n)
  OBVIOUS
<1>5. \A i \in 1..(o + n) : i \in 1..o \/ \E k \in 1..n : i = o + k
  <2>1. ASSUME NEW i \in 1..(o + n), i \notin 1..o PROVE \E k \in 1..n : i = o + k
    <3>1. CASE o = 0
      BY <2>1, <3>1
    <3>2. CASE o = 1
      <4>1. i - 1 \in 1..n /\ i = o + (i - 1)
        BY <2>1, <3>2
      <4>2. QED
        BY <4>1
    <3>3. QED
      BY <3>1, <3>2
  <2>2. QED
    BY <2>1
<1>6. Range(heard) = {heard[i] : i \in 1..(o + n)}
  BY <1>3 DEF Range
<1>0. (\A i \in 1..o : heard[i].query # "chain") /\ (\A k \in 1..n : heard[o + k].query = "chain")
  BY DEF AsksFrom
<1>7. \A h \in Links : \E k \in 1..n : h = heard[o + k]
  <2>1. SUFFICES ASSUME NEW h \in Links PROVE \E k \in 1..n : h = heard[o + k]
    OBVIOUS
  <2>2. h.query = "chain" /\ h \in Range(heard)
    BY DEF Links
  <2>3. PICK i \in 1..(o + n) : h = heard[i]
    BY <1>6, <2>2
  <2>4. i \notin 1..o
    BY <1>0, <2>2, <2>3
  <2>5. QED
    BY <1>5, <2>3, <2>4
<1>8. \A k \in 1..n : heard[o + k] \in Links
  BY <1>4, <1>6, <1>0 DEF Links
<1>9. \A k \in 1..n : SumFunction(Told(o, k)) \in Int
  <2>1. SUFFICES ASSUME NEW k \in 1..n PROVE SumFunction(Told(o, k)) \in Int
    OBVIOUS
  <2>2. heard[o + k] \in S
    BY <1>2, <1>4, ElementOfSeq
  <2>3. heard[o + k].response \in Responses
    BY <1>1, <2>2 DEF Answer
  <2>4. QED
    BY <2>3, Constants DEF Told
<1>10. QED
  BY <1>7, <1>8, <1>9 DEF AsksFrom, Told

(* The first driver above zero is the only one above zero that was heard.  *)
LEMMA StrongestUsed ==
  ASSUME heard \in Seq(Answer), NEW o \in {0, 1}, NEW n \in 1..4, AsksFrom(o, n),
         \A k \in 1..n - 1 : IsZero(o, k), ~IsZero(o, n), Takes(o, n)
  PROVE  Used # {} /\ \E h \in Used : FirstOf(Used, h)
<1>1. PICK h : h = heard[o + n]
  OBVIOUS
<1>2. n \in 1..n /\ \A k \in 1..n : k = n \/ k \in 1..n - 1
  OBVIOUS
<1>3. h \in Links /\ h.link = n /\ h.response.drivers = Told(o, n)
  BY <1>1, <1>2, LinksAre, ZenonT(40)
<1>4. SumFunction(Told(o, n)) > 0
  BY <1>2, LinksAre DEF IsZero
<1>5. h \in Used
  BY <1>3, <1>4 DEF Used
<1>0. \A g \in Links : \E k \in 1..n : g = heard[o + k]
  BY LinksAre, ZenonT(40)
<1>6. \A g \in Used : g = h
  <2>1. SUFFICES ASSUME NEW g \in Used PROVE g = h
    OBVIOUS
  <2>2. PICK k \in 1..n : g = heard[o + k]
    BY <1>0 DEF Used
  <2>3. SumFunction(Told(o, k)) > 0 /\ SumFunction(Told(o, k)) \in Int
    BY <2>2, LinksAre, SMTT(30) DEF Used
  <2>4. ~IsZero(o, k)
    BY <2>3 DEF IsZero
  <2>5. k = n
    BY <1>2, <2>4
  <2>6. QED
    BY <1>1, <2>2, <2>5
<1>7. FirstOf(Used, h)
  <2>1. last.metric = QueryPathChain[h.link] /\ last.drivers = h.response.drivers
    BY <1>3 DEF Takes
  <2>2. \A g \in Used : h.link <= g.link
    BY <1>3, <1>6
  <2>3. QED
    BY <1>5, <2>1, <2>2 DEF FirstOf
<1>8. QED
  BY <1>5, <1>7

(* An exhausted chain heard none above zero.                               *)
LEMMA NothingUsed ==
  ASSUME heard \in Seq(Answer), NEW o \in {0, 1}, NEW n \in 1..4, AsksFrom(o, n),
         \A k \in 1..n - 1 : IsZero(o, k), IsZero(o, n)
  PROVE  Used = {}
<1>0. \A g \in Links : \E k \in 1..n : g = heard[o + k]
  BY LinksAre, ZenonT(40)
<1>1. SUFFICES ASSUME NEW g \in Used PROVE FALSE
  OBVIOUS
<1>2. PICK k \in 1..n : g = heard[o + k]
  BY <1>0 DEF Used
<1>3. SumFunction(Told(o, k)) > 0 /\ SumFunction(Told(o, k)) \in Int
  BY <1>2, LinksAre, SMTT(30) DEF Used
<1>4. ~IsZero(o, k)
  BY <1>3 DEF IsZero
<1>5. k = n \/ k \in 1..n - 1
  OBVIOUS
<1>6. QED
  BY <1>4, <1>5

(* It then takes the first that answered at all.                           *)
LEMMA StrongestZero ==
  ASSUME heard \in Seq(Answer), NEW o \in {0, 1}, NEW n \in 1..4, AsksFrom(o, n),
         NEW k \in 1..4, FirstTold(o, n, k), Takes(o, k)
  PROVE  Zeros # {} /\ \E h \in Zeros : FirstOf(Zeros, h)
<1>1. PICK h : h = heard[o + k]
  OBVIOUS
<1>2. k \in 1..n /\ DOMAIN Told(o, k) # {} /\ \A j \in 1..(k - 1) : DOMAIN Told(o, j) = {}
  BY DEF FirstTold
<1>3. h \in Links /\ h.link = k /\ h.response.drivers = Told(o, k)
  BY <1>1, <1>2, LinksAre
<1>4. h \in Zeros
  BY <1>2, <1>3 DEF Zeros
<1>5. \A g \in Zeros : k <= g.link
  <2>1. SUFFICES ASSUME NEW g \in Zeros PROVE k <= g.link
    OBVIOUS
  <2>2. PICK j \in 1..n : g = heard[o + j]
    BY LinksAre, SMTT(30) DEF Zeros
  <2>3. g.link = j /\ DOMAIN Told(o, j) # {}
    BY <2>2, LinksAre DEF Zeros
  <2>4. j \notin 1..(k - 1)
    BY <1>2, <2>3
  <2>5. k <= j
    BY <2>4
  <2>6. QED
    BY <2>3, <2>5
<1>6. FirstOf(Zeros, h)
  BY <1>3, <1>4, <1>5 DEF FirstOf, Takes
<1>7. QED
  BY <1>4, <1>6

(* When nobody answered, all four were asked.                              *)
LEMMA NobodyAnswered ==
  ASSUME heard \in Seq(Answer), NEW o \in {0, 1}, AsksFrom(o, 4), Silent(o, 4)
  PROVE  Zeros = {} /\ Cardinality(Links) = 4
<1>1. PICK n \in 1..4 : n = 4
  OBVIOUS
<1>2. /\ Links = {heard[o + k] : k \in 1..n}
      /\ \A k \in 1..n : heard[o + k].link = k /\ heard[o + k].response.drivers = Told(o, k)
  BY <1>1, LinksAre, SMTT(30)
<1>3. Zeros = {}
  BY <1>1, <1>2 DEF Zeros, Silent
<1>4. PICK f : f = [k \in 1..n |-> heard[o + k]]
  OBVIOUS
<1>5. f \in Bijection(1..n, Links)
  <2>1. f \in [1..n -> Links] /\ \A h \in Links : \E k \in 1..n : f[k] = h
    BY <1>2, <1>4
  <2>2. \A j, k \in 1..n : f[j] = f[k] => j = k
    BY <1>2, <1>4
  <2>3. QED
    BY <2>1, <2>2 DEF Bijection, Injection, Surjection, IsInjective
<1>6. IsFiniteSet(1..n) /\ Cardinality(1..n) = n
  <2>1. IsFiniteSet(1..n) /\ Cardinality(1..n) = IF 1 > n THEN 0 ELSE n - 1 + 1
    BY FS_Interval, SMTT(30)
  <2>2. ~(1 > n) /\ n - 1 + 1 = n
    OBVIOUS
  <2>3. QED
    BY <2>1, <2>2
<1>7. QED
  BY <1>1, <1>3, <1>5, <1>6, FS_Bijection DEF ExistsBijection

(* ReadQueryPath takes the first driver above zero, else the first that    *)
(* answered, else nothing after asking all of them; it is flagged as a     *)
(* fallback exactly when it is time (queryPathChain).                      *)
THEOREM StrongestTaken == RunSpec => []StrongestDriverWins
<1>1. RunInv => StrongestDriverWins
  <2>1. SUFFICES ASSUME RunInv, last.pool = PoolQueryPath PROVE StrongestDriverWins
    BY DEF StrongestDriverWins
  <2>2. ReadInv
    BY <2>1, HandedBack, Constants
  <2>3. heard \in Seq(Answer) /\ last \in Measurements
    BY <2>1, <2>2, NothingIs, Constants DEF ReadInv, SourceTypes
  <2>4. PICK o \in {0, 1}, n \in 1..4 : ChainEnded(o, n)
    BY <2>1, <2>2 DEF ReadInv, ChainRead
  <2>5. AsksFrom(o, n) /\ \A k \in 1..n - 1 : IsZero(o, k)
    BY <2>4 DEF ChainEnded
  <2>6. (\E k \in 1..4 : Takes(o, k)) => (last.fallback <=> last.metric = QueryPathChain[Seconds])
    BY Constants DEF Takes
  <2>7. /\ CASE Used # {} -> \E h \in Used : FirstOf(Used, h)
             [] Used = {} /\ Zeros # {} -> \E h \in Zeros : FirstOf(Zeros, h)
             [] OTHER -> last.drivers = <<>> /\ Cardinality(Links) = Len(QueryPathChain)
        /\ last.fallback <=> last.metric = QueryPathChain[Seconds]
    <3>1. CASE ~IsZero(o, n) /\ Takes(o, n)
      BY <2>3, <2>5, <2>6, <3>1, StrongestUsed
    <3>2. CASE IsZero(o, n) /\ n = 4 /\ \E k \in 1..4 : FirstTold(o, n, k) /\ Takes(o, k)
      <4>1. Used = {}
        BY <2>3, <2>5, <3>2, NothingUsed
      <4>2. Zeros # {} /\ \E h \in Zeros : FirstOf(Zeros, h)
        BY <2>3, <2>5, <3>2, StrongestZero
      <4>3. QED
        BY <2>6, <3>2, <4>1, <4>2
    <3>3. CASE /\ n = 4 /\ Silent(o, n) /\ IsZero(o, n)
               /\ last.drivers = <<>> /\ last.metric = QueryPathChain[1] /\ ~last.fallback
      <4>1. Used = {}
        BY <2>3, <2>5, <3>3, NothingUsed
      <4>2. Zeros = {} /\ Cardinality(Links) = 4
        BY <2>3, <2>5, <3>3, NobodyAnswered
      <4>3. 1 \in 1..4 /\ 1 # 4
        OBVIOUS
      <4>4. last.metric # QueryPathChain[4]
        BY <3>3, <4>3, Constants
      <4>5. QED
        BY <3>3, <4>1, <4>2, <4>4, Constants
    <3>4. QED
      BY <2>4, <3>1, <3>2, <3>3 DEF ChainEnded
  <2>8. QED
    BY <2>7 DEF StrongestDriverWins, Links, Used, Zeros, FirstOf
<1>2. QED
  BY <1>1, RunInductive, PTL

================================================================================
