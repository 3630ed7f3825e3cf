------------------------------ MODULE MimirDrivers -----------------------------
(***************************************************************************)
(* internal/cost/mimirdrivers: a Source reads one pool's driver at a time  *)
(* by a series of instant queries.  Every query runs at Mimir's current    *)
(* time, so between two queries Mimir may have moved on in any way: a      *)
(* query is answered by any response, or fails.                            *)
(*                                                                         *)
(* A response is the samples' usable values by tenant (Sample.Float        *)
(* refuses the others, and a sample with no user label is skipped) and     *)
(* whether there was any sample at all, which is what some decisions look  *)
(* at.  The PromQL texts, and so the selector, are left out.               *)
(***************************************************************************)
EXTENDS CostModel

CONSTANTS
    Responses,      \* the responses of a per-tenant query
    FactorAnswers,  \* what the replication factor query can give, None included
    Windows

(* queryPathChain: the fetched-volume metrics and, last, query seconds.    *)
QueryPathChain == <<"chunk bytes", "samples processed", "series fetched", "query seconds">>
Seconds == Len(QueryPathChain)

(* Where rules are evaluated, as stated or inferred.                       *)
Modes == RuleEvaluations \cup {"unknown"}

(* A response holds finitely many tenants; nil is none of its values.      *)
ASSUME DriversAssumption ==
    /\ \A r \in Responses : /\ r.any \in BOOLEAN /\ (DOMAIN r.drivers # {} => r.any)
                           /\ IsFiniteSet(DOMAIN r.drivers)
                           /\ \A t \in DOMAIN r.drivers : r.drivers[t] \in Int
    /\ None \notin KnownPools \cup Modes
    /\ \A r \in Responses, k \in 1..Seconds : None # [link |-> k, drivers |-> r.drivers]

VARIABLES
    call,       \* the read in progress: pool, window, the query it is about to ask
    m,          \* the Measurement under construction
    mode,       \* the ruleEvaluation under construction
    evalModes,  \* Source.evalModes: the cache, by window
    operatorMode,   \* Source.RulerEvaluation as constructed, "" to infer
    heard,      \* observed: what the latest read's queries answered, in order
    last        \* the latest measurement handed back

sourceVars == <<call, m, mode, evalModes, operatorMode, heard, last>>

Nothing == [pool |-> None, drivers |-> <<>>]
Idle == [pool |-> None, window |-> None, query |-> "none", link |-> 0]
NoMode == [mode |-> None, evalSeconds |-> <<>>,
           distributor |-> FALSE, querySeconds |-> FALSE, evaluations |-> FALSE]

Measurement(pool) ==
    [pool |-> pool, drivers |-> <<>>, metric |-> "", zeroed |-> None,
     unreplicated |-> pool # PoolIngesterMemory, deduplicated |-> FALSE, rf |-> None,
     ruleEvaluation |-> "", fallback |-> FALSE]

Cached(w) == evalModes[w].mode # None

Init ==
    /\ call = Idle
    /\ m = Measurement(None)
    /\ mode = NoMode
    /\ evalModes = [w \in Windows |-> NoMode]
    /\ heard = <<>> /\ last = Nothing

--------------------------------------------------------------------------------
(* How a read goes on and how it ends.                                     *)

Ask(query) == call' = [call EXCEPT !.query = query]

Heard(query, response) ==
    heard' = Append(heard, [query |-> query, link |-> call.link, response |-> response])

Forget == m' = Measurement(None) /\ mode' = NoMode

(* return m, nil                                                           *)
Return(result) ==
    /\ call' = Idle
    /\ last' = result
    /\ Forget

(* return cost.Measurement{}, err: any query of any read may fail.         *)
Fail ==
    /\ call.query \notin {"none", "mode"}
    /\ call' = Idle
    /\ Forget
    /\ UNCHANGED <<evalModes, operatorMode, heard, last>>

--------------------------------------------------------------------------------
(* Pool 1, ReadIngesterMemory.                                             *)

BeginIngesterMemory(w) ==
    /\ call' = [pool |-> PoolIngesterMemory, window |-> w, query |-> "classic", link |-> 0]
    /\ m' = Measurement(PoolIngesterMemory)
    /\ UNCHANGED mode

(* Mutant: falls through when no value is usable, not when none is there.  *)
ClassicSeries_ByValues ==
    /\ call.query = "classic"
    /\ \E r \in Responses :
        /\ Heard("classic", r)
        /\ m' = [m EXCEPT !.drivers = r.drivers, !.metric = IF r.any THEN "classic" ELSE ""]
        /\ Ask(IF DOMAIN r.drivers # {} THEN "points" ELSE "ingest storage")
    /\ UNCHANGED <<mode, evalModes, last>>

(* Classic first; only an answer without any sample leads to the           *)
(* ingest-storage form.                                                    *)
ClassicSeries ==
    /\ call.query = "classic"
    /\ \E r \in Responses :
        /\ Heard("classic", r)
        /\ m' = [m EXCEPT !.drivers = r.drivers, !.metric = IF r.any THEN "classic" ELSE ""]
        /\ Ask(IF r.any THEN "points" ELSE "ingest storage")
    /\ UNCHANGED <<mode, evalModes, last>>

IngestStorageSeries ==
    /\ call.query = "ingest storage"
    /\ \E r \in Responses :
        /\ Heard("ingest storage", r)
        /\ m' = [m EXCEPT !.drivers = r.drivers, !.deduplicated = r.any,
                          !.metric = IF r.any THEN "ingest storage" ELSE ""]
        /\ Ask(IF r.any THEN "points" ELSE "replication factor")
    /\ UNCHANGED <<mode, evalModes, last>>

(* averagingAssumption only adds a line to the trail, but it too can fail. *)
PipelinePoints ==
    /\ call.query = "points"
    /\ Ask("replication factor")
    /\ UNCHANGED <<m, mode, evalModes, heard, last>>

ReplicationFactor ==
    /\ call.query = "replication factor"
    /\ \E rf \in FactorAnswers : Return([m EXCEPT !.rf = rf])
    /\ UNCHANGED <<evalModes, heard>>

--------------------------------------------------------------------------------
(* ruleEvaluation and inferRuleEvaluation, used by pools 6 and 7.          *)

BeginRuler(pool, w) ==
    /\ call' = [pool |-> pool, window |-> w, link |-> 0,
                query |-> IF Cached(w) THEN "mode" ELSE "rule evaluation seconds"]
    /\ m' = Measurement(pool)
    /\ mode' = IF Cached(w) THEN evalModes[w] ELSE NoMode

RuleEvaluationSeconds ==
    /\ call.query = "rule evaluation seconds"
    /\ \E r \in Responses :
        /\ Heard("rule evaluation seconds", r)
        /\ mode' = [mode EXCEPT !.evalSeconds = r.drivers,
                                !.mode = IF operatorMode = "" THEN None ELSE operatorMode]
    /\ Ask(IF operatorMode = "" THEN "distributor queries" ELSE "mode")
    /\ UNCHANGED <<m, evalModes, last>>

(* The three probes only ask whether there is any sample.                  *)
DistributorQueries ==
    /\ call.query = "distributor queries"
    /\ \E present \in BOOLEAN : mode' = [mode EXCEPT !.distributor = present]
    /\ Ask("ruler query seconds")
    /\ UNCHANGED <<m, evalModes, heard, last>>

RulerQuerySeconds ==
    /\ call.query = "ruler query seconds"
    /\ \E present \in BOOLEAN : mode' = [mode EXCEPT !.querySeconds = present]
    /\ Ask("ruler evaluations")
    /\ UNCHANGED <<m, evalModes, heard, last>>

Inferred(e) ==
    CASE e.distributor \/ e.querySeconds -> "local"
      [] ~e.distributor /\ ~e.querySeconds /\ e.evaluations -> "remote"
      [] OTHER -> "unknown"

RulerEvaluations ==
    /\ call.query = "ruler evaluations"
    /\ \E present \in BOOLEAN :
        LET e == [mode EXCEPT !.evaluations = present]
        IN  mode' = [e EXCEPT !.mode = Inferred(e)]
    /\ Ask("mode")
    /\ UNCHANGED <<m, evalModes, heard, last>>

(* Mutant: the decision is not remembered.                                 *)
ModeKnown_Uncached ==
    /\ call.query = "mode"
    /\ UNCHANGED evalModes
    /\ \/ /\ call.pool = PoolRulerCPU
          /\ Return([m EXCEPT !.drivers = mode.evalSeconds, !.ruleEvaluation = mode.mode,
                              !.metric = "rule evaluation seconds"])
       \/ /\ call.pool = PoolQueryPath
          /\ m' = [m EXCEPT !.ruleEvaluation = mode.mode]
          /\ call' = [call EXCEPT !.query = "chain", !.link = 1]
          /\ UNCHANGED <<mode, last>>
    /\ UNCHANGED heard

(* s.evalModes[rangeStr] = r, and back in the pool's own reader: pool 7    *)
(* returns what the inference read, pool 6 goes on to its chain.           *)
ModeKnown ==
    /\ call.query = "mode"
    /\ evalModes' = [evalModes EXCEPT ![call.window] = mode]
    /\ \/ /\ call.pool = PoolRulerCPU
          /\ Return([m EXCEPT !.drivers = mode.evalSeconds, !.ruleEvaluation = mode.mode,
                              !.metric = "rule evaluation seconds"])
       \/ /\ call.pool = PoolQueryPath
          /\ m' = [m EXCEPT !.ruleEvaluation = mode.mode]
          /\ call' = [call EXCEPT !.query = "chain", !.link = 1]
          /\ UNCHANGED <<mode, last>>
    /\ UNCHANGED heard

--------------------------------------------------------------------------------
(* Pool 6, ReadQueryPath: the chain of drivers.                            *)

Choose(k, drivers) ==
    [m EXCEPT !.drivers = drivers, !.metric = QueryPathChain[k], !.fallback = (k = Seconds)]

(* The chain is exhausted: the first driver that answered with zeros only, *)
(* or an empty measurement that names the preferred metric.                *)
Exhausted(zeroed) ==
    IF zeroed = None THEN [m EXCEPT !.metric = QueryPathChain[1]]
                     ELSE Choose(zeroed.link, zeroed.drivers)

(* Mutant: keeps the last all-zero driver.                                 *)
FirstZeroed_Last(k, drivers) ==
    IF DOMAIN drivers = {} THEN m.zeroed
                                              ELSE [link |-> k, drivers |-> drivers]

FirstZeroed(k, drivers) ==
    IF m.zeroed # None \/ DOMAIN drivers = {} THEN m.zeroed
                                              ELSE [link |-> k, drivers |-> drivers]

ChainLink ==
    /\ call.query = "chain"
    /\ \E r \in Responses :
        /\ Heard("chain", r)
        /\ \/ /\ SumFunction(r.drivers) > 0
              /\ Return(Choose(call.link, r.drivers))
           \/ /\ SumFunction(r.drivers) <= 0
              /\ call.link = Len(QueryPathChain)
              /\ Return(Exhausted(FirstZeroed(call.link, r.drivers)))
           \/ /\ SumFunction(r.drivers) <= 0
              /\ call.link < Len(QueryPathChain)
              /\ m' = [m EXCEPT !.zeroed = FirstZeroed(call.link, r.drivers)]
              /\ call' = [call EXCEPT !.link = @ + 1]
              /\ UNCHANGED <<mode, last>>
    /\ UNCHANGED evalModes

--------------------------------------------------------------------------------
Begin(pool, w) ==
    /\ call = Idle
    /\ \/ pool = PoolIngesterMemory /\ BeginIngesterMemory(w)
       \/ pool \in {PoolQueryPath, PoolRulerCPU} /\ BeginRuler(pool, w)
    /\ heard' = <<>>
    /\ last' = Nothing
    /\ UNCHANGED <<evalModes, operatorMode>>

Answered ==
    /\ \/ ClassicSeries \/ IngestStorageSeries \/ PipelinePoints \/ ReplicationFactor
       \/ RuleEvaluationSeconds \/ DistributorQueries \/ RulerQuerySeconds \/ RulerEvaluations
       \/ ModeKnown \/ ChainLink
    /\ UNCHANGED operatorMode

--------------------------------------------------------------------------------
(* Properties.                                                             *)

(* "running both and adding would double-count a cluster mid-migration"    *)
(* (mimirdrivers.go:234): however Mimir changes between the two queries, a *)
(* measurement holds one write path's series, the ingest-storage one only  *)
(* when the classic query found no sample, and is marked deduplicated      *)
(* exactly when its values already are.                                    *)
OneWritePath ==
    last.pool = PoolIngesterMemory =>
        IF heard[1].response.any
        THEN /\ Len(heard) = 1
             /\ last.drivers = heard[1].response.drivers
             /\ ~last.deduplicated
        ELSE /\ [k \in DOMAIN heard |-> heard[k].query] = <<"classic", "ingest storage">>
             /\ last.drivers = heard[2].response.drivers
             /\ last.deduplicated = heard[2].response.any

(* ReadQueryPath "takes the first driver whose total is non-zero", keeps   *)
(* the first all-zero one when there is none, and is empty only when       *)
(* nothing answered (counters.go:49); time is the driver, and flagged as a *)
(* fallback, only when no fetched volume was measured.                     *)
StrongestDriverWins ==
    last.pool = PoolQueryPath =>
        LET links == {h \in Range(heard) : h.query = "chain"}
            used  == {h \in links : SumFunction(h.response.drivers) > 0}
            zeros == {h \in links : DOMAIN h.response.drivers # {}}
            IsTaken(S) == \E h \in S :
                /\ \A g \in S : h.link <= g.link
                /\ last.metric = QueryPathChain[h.link]
                /\ last.drivers = h.response.drivers
        IN  /\ CASE used # {} -> IsTaken(used)
                 [] used = {} /\ zeros # {} -> IsTaken(zeros)
                 [] OTHER -> last.drivers = <<>> /\ Cardinality(links) = Len(QueryPathChain)
            /\ last.fallback <=> last.metric = QueryPathChain[Seconds]

================================================================================
