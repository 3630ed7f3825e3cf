-------------------------------- MODULE CostRun --------------------------------
(***************************************************************************)
(* cli.runCost: one run of the cost command.  It settles everything that   *)
(* can be wrong with the request before the first query, reads the         *)
(* selected pools one after another through one Source (MimirDrivers),     *)
(* allocates and totals them (CostModel), and with --rule-outputs goes on  *)
(* to load the rules and count their output series.                        *)
(***************************************************************************)
EXTENDS MimirDrivers

CONSTANTS
    Requests,   \* what the operator may have asked, see MCCostRun
    Inventories,
    Expected    \* --tenant

ASSUME RunAssumption ==
    \A r \in Requests : r.pools \subseteq KnownPools /\ r.window \in Windows

VARIABLES
    request, inv,
    main,           \* where runCost is
    todo,           \* pools still to be read, in PoolOrder
    measurements,   \* []cost.Measurement so far
    report,         \* the allocated report
    counted         \* --rule-outputs: the recording rules were counted

runVars == <<request, inv, main, todo, measurements, report, counted>>
allVars == <<sourceVars, runVars>>

(* selectPools: the loop over PoolOrder appends the selected pools,        *)
(* whatever order was typed; an empty --pool selects them all.             *)
IfSelected(r, id) == IF r.pools = {} \/ id \in r.pools THEN <<id>> ELSE <<>>

SelectPools(r) ==
    IfSelected(r, PoolOrder[1]) \o IfSelected(r, PoolOrder[2]) \o IfSelected(r, PoolOrder[3])

(* r.sound stands for the checks that concern nothing modelled here        *)
(* (--since, --format, the config file, the metrics tenant, the selector,  *)
(* the credentials); r.definitions says where the rules would come from.   *)
Acceptable(r, i) ==
    /\ r.sound
    /\ Validate(i)
    /\ r.definitions = "dir" => r.ruleOutputs
    /\ r.ruleOutputs => /\ r.definitions # "none"
                        /\ r.concurrency >= 1
                        /\ PoolIngesterMemory \in Range(SelectPools(r))

RunInit ==
    /\ Init
    /\ request \in Requests /\ inv \in Inventories
    /\ operatorMode = inv.ruleEvaluation
    /\ main = "checking" /\ todo = <<>> /\ measurements = <<>>
    /\ report = None /\ counted = FALSE

Refuse ==
    /\ main = "checking" /\ ~Acceptable(request, inv)
    /\ main' = "failed"
    /\ UNCHANGED <<sourceVars, request, inv, todo, measurements, report, counted>>

(* warnIfSeveralClusters asks only without a selector, prints a warning    *)
(* and never fails.                                                        *)
Accept ==
    /\ main = "checking" /\ Acceptable(request, inv)
    /\ main' = "reading"
    /\ todo' = SelectPools(request)
    /\ UNCHANGED <<sourceVars, request, inv, measurements, report, counted>>

StartRead ==
    /\ main = "reading" /\ todo # <<>> /\ last.pool = None
    /\ Begin(Head(todo), request.window)
    /\ UNCHANGED <<request, inv, main, todo, measurements, report, counted>>

ReadGoesOn ==
    /\ main = "reading"
    /\ Answered
    /\ UNCHANGED runVars

(* Mutant: a pool that cannot be read is skipped.                          *)
ReadFails_Skips ==
    /\ main = "reading"
    /\ Fail
    /\ todo' = Tail(todo)
    /\ UNCHANGED <<request, inv, main, measurements, report, counted>>

(* return fmt.Errorf("pool %s: %w", id, err)                               *)
ReadFails ==
    /\ main = "reading"
    /\ Fail
    /\ main' = "failed"
    /\ UNCHANGED <<request, inv, todo, measurements, report, counted>>

Collect ==
    /\ main = "reading" /\ last.pool # None
    /\ measurements' = Append(measurements, last)
    /\ todo' = Tail(todo)
    /\ last' = Nothing /\ heard' = <<>>
    /\ UNCHANGED <<call, m, mode, evalModes, operatorMode, request, inv, main, report, counted>>

(* AllocateAll takes the slice; its order is that of the pools read.       *)
ByPool(list) ==
    [id \in {x.pool : x \in Range(list)} |-> CHOOSE x \in Range(list) : x.pool = id]

AllocatePools ==
    /\ main = "reading" /\ todo = <<>>
    /\ report' = AllocateAll(ByPool(measurements), inv, Expected)
    /\ main' = IF request.ruleOutputs THEN "loading rules" ELSE "rendered"
    /\ UNCHANGED <<sourceVars, request, inv, todo, measurements, counted>>

(* measureRuleOutputs: rules that cannot be loaded are fatal, counts that  *)
(* cannot be made are not (see RuleOutputCount).                           *)
LoadFails ==
    /\ main = "loading rules"
    /\ main' = "failed"
    /\ UNCHANGED <<sourceVars, request, inv, todo, measurements, report, counted>>

CountOutputs ==
    /\ main = "loading rules"
    /\ counted' = TRUE
    /\ main' = "rendered"
    /\ UNCHANGED <<sourceVars, request, inv, todo, measurements, report>>

RunNext ==
    \/ Refuse \/ Accept \/ StartRead \/ ReadGoesOn \/ ReadFails \/ Collect
    \/ AllocatePools \/ LoadFails \/ CountOutputs

RunSpec == RunInit /\ [][RunNext]_allVars

--------------------------------------------------------------------------------
(* Properties.                                                             *)

Rendered == main = "rendered"

(* A report holds exactly the selected pools, each as its own read         *)
(* measured it: a failed read, also of the last pool, leaves no report in  *)
(* which an unread pool looks like one without data, and rule outputs are  *)
(* counted only in a run that has pool 1's active series to divide by.     *)
AllSelectedPoolsOrNone ==
    /\ Rendered => /\ DOMAIN report.pools = Range(SelectPools(request))
                   /\ report.notRead = KnownPools \ Range(SelectPools(request))
                   /\ Len(measurements) = Cardinality(DOMAIN report.pools)
                   /\ \A id \in DOMAIN report.pools : \E x \in Range(measurements) :
                        x.pool = id /\ report.pools[id] = Allocate(x, inv, Expected)
    /\ counted => PoolIngesterMemory \in DOMAIN report.pools
    /\ (\E id \in Range(todo) : main \in {"failed", "rendered"}) => report = None

(* In one report the query path and the ruler always say the same about    *)
(* where rule queries ran, an operator's statement wins over the           *)
(* inference, and a total over both under remote evaluation carries its    *)
(* warning.                                                                *)
ReportAgreesOnRuleWork ==
    report # None =>
        LET ruler == {a \in Range(report.pools) : a.pool # PoolIngesterMemory}
        IN  /\ \A a, b \in ruler : a.ruleEvaluation = b.ruleEvaluation
            /\ inv.ruleEvaluation # "" => \A a \in ruler : a.ruleEvaluation = inv.ruleEvaluation
            /\ ({PoolQueryPath, PoolRulerCPU} \subseteq report.cross.priced
                /\ \E a \in ruler : a.ruleEvaluation = "remote")
                => "weighs rule queries twice" \in report.cross.notes
================================================================================
