------------------------------- MODULE TenantRun -------------------------------
(***************************************************************************)
(* loadgen's runTenant from the moment a tenant starts: its rules are      *)
(* pushed (RulerReplace), and only when the ruler has taken them does the  *)
(* write loop send its ticks (PushAll), the first one at once.  Both parts *)
(* live under one context, which the stop time or a signal ends.           *)
(*                                                                         *)
(* LoadProfile says what the rules are and what the ticks carry.           *)
(* The ground truth a tick's outcome goes into is TruthStore's.            *)
(***************************************************************************)
EXTENDS PushAll, LoadProfile

CONSTANTS
    Profile,        \* the tenant's part of the profile
    BatchSize,      \* samples per request
    Groups, Stale, MaxLate, \* see RulerReplace
    MaxTicks        \* bound: ticks the write loop makes

VARIABLES
    namespace, late, next, phase, taken,    \* RulerReplace's
    tick,       \* ticks finished
    silent      \* the write loop has returned

Rules == INSTANCE RulerReplace

pushVars  == <<pc, attempt, err, sem, returned, totals, stored>>
rulesVars == <<namespace, late, next, phase, taken>>
loopVars  == <<tick, silent>>
tenantVars == <<pushVars, rulesVars, loopVars, ctxDone>>

ASSUME TenantAssumption == Rules!GroupsAssumption /\ MaxTicks \in Nat \ {0}

(* LoadProfile only returns what it has validated.  The groups to push and *)
(* the batches of a tick are those of the profile.  Nothing validates      *)
(* --batch: with 0 pushAll's loop over the slices would never end.         *)
ASSUME ProfileAssumption ==
    /\ ValidTenant(Profile) /\ BatchSize \in Nat \ {0}
    /\ Groups = DOMAIN GenerateRules(Profile)
    /\ LET slices == Slices(Live(Profile), BatchSize)
       IN  Batches = DOMAIN slices /\ SizeOf = [b \in Batches |-> Cardinality(slices[b])]

TenantInit ==
    /\ Rules!Init /\ Init
    /\ tick = 0 /\ silent = FALSE

ReplaceRules == Rules!Client /\ UNCHANGED <<pushVars, loopVars>>

RulerCatchesUp ==
    /\ \E r \in Rules!Requests : Rules!Arrives(r)
    /\ UNCHANGED <<pushVars, loopVars>>

(* pushAll, called by writeLoop.                                           *)
PushBatch(b) ==
    /\ phase = "pushed" /\ Batch(b)
    /\ UNCHANGED <<rulesVars, loopVars>>

PushReturns ==
    /\ phase = "pushed" /\ Return
    /\ UNCHANGED <<rulesVars, loopVars>>

(* case now = <-ticker.C, which select may choose with the context done.   *)
NextTick ==
    /\ returned /\ ~silent /\ tick + 1 < MaxTicks
    /\ tick' = tick + 1
    /\ pc' = [b \in Batches |-> "not started"]
    /\ attempt' = [b \in Batches |-> 0]
    /\ err' = [b \in Batches |-> ""]
    /\ sem' = 0 /\ returned' = FALSE /\ stored' = {}
    /\ totals' = [sent |-> 0, failed |-> 0, reqFailed |-> 0, firstErr |-> FALSE]
    /\ UNCHANGED <<rulesVars, silent, ctxDone>>

(* case <-ctx.Done()                                                       *)
StopWriting ==
    /\ returned /\ ~silent /\ ctxDone
    /\ tick' = tick + 1
    /\ silent' = TRUE
    /\ UNCHANGED <<pushVars, rulesVars, ctxDone>>

(* The stop time, or a signal.                                             *)
ContextEnds ==
    /\ ~ctxDone
    /\ ctxDone' = TRUE
    /\ UNCHANGED <<pushVars, rulesVars, loopVars>>

TenantNext ==
    \/ ReplaceRules \/ RulerCatchesUp
    \/ \E b \in Batches : PushBatch(b)
    \/ PushReturns \/ NextTick \/ StopWriting
    \/ ContextEnds

(* Every request and every pause ends with its context or its timeout, and *)
(* with the context done select sooner or later chooses that case.         *)
TenantSpec ==
    /\ TenantInit /\ [][TenantNext]_tenantVars
    /\ WF_tenantVars(ReplaceRules)
    /\ \A b \in Batches : WF_tenantVars(PushBatch(b))
    /\ WF_tenantVars(PushReturns) /\ WF_tenantVars(StopWriting)

--------------------------------------------------------------------------------
(* Properties.                                                             *)

(* Type invariant.                                                         *)
TenantTypeOK ==
    /\ TypeOK /\ Rules!TypeOK
    /\ tick \in 0..MaxTicks
    /\ silent => returned

(* "RulesPushedAt is when the ruler accepted this tenant's rules"          *)
(* (truth.go:45), and writing starts only then: every group was accepted   *)
(* after the delete of the same attempt, not counting on what a failed one *)
(* left, before the first sample leaves.                                   *)
RulesBeforeSamples ==
    (phase = "pushed" \/ \E b \in Batches : pc[b] # "not started") => taken = Groups

(* replace "deletes the tenant's namespace (so groups a previous profile   *)
(* pushed do not linger)" (rules.go:184): from the recorded push on no     *)
(* other profile's group is in the namespace, however many attempts failed *)
(* half way and whatever of them the ruler applies late.                   *)
NoStaleGroups == phase = "pushed" => namespace \subseteq Groups

(* What pushAll reports adds up, in any order of completion: every sample  *)
(* is counted once, as sent or as failed, a retried batch no more than     *)
(* once, and an error is reported exactly when a batch failed.             *)
EverySampleCountedOnce ==
    /\ totals.sent = SizeOfAll(Succeeded)
    /\ totals.failed = SizeOfAll(Added \ Succeeded)
    /\ totals.reqFailed = Cardinality(Added \ Succeeded)
    /\ totals.firstErr <=> totals.reqFailed > 0
    /\ returned => totals.sent + totals.failed = Live(Profile)

(* The ground truth never claims more than Mimir has: whatever responses   *)
(* were lost and requests repeated, a batch counted as sent is stored.     *)
SentIsStored == Succeeded \subseteq stored

(* The series of the batches Mimir has.                                    *)
Stored == UNION {{BuildSeries(Profile)[i] : i \in Slices(Live(Profile), BatchSize)[b]} : b \in stored}

(* "Every record: name is unique, so promcost --rule-outputs ... can be    *)
(* checked rule by rule" (rules.go:27): the rules of the groups the ruler  *)
(* holds write, of the series this tick stored, no more than RuleTruth     *)
(* says each record: name has, and exactly that once every sample and      *)
(* every group is there; no two rules share a name, in any two groups.     *)
RulesWriteWhatIsRecorded ==
    phase = "pushed" =>
        LET truth  == RuleTruth(Profile)
            active == [g \in namespace |-> GenerateRules(Profile)[g].recording]
            n(r)   == Cardinality(Writes(r, Stored))
        IN  /\ \A g \in namespace : \A r \in active[g] : n(r) <= truth.recordSeries[r.record]
            /\ \A g, h \in namespace : g # h => {r.record : r \in active[g]} \cap {r.record : r \in active[h]} = {}
            /\ namespace = Groups /\ stored = Batches =>
                    LET all == UNION {active[g] : g \in Groups}
                    IN  /\ Cardinality(all) = truth.recording
                        /\ \A r \in all : n(r) = truth.recordSeries[r.record]
                        /\ SumFunction([r \in all |-> n(r)]) = truth.recordSeriesTotal

(* A tenant that has to stop does, and a tick that was begun ends: neither *)
(* a ruler that keeps refusing nor Mimir away holds it up.                 *)
StopsWhenTold == ctxDone ~> phase = "given up" \/ silent
TicksEnd == phase = "pushed" ~> returned
================================================================================
