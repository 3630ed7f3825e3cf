---------------------------- MODULE RuleOutputCount ----------------------------
(***************************************************************************)
(* ruleoutput.Count: one goroutine per chunk of metric names, at most      *)
(* Concurrency queries in flight, all of them sharing one result map under *)
(* a mutex, a context that may be cancelled at any point, and a WaitGroup  *)
(* the caller waits on.                                                    *)
(*                                                                         *)
(* A job is one chunk of one tenant's deduplicated names; RuleOutputChunk  *)
(* models how the names are cut into chunks and why the chunks partition   *)
(* them, which is what JobsPartition asks of the constants here.  A sample *)
(* value is abstracted to a member of SeriesCounts.  Entries of the result *)
(* map are merged under the mutex, so a goroutine's merge loop is one step.*)
(***************************************************************************)
EXTENDS Naturals, FiniteSets

CONSTANTS
    Jobs,           \* the chunks, one goroutine each
    Pairs,          \* the requested (tenant, metric) pairs
    PairsOf,        \* [Jobs -> SUBSET Pairs], the pairs of a chunk
    Concurrency,    \* capacity of the semaphore channel
    SeriesCounts    \* values a query may return for a metric that has series

ASSUME CountAssumption ==
    /\ IsFiniteSet(Jobs)
    /\ PairsOf \in [Jobs -> SUBSET Pairs]
    /\ Concurrency \in Nat \ {0}
    /\ SeriesCounts \subseteq Nat \ {0}

(* Every requested pair is in exactly one chunk.                           *)
ASSUME JobsPartition ==
    /\ \A p \in Pairs : \E j \in Jobs : p \in PairsOf[j]
    /\ \A i, j \in Jobs : i # j => PairsOf[i] \cap PairsOf[j] = {}

VARIABLES
    tenants,    \* Counts.Tenants: the result of every pair written so far
    pc,         \* where each chunk's goroutine is
    res,        \* countChunk's result, local to each goroutine
    sem,        \* tokens in the semaphore channel
    wg,         \* the WaitGroup's counter
    cancelled,  \* ctx is done
    main,       \* the calling goroutine
    answer      \* observed: what Mimir answered each chunk's query

vars == <<tenants, pc, res, sem, wg, cancelled, main, answer>>

Missing   == [err |-> "missing", series |-> 0]   \* no entry in the map
Series(n) == [err |-> "", series |-> n]
Err(why)  == [err |-> why, series |-> 0]

Reasons  == {"cancelled", "query failed", "not a finite count"}
Measured == {Series(n) : n \in SeriesCounts \cup {0}}
Results  == Measured \cup {Err(why) : why \in Reasons}

(* What one query can bring back: an error, or for every asked name no     *)
(* sample, a sample that is not a finite non-negative number, or a count.  *)
(* ("sum" stands for the samples of one name, which countChunk adds up.)   *)
NoSample  == [sample |-> "none", sum |-> 0]
BadSample == [sample |-> "bad", sum |-> 0]
Samples   == {NoSample, BadSample} \cup {[sample |-> "ok", sum |-> n] : n \in SeriesCounts}

NotAsked    == [status |-> "not asked", samples |-> <<>>]
Failed      == [status |-> "failed", samples |-> <<>>]
Answered(s) == [status |-> "answered", samples |-> s]

Init ==
    /\ tenants = [p \in Pairs |-> Missing]
    /\ pc = [j \in Jobs |-> "not started"]
    /\ res = [j \in Jobs |-> <<>>]
    /\ sem = 0
    /\ wg = 0
    /\ cancelled = FALSE
    /\ main = "spawning"
    /\ answer = [j \in Jobs |-> NotAsked]

--------------------------------------------------------------------------------
(* The calling goroutine.                                                  *)

(* Mutant: the goroutine is started without wg.Add(1).                     *)
Spawn_NoAdd(j) ==
    /\ main = "spawning" /\ pc[j] = "not started"
    /\ pc' = [pc EXCEPT ![j] = "select"]
    /\ UNCHANGED <<tenants, res, sem, wg, cancelled, main, answer>>

(* wg.Add(1); go func() {...}                                              *)
Spawn(j) ==
    /\ main = "spawning"
    /\ pc[j] = "not started"
    /\ pc' = [pc EXCEPT ![j] = "select"]
    /\ wg' = wg + 1
    /\ UNCHANGED <<tenants, res, sem, cancelled, main, answer>>

AllSpawned ==
    /\ main = "spawning"
    /\ \A j \in Jobs : pc[j] # "not started"
    /\ main' = "waiting"
    /\ UNCHANGED <<tenants, pc, res, sem, wg, cancelled, answer>>

(* Mutant: the caller does not wait.                                       *)
Return_NoWait ==
    /\ main = "waiting"
    /\ main' = "returned"
    /\ UNCHANGED <<tenants, pc, res, sem, wg, cancelled, answer>>

(* wg.Wait() returns and the map is handed to the caller, who reads it     *)
(* without the mutex.                                                      *)
Return ==
    /\ main = "waiting"
    /\ wg = 0
    /\ main' = "returned"
    /\ UNCHANGED <<tenants, pc, res, sem, wg, cancelled, answer>>

(* The process is interrupted: ctx is the command's signal context.        *)
Cancel ==
    /\ ~cancelled
    /\ main # "returned"
    /\ cancelled' = TRUE
    /\ UNCHANGED <<tenants, pc, res, sem, wg, main, answer>>

--------------------------------------------------------------------------------
(* The goroutine of job j.                                                 *)

(* Mutant: a channel without capacity limit.                               *)
AcquireSlot_Unbounded(j) ==
    /\ pc[j] = "select"
    /\ sem' = sem + 1
    /\ pc' = [pc EXCEPT ![j] = "querying"]
    /\ UNCHANGED <<tenants, res, wg, cancelled, main, answer>>

(* select: the send on the semaphore; when ctx is done as well the runtime *)
(* picks either branch.                                                    *)
AcquireSlot(j) ==
    /\ pc[j] = "select"
    /\ sem < Concurrency
    /\ sem' = sem + 1
    /\ pc' = [pc EXCEPT ![j] = "querying"]
    /\ UNCHANGED <<tenants, res, wg, cancelled, main, answer>>

(* Mutants: a cancelled goroutine just returns, or marks every name of the *)
(* run instead of its chunk's.                                             *)
GiveUp_Silently(j) ==
    /\ pc[j] = "select" /\ cancelled
    /\ pc' = [pc EXCEPT ![j] = "unwinding"]
    /\ UNCHANGED <<tenants, res, sem, wg, cancelled, main, answer>>

GiveUp_ForAll(j) ==
    /\ pc[j] = "select" /\ cancelled
    /\ tenants' = [p \in Pairs |-> Err("cancelled")]
    /\ pc' = [pc EXCEPT ![j] = "unwinding"]
    /\ UNCHANGED <<res, sem, wg, cancelled, main, answer>>

(* select: <-ctx.Done(), then every name of the chunk is marked.           *)
GiveUp(j) ==
    /\ pc[j] = "select"
    /\ cancelled
    /\ tenants' = [p \in Pairs |-> IF p \in PairsOf[j] THEN Err("cancelled") ELSE tenants[p]]
    /\ pc' = [pc EXCEPT ![j] = "unwinding"]
    /\ UNCHANGED <<res, sem, wg, cancelled, main, answer>>

(* countChunk's reading of the samples: absent is a measured zero.         *)
CountOf(s) ==
    CASE s.sample = "bad"  -> Err("not a finite count")
      [] s.sample = "none" -> Series(0)
      [] s.sample = "ok"   -> Series(s.sum)

QueryFails(j) ==
    /\ pc[j] = "querying"
    /\ answer' = [answer EXCEPT ![j] = Failed]
    /\ res' = [res EXCEPT ![j] = [p \in PairsOf[j] |-> Err("query failed")]]
    /\ pc' = [pc EXCEPT ![j] = "merging"]
    /\ UNCHANGED <<tenants, sem, wg, cancelled, main>>

QueryAnswers(j) ==
    /\ pc[j] = "querying"
    /\ \E samples \in [PairsOf[j] -> Samples] :
        /\ answer' = [answer EXCEPT ![j] = Answered(samples)]
        /\ res' = [res EXCEPT ![j] = [p \in PairsOf[j] |-> CountOf(samples[p])]]
    /\ pc' = [pc EXCEPT ![j] = "merging"]
    /\ UNCHANGED <<tenants, sem, wg, cancelled, main>>

(* Mutant: the chunk's results replace the map.                            *)
Merge_Replaces(j) ==
    /\ pc[j] = "merging"
    /\ tenants' = [p \in Pairs |-> IF p \in PairsOf[j] THEN res[j][p] ELSE Missing]
    /\ pc' = [pc EXCEPT ![j] = "releasing"]
    /\ UNCHANGED <<res, sem, wg, cancelled, main, answer>>

(* mu.Lock(); out.Tenants[t][n] = c for every name; mu.Unlock()            *)
Merge(j) ==
    /\ pc[j] = "merging"
    /\ tenants' = [p \in Pairs |-> IF p \in PairsOf[j] THEN res[j][p] ELSE tenants[p]]
    /\ pc' = [pc EXCEPT ![j] = "releasing"]
    /\ UNCHANGED <<res, sem, wg, cancelled, main, answer>>

(* Mutant: the slot is given back only after a query that worked.          *)
ReleaseSlot_OnSuccess(j) ==
    /\ pc[j] = "releasing"
    /\ sem' = IF answer[j].status = "answered" THEN sem - 1 ELSE sem
    /\ pc' = [pc EXCEPT ![j] = "unwinding"]
    /\ UNCHANGED <<tenants, res, wg, cancelled, main, answer>>

(* Deferred calls run last in first out: the slot is given back first ...  *)
ReleaseSlot(j) ==
    /\ pc[j] = "releasing"
    /\ sem' = sem - 1
    /\ pc' = [pc EXCEPT ![j] = "unwinding"]
    /\ UNCHANGED <<tenants, res, wg, cancelled, main, answer>>

(* ... and wg.Done() comes last.                                           *)
Finish(j) ==
    /\ pc[j] = "unwinding"
    /\ wg' = wg - 1
    /\ pc' = [pc EXCEPT ![j] = "finished"]
    /\ UNCHANGED <<tenants, res, sem, cancelled, main, answer>>

Goroutine(j) ==
    \/ AcquireSlot(j) \/ GiveUp(j)
    \/ QueryFails(j) \/ QueryAnswers(j)
    \/ Merge(j) \/ ReleaseSlot(j) \/ Finish(j)

Next ==
    \/ \E j \in Jobs : Spawn(j) \/ Goroutine(j)
    \/ AllSpawned \/ Return \/ Cancel

(* The Go scheduler runs every runnable goroutine, and promapi's client    *)
(* timeout ends every query: both give weak fairness.  Nothing forces the  *)
(* context to be cancelled.  A send that stays possible is not starved,    *)
(* because a blocked sender keeps its place in the channel's queue: the    *)
(* number of jobs is finite, so weak fairness is all that needs.           *)
Spec ==
    /\ Init /\ [][Next]_vars
    /\ \A j \in Jobs : WF_vars(Spawn(j)) /\ WF_vars(Goroutine(j))
    /\ WF_vars(AllSpawned) /\ WF_vars(Return)

--------------------------------------------------------------------------------
(* Properties.                                                             *)

PCs == {"not started", "select", "querying", "merging", "releasing", "unwinding", "finished"}

(* Type invariant.                                                         *)
TypeOK ==
    /\ tenants \in [Pairs -> Results \cup {Missing}]
    /\ pc \in [Jobs -> PCs]
    /\ DOMAIN res = Jobs /\ DOMAIN answer = Jobs
    /\ \A j \in Jobs : pc[j] = "merging" => \A p \in PairsOf[j] : res[j][p] \in Results
    /\ sem \in Nat
    /\ wg \in Nat
    /\ cancelled \in BOOLEAN
    /\ main \in {"spawning", "waiting", "returned"}

Holding == {j \in Jobs : pc[j] \in {"querying", "merging", "releasing"}}
Running == {j \in Jobs : pc[j] \notin {"not started", "finished"}}

(* "Queries run with at most Concurrency in flight" (count.go:76): however *)
(* the goroutines interleave, and however many give up, the number of      *)
(* goroutines between acquiring a slot and giving it back is the number of *)
(* tokens in the channel and never exceeds its capacity.                   *)
BoundedInFlight ==
    /\ Cardinality(Holding) = sem
    /\ sem <= Concurrency

(* "Every requested (tenant, metric) pair is present, measured or not"     *)
(* (count.go:62): when Count returns no pair is missing, whichever chunks  *)
(* failed or were never asked because the context was done.                *)
EveryPairPresent == main = "returned" => \A p \in Pairs : tenants[p] # Missing

(* The caller reads the map without the mutex, so once Count has returned  *)
(* no goroutine may still write to it.                                     *)
NoLateWrite == [][main = "returned" => tenants' = tenants]_vars

(* "A failed query marks every name in its chunk not measured ...; the     *)
(* other chunks are unaffected" (count.go:79): each entry of the map is    *)
(* exactly what its own chunk's query said, a cancelled one only where the *)
(* query was never issued, and an absent sample is a measured zero.        *)
ChunkIsolation ==
    \A j \in Jobs : \A p \in PairsOf[j] : tenants[p] # Missing =>
        /\ answer[j].status = "not asked" => cancelled /\ tenants[p] = Err("cancelled")
        /\ answer[j].status = "failed"    => tenants[p] = Err("query failed")
        /\ answer[j].status = "answered"  => tenants[p] = CountOf(answer[j].samples[p])

(* Count always returns, cancelled or not, once the launched queries end:  *)
(* a slot is given back on every path, so no goroutine waits forever.      *)
Terminates == <>(main = "returned")

--------------------------------------------------------------------------------
(* What Count promises its caller, see RuleOutputCountAbs.                 *)
Promise == INSTANCE RuleOutputCountAbs WITH
    entries <- tenants, handed <- (main = "returned")

ImplementsPromise == Promise!Spec

================================================================================
