------------------------- MODULE RuleOutputCount_proofs ------------------------
(***************************************************************************)
(* Theorems about ruleoutput.Count for any number of chunks, any pairs and *)
(* any concurrency.  The inductive invariant IInv is the conjunction of    *)
(* the type invariant, the accounting of semaphore and WaitGroup as        *)
(* cardinalities, what the calling goroutine may conclude from each, and   *)
(* what a goroutine's place says about its chunk's entries.                *)
(***************************************************************************)
EXTENDS RuleOutputCount, FiniteSetTheorems, TLAPS

(* The semaphore counts the goroutines holding a slot, the WaitGroup those *)
(* between Add and Done.                                                   *)
SlotsCounted == Cardinality(Holding) = sem /\ sem <= Concurrency
WaitCounted  == Cardinality(Running) = wg

(* What the calling goroutine knows.                                       *)
MainKnows ==
    /\ main # "spawning" => \A j \in Jobs : pc[j] # "not started"
    /\ main = "returned" => \A j \in Jobs : pc[j] = "finished"

(* Before a goroutine writes, none of its entries is there; afterwards     *)
(* every one is.                                                           *)
Before == {"not started", "select", "querying", "merging"}
After  == {"releasing", "unwinding", "finished"}
EntriesFollow ==
    \A j \in Jobs : \A p \in PairsOf[j] :
        (tenants[p] = Missing) <=> (pc[j] \in Before)

IInv == TypeOK /\ SlotsCounted /\ WaitCounted /\ MainKnows /\ EntriesFollow

--------------------------------------------------------------------------------
(* Facts about the values.                                                 *)

(* No result a goroutine may write is the missing entry.                   *)
LEMMA ResultsNotMissing == Missing \notin Results
BY DEF Missing, Results, Measured, Reasons, Series, Err

(* Whatever the query brought back for a name is a result.                 *)
LEMMA CountOfIsResult == \A s \in Samples : CountOf(s) \in Results
<1>1. \A n \in SeriesCounts : n \in Nat
  BY CountAssumption
<1>2. SUFFICES ASSUME NEW s \in Samples PROVE CountOf(s) \in Results
  OBVIOUS
<1>3. CASE s = NoSample
  BY <1>3 DEF CountOf, NoSample, Results, Measured
<1>4. CASE s = BadSample
  BY <1>4 DEF CountOf, BadSample, Results, Reasons
<1>5. CASE \E n \in SeriesCounts : s = [sample |-> "ok", sum |-> n]
  BY <1>5 DEF CountOf, Results, Measured
<1>6. QED
  BY <1>3, <1>4, <1>5 DEF Samples

(* Holding and Running are finite.                                         *)
LEMMA FiniteCounted == IsFiniteSet(Holding) /\ IsFiniteSet(Running)
BY CountAssumption, FS_Subset DEF Holding, Running

--------------------------------------------------------------------------------
(* Each part of the invariant is preserved by every step.                  *)

(* AcquireSlot puts a goroutine into Holding as it puts a token into the   *)
(* channel, ReleaseSlot takes both out; no other step touches either.      *)
LEMMA SlotsStep == IInv /\ [Next]_vars => SlotsCounted'
<1> SUFFICES ASSUME IInv, [Next]_vars PROVE SlotsCounted'
  OBVIOUS
<1> USE DEF IInv, TypeOK, SlotsCounted
<1>1. CASE \E j \in Jobs : AcquireSlot(j)
  <2>1. PICK j \in Jobs : AcquireSlot(j)
    BY <1>1
  <2>2. Holding' = Holding \cup {j} /\ j \notin Holding
    BY <2>1 DEF AcquireSlot, Holding, PCs
  <2>3. Cardinality(Holding') = Cardinality(Holding) + 1
    BY <2>2, FiniteCounted, FS_AddElement
  <2>4. sem' = sem + 1 /\ sem < Concurrency
    BY <2>1 DEF AcquireSlot
  <2>5. QED
    BY <2>3, <2>4, CountAssumption
<1>2. CASE \E j \in Jobs : ReleaseSlot(j)
  <2>1. PICK j \in Jobs : ReleaseSlot(j)
    BY <1>2
  <2>2. Holding' = Holding \ {j} /\ j \in Holding
    BY <2>1 DEF ReleaseSlot, Holding, PCs
  <2>3. Cardinality(Holding') = Cardinality(Holding) - 1
    BY <2>2, FiniteCounted, FS_RemoveElement
  <2>4. sem' = sem - 1
    BY <2>1 DEF ReleaseSlot
  <2>5. QED
    BY <2>3, <2>4, CountAssumption
<1>3. CASE \E j \in Jobs : \/ Spawn(j) \/ GiveUp(j) \/ QueryFails(j) \/ QueryAnswers(j)
                          \/ Merge(j) \/ Finish(j)
  <2>1. Holding' = Holding
    BY <1>3 DEF Spawn, GiveUp, QueryFails, QueryAnswers, Merge, Finish, Holding, PCs
  <2>2. sem' = sem
    BY <1>3 DEF Spawn, GiveUp, QueryFails, QueryAnswers, Merge, Finish
  <2>3. QED
    BY <2>1, <2>2
<1>4. CASE AllSpawned \/ Return \/ Cancel \/ UNCHANGED vars
  BY <1>4 DEF AllSpawned, Return, Cancel, vars, Holding
<1>5. QED
  BY <1>1, <1>2, <1>3, <1>4 DEF Next, Goroutine

(* Spawn and Finish do the same for Running and the WaitGroup.             *)
LEMMA WaitStep == IInv /\ [Next]_vars => WaitCounted'
<1> SUFFICES ASSUME IInv, [Next]_vars PROVE WaitCounted'
  OBVIOUS
<1> USE DEF IInv, TypeOK, WaitCounted
<1>1. CASE \E j \in Jobs : Spawn(j)
  <2>1. PICK j \in Jobs : Spawn(j)
    BY <1>1
  <2>2. Running' = Running \cup {j} /\ j \notin Running
    BY <2>1 DEF Spawn, Running, PCs
  <2>3. Cardinality(Running') = Cardinality(Running) + 1
    BY <2>2, FiniteCounted, FS_AddElement
  <2>4. QED
    BY <2>1, <2>3 DEF Spawn
<1>2. CASE \E j \in Jobs : Finish(j)
  <2>1. PICK j \in Jobs : Finish(j)
    BY <1>2
  <2>2. Running' = Running \ {j} /\ j \in Running
    BY <2>1 DEF Finish, Running, PCs
  <2>3. Cardinality(Running') = Cardinality(Running) - 1
    BY <2>2, FiniteCounted, FS_RemoveElement
  <2>4. QED
    BY <2>1, <2>3 DEF Finish
<1>3. CASE \E j \in Jobs : \/ AcquireSlot(j) \/ GiveUp(j) \/ QueryFails(j) \/ QueryAnswers(j)
                          \/ Merge(j) \/ ReleaseSlot(j)
  <2>1. Running' = Running
    BY <1>3 DEF AcquireSlot, GiveUp, QueryFails, QueryAnswers, Merge, ReleaseSlot, Running, PCs
  <2>2. wg' = wg
    BY <1>3 DEF AcquireSlot, GiveUp, QueryFails, QueryAnswers, Merge, ReleaseSlot
  <2>3. QED
    BY <2>1, <2>2
<1>4. CASE AllSpawned \/ Return \/ Cancel \/ UNCHANGED vars
  BY <1>4 DEF AllSpawned, Return, Cancel, vars, Running
<1>5. QED
  BY <1>1, <1>2, <1>3, <1>4 DEF Next, Goroutine

(* wg.Wait() returning means that every goroutine finished: none was left  *)
(* unspawned, and an empty Running leaves no other place to be.            *)
LEMMA MainStep == IInv /\ [Next]_vars => MainKnows'
<1> SUFFICES ASSUME IInv, [Next]_vars PROVE MainKnows'
  OBVIOUS
<1> USE DEF IInv, TypeOK, MainKnows
<1>1. CASE Return
  <2>1. Running = {}
    BY <1>1, FiniteCounted, FS_EmptySet DEF Return, WaitCounted
  <2>2. \A j \in Jobs : pc[j] = "finished"
    BY <1>1, <2>1 DEF Return, Running
  <2>3. QED
    BY <1>1, <2>2 DEF Return
<1>2. CASE AllSpawned \/ Cancel \/ UNCHANGED vars
  BY <1>2 DEF AllSpawned, Cancel, vars
<1>3. CASE \E j \in Jobs : Spawn(j)
  BY <1>3 DEF Spawn, PCs
<1>4. CASE \E j \in Jobs : Goroutine(j)
  BY <1>4 DEF Goroutine, AcquireSlot, GiveUp, QueryFails, QueryAnswers, Merge, ReleaseSlot, Finish, PCs
<1>5. QED
  BY <1>1, <1>2, <1>3, <1>4 DEF Next

(* A goroutine fills its own entries and, the chunks being disjoint, no    *)
(* one else's.                                                             *)
LEMMA EntriesStep == IInv /\ [Next]_vars => EntriesFollow'
<1> SUFFICES ASSUME IInv, [Next]_vars PROVE EntriesFollow'
  OBVIOUS
<1> USE DEF IInv, TypeOK, EntriesFollow, Before
<1>1. CASE \E j \in Jobs : GiveUp(j)
  <2>1. PICK j \in Jobs : GiveUp(j)
    BY <1>1
  <2>2. Err("cancelled") # Missing
    BY DEF Err, Missing
  <2>3. QED
    BY <2>1, <2>2, JobsPartition, CountAssumption DEF GiveUp, PCs
<1>2. CASE \E j \in Jobs : Merge(j)
  <2>1. PICK j \in Jobs : Merge(j)
    BY <1>2
  <2>2. \A p \in PairsOf[j] : res[j][p] # Missing
    BY <2>1, ResultsNotMissing DEF Merge
  <2>3. QED
    BY <2>1, <2>2, JobsPartition, CountAssumption DEF Merge, PCs
<1>3. CASE \E j \in Jobs : \/ Spawn(j) \/ AcquireSlot(j) \/ QueryFails(j) \/ QueryAnswers(j)
                          \/ ReleaseSlot(j) \/ Finish(j)
  BY <1>3 DEF Spawn, AcquireSlot, QueryFails, QueryAnswers, ReleaseSlot, Finish, PCs
<1>4. CASE AllSpawned \/ Return \/ Cancel \/ UNCHANGED vars
  BY <1>4 DEF AllSpawned, Return, Cancel, vars
<1>5. QED
  BY <1>1, <1>2, <1>3, <1>4 DEF Next, Goroutine

(* The counters stay natural numbers because they are cardinalities.       *)
LEMMA TypeStep == IInv /\ [Next]_vars => TypeOK'
<1> SUFFICES ASSUME IInv, [Next]_vars PROVE TypeOK'
  OBVIOUS
<1> USE DEF IInv
<1>1. (sem \in Nat /\ wg \in Nat)'
  <2>1. SlotsCounted' /\ WaitCounted'
    BY SlotsStep, WaitStep
  <2>2. IsFiniteSet(Holding') /\ IsFiniteSet(Running')
    BY CountAssumption, FS_Subset DEF Holding, Running
  <2>3. QED
    BY <2>1, <2>2, FS_CardinalityType DEF SlotsCounted, WaitCounted
<1>2. (pc \in [Jobs -> PCs])'
  BY DEF TypeOK, PCs, Next, Goroutine, Spawn, AcquireSlot, GiveUp, QueryFails, QueryAnswers,
         Merge, ReleaseSlot, Finish, AllSpawned, Return, Cancel, vars
<1>3. (cancelled \in BOOLEAN /\ main \in {"spawning", "waiting", "returned"})'
  BY DEF TypeOK, Next, Goroutine, Spawn, AcquireSlot, GiveUp, QueryFails, QueryAnswers,
         Merge, ReleaseSlot, Finish, AllSpawned, Return, Cancel, vars
<1>4. (DOMAIN res = Jobs /\ DOMAIN answer = Jobs)'
  BY DEF TypeOK, Next, Goroutine, Spawn, AcquireSlot, GiveUp, QueryFails, QueryAnswers,
         Merge, ReleaseSlot, Finish, AllSpawned, Return, Cancel, vars
<1>5. (\A j \in Jobs : pc[j] = "merging" => \A p \in PairsOf[j] : res[j][p] \in Results)'
  <2>1. CASE \E j \in Jobs : QueryFails(j)
    <3>1. PICK j \in Jobs : QueryFails(j)
      BY <2>1
    <3>2. \A p \in PairsOf[j] : res'[j][p] \in Results
      <4>1. res'[j] = [p \in PairsOf[j] |-> Err("query failed")]
        BY <3>1 DEF QueryFails, TypeOK
      <4>2. Err("query failed") \in Results
        BY DEF Results, Reasons
      <4>3. QED
        BY <4>1, <4>2
    <3>3. \A i \in Jobs : i # j => res'[i] = res[i] /\ pc'[i] = pc[i]
      BY <3>1 DEF QueryFails, TypeOK
    <3>4. QED
      BY <3>2, <3>3 DEF TypeOK
  <2>2. CASE \E j \in Jobs : QueryAnswers(j)
    <3>1. PICK j \in Jobs : QueryAnswers(j)
      BY <2>2
    <3>2. \A p \in PairsOf[j] : res'[j][p] \in Results
      <4>1. PICK samples \in [PairsOf[j] -> Samples] :
              res' = [res EXCEPT ![j] = [p \in PairsOf[j] |-> CountOf(samples[p])]]
        BY <3>1 DEF QueryAnswers
      <4>2. res'[j] = [p \in PairsOf[j] |-> CountOf(samples[p])]
        BY <4>1 DEF TypeOK
      <4>3. \A p \in PairsOf[j] : samples[p] \in Samples
        OBVIOUS
      <4>4. QED
        BY <4>2, <4>3, CountOfIsResult
    <3>3. \A i \in Jobs : i # j => res'[i] = res[i] /\ pc'[i] = pc[i]
      BY <3>1 DEF QueryAnswers, TypeOK
    <3>4. QED
      BY <3>2, <3>3 DEF TypeOK
  <2>3. QED
    BY <2>1, <2>2 DEF TypeOK, PCs, Next, Goroutine, Spawn, AcquireSlot, GiveUp,
         Merge, ReleaseSlot, Finish, AllSpawned, Return, Cancel, vars
<1>6. (tenants \in [Pairs -> Results \cup {Missing}])'
  <2>1. CASE \E j \in Jobs : GiveUp(j)
    <3>1. Err("cancelled") \in Results
      BY DEF Results, Reasons
    <3>2. QED
      BY <2>1, <3>1 DEF GiveUp, TypeOK
  <2>2. CASE \E j \in Jobs : Merge(j)
    BY <2>2 DEF Merge, TypeOK
  <2>3. QED
    BY <2>1, <2>2 DEF TypeOK, Next, Goroutine, Spawn, AcquireSlot, QueryFails, QueryAnswers,
         ReleaseSlot, Finish, AllSpawned, Return, Cancel, vars
<1>7. QED
  BY <1>1, <1>2, <1>3, <1>4, <1>5, <1>6 DEF TypeOK

--------------------------------------------------------------------------------
(* The invariant holds of every behaviour, from any number of goroutines.  *)
LEMMA InitEstablishes == Init => IInv
<1> SUFFICES ASSUME Init PROVE IInv
  OBVIOUS
<1>1. Holding = {} /\ Running = {}
  BY DEF Init, Holding, Running
<1>2. SlotsCounted /\ WaitCounted
  <2>1. Cardinality(Holding) = 0 /\ Cardinality(Running) = 0
    BY <1>1, FS_EmptySet
  <2>2. 0 <= Concurrency
    BY CountAssumption
  <2>3. QED
    BY <2>1, <2>2 DEF Init, SlotsCounted, WaitCounted
<1>3. TypeOK /\ MainKnows
  BY DEF Init, TypeOK, PCs, MainKnows
<1>4. EntriesFollow
  BY CountAssumption DEF Init, EntriesFollow, Before
<1>5. QED
  BY <1>2, <1>3, <1>4 DEF IInv

LEMMA StepPreserves == IInv /\ [Next]_vars => IInv'
BY SlotsStep, WaitStep, MainStep, EntriesStep, TypeStep DEF IInv

LEMMA Inductive == Spec => []IInv
BY InitEstablishes, StepPreserves, PTL DEF Spec

(* Every variable keeps its type; in particular the WaitGroup's counter    *)
(* never goes negative (count.go:133), which in Go would be a panic.       *)
THEOREM TypeCorrect == Spec => []TypeOK
BY Inductive, PTL DEF IInv

(* However many chunks there are, at most Concurrency of their queries are *)
(* in flight, and the channel holds exactly their tokens (count.go:130).   *)
THEOREM InFlightIsBounded == Spec => []BoundedInFlight
<1>1. IInv => BoundedInFlight
  BY DEF IInv, SlotsCounted, BoundedInFlight
<1>2. QED
  BY <1>1, Inductive, PTL

(* When Count returns, every requested pair has an entry, whichever chunks *)
(* failed or gave up (count.go:62).                                        *)
THEOREM NothingIsMissing == Spec => []EveryPairPresent
<1>1. IInv => EveryPairPresent
  <2> SUFFICES ASSUME IInv, main = "returned", NEW p \in Pairs PROVE tenants[p] # Missing
    BY DEF EveryPairPresent
  <2>1. PICK j \in Jobs : p \in PairsOf[j]
    BY JobsPartition
  <2>2. pc[j] = "finished"
    BY DEF IInv, MainKnows
  <2>3. QED
    BY <2>1, <2>2 DEF IInv, EntriesFollow, Before
<1>2. QED
  BY <1>1, Inductive, PTL

(* The caller reads the map without the mutex: no goroutine is left to     *)
(* write to it (count.go:156).                                             *)
THEOREM ResultIsFinal == Spec => NoLateWrite
<1>1. IInv /\ [Next]_vars => [main = "returned" => tenants' = tenants]_vars
  <2> SUFFICES ASSUME IInv, [Next]_vars, main = "returned" PROVE tenants' = tenants
    OBVIOUS
  <2>1. \A j \in Jobs : pc[j] = "finished"
    BY DEF IInv, MainKnows
  <2>2. QED
    BY <2>1 DEF Next, Goroutine, Spawn, AcquireSlot, GiveUp, QueryFails, QueryAnswers,
         Merge, ReleaseSlot, Finish, AllSpawned, Return, Cancel, vars
<1>2. QED
  BY <1>1, Inductive, PTL DEF Spec, NoLateWrite

--------------------------------------------------------------------------------
(* Each entry is what its own chunk's query said: the ghost variable       *)
(* answer is followed from the query through res to the map.               *)
Says(a, p, c) ==
    /\ a.status = "not asked" => c = Err("cancelled")
    /\ a.status = "failed"    => c = Err("query failed")
    /\ a.status = "answered"  => c = CountOf(a.samples[p])

AnswersFollow ==
    \A j \in Jobs :
        /\ pc[j] \in {"not started", "select", "querying"} => answer[j].status = "not asked"
        /\ pc[j] = "merging" => /\ answer[j].status # "not asked"
                                /\ \A p \in PairsOf[j] : Says(answer[j], p, res[j][p])
        /\ pc[j] \in After => /\ answer[j].status = "not asked" => cancelled
                              /\ \A p \in PairsOf[j] : Says(answer[j], p, tenants[p])

(* A step of goroutine j leaves every other goroutine's part as it was.    *)
LEMMA OthersKeepAnswers ==
    ASSUME IInv, AnswersFollow, NEW j \in Jobs, Spawn(j) \/ Goroutine(j),
           NEW i \in Jobs, i # j
    PROVE  /\ pc'[i] = pc[i] /\ res'[i] = res[i] /\ answer'[i] = answer[i]
           /\ cancelled' = cancelled
           /\ \A p \in PairsOf[i] : tenants'[p] = tenants[p]
<1>1. /\ pc'[i] = pc[i] /\ res'[i] = res[i] /\ answer'[i] = answer[i]
      /\ cancelled' = cancelled
  BY DEF IInv, TypeOK, Goroutine, Spawn, AcquireSlot, GiveUp, QueryFails, QueryAnswers,
         Merge, ReleaseSlot, Finish
<1>2. ASSUME NEW p \in PairsOf[i] PROVE tenants'[p] = tenants[p]
  <2>1. p \in Pairs /\ p \notin PairsOf[j]
    BY JobsPartition, CountAssumption
  <2>2. QED
    BY <2>1 DEF IInv, TypeOK, Goroutine, Spawn, AcquireSlot, GiveUp, QueryFails, QueryAnswers,
         Merge, ReleaseSlot, Finish
<1>3. QED
  BY <1>1, <1>2

LEMMA AnswersStep == IInv /\ AnswersFollow /\ [Next]_vars => AnswersFollow'
<1> SUFFICES ASSUME IInv, AnswersFollow, [Next]_vars PROVE AnswersFollow'
  OBVIOUS
<1>1. ASSUME NEW j \in Jobs, Spawn(j) \/ Goroutine(j) PROVE AnswersFollow'
  <2>1. ASSUME NEW i \in Jobs, i # j
        PROVE  /\ pc'[i] \in {"not started", "select", "querying"} => answer'[i].status = "not asked"
               /\ pc'[i] = "merging" => /\ answer'[i].status # "not asked"
                                        /\ \A p \in PairsOf[i] : Says(answer'[i], p, res'[i][p])
               /\ pc'[i] \in After => /\ answer'[i].status = "not asked" => cancelled'
                                      /\ \A p \in PairsOf[i] : Says(answer'[i], p, tenants'[p])
    <3>1. /\ pc'[i] = pc[i] /\ res'[i] = res[i] /\ answer'[i] = answer[i]
          /\ cancelled' = cancelled
          /\ \A p \in PairsOf[i] : tenants'[p] = tenants[p]
      BY <1>1, <2>1, OthersKeepAnswers
    <3>2. QED
      BY <3>1 DEF AnswersFollow
  <2>2. /\ pc'[j] \in {"not started", "select", "querying"} => answer'[j].status = "not asked"
        /\ pc'[j] = "merging" => /\ answer'[j].status # "not asked"
                                 /\ \A p \in PairsOf[j] : Says(answer'[j], p, res'[j][p])
        /\ pc'[j] \in After => /\ answer'[j].status = "not asked" => cancelled'
                               /\ \A p \in PairsOf[j] : Says(answer'[j], p, tenants'[p])
    <3>1. CASE Spawn(j) \/ AcquireSlot(j)
      BY <3>1 DEF Spawn, AcquireSlot, IInv, TypeOK, AnswersFollow, After
    <3>2. CASE GiveUp(j)
      <4>1. pc'[j] = "unwinding" /\ answer'[j].status = "not asked" /\ cancelled'
        BY <3>2 DEF GiveUp, IInv, TypeOK, AnswersFollow
      <4>2. \A p \in PairsOf[j] : tenants'[p] = Err("cancelled")
        BY <3>2, CountAssumption DEF GiveUp
      <4>3. \A p \in PairsOf[j] : Says(answer'[j], p, tenants'[p])
        BY <4>1, <4>2 DEF Says
      <4>4. QED
        BY <4>1, <4>3
    <3>3. CASE QueryFails(j)
      <4>1. pc'[j] = "merging" /\ answer'[j] = Failed
            /\ res'[j] = [p \in PairsOf[j] |-> Err("query failed")]
        BY <3>3 DEF QueryFails, IInv, TypeOK
      <4>2. answer'[j].status = "failed"
        <5>1. Failed.status = "failed"
          BY Zenon DEF Failed
        <5>2. QED
          BY <4>1, <5>1
      <4>3. \A p \in PairsOf[j] : Says(answer'[j], p, Err("query failed"))
        BY <4>2 DEF Says
      <4>4. QED
        BY <4>1, <4>2, <4>3 DEF After
    <3>4. CASE QueryAnswers(j)
      <4>1. PICK samples \in [PairsOf[j] -> Samples] :
              /\ answer' = [answer EXCEPT ![j] = Answered(samples)]
              /\ res' = [res EXCEPT ![j] = [p \in PairsOf[j] |-> CountOf(samples[p])]]
              /\ pc' = [pc EXCEPT ![j] = "merging"]
        BY <3>4 DEF QueryAnswers
      <4>2. pc'[j] = "merging" /\ answer'[j] = Answered(samples)
            /\ res'[j] = [p \in PairsOf[j] |-> CountOf(samples[p])]
        BY <4>1 DEF IInv, TypeOK
      <4>3. answer'[j].status = "answered" /\ answer'[j].samples = samples
        BY <4>2 DEF Answered
      <4>4. \A p \in PairsOf[j] : Says(answer'[j], p, CountOf(samples[p]))
        BY <4>3 DEF Says
      <4>5. QED
        BY <4>2, <4>3, <4>4 DEF After
    <3>5. CASE Merge(j)
      <4>1. pc[j] = "merging" /\ pc'[j] = "releasing" /\ answer' = answer
        BY <3>5 DEF Merge, IInv, TypeOK
      <4>2. \A p \in PairsOf[j] : tenants'[p] = res[j][p]
        BY <3>5, CountAssumption DEF Merge
      <4>3. QED
        BY <4>1, <4>2 DEF AnswersFollow
    <3>6. CASE ReleaseSlot(j) \/ Finish(j)
      BY <3>6 DEF ReleaseSlot, Finish, IInv, TypeOK, AnswersFollow, After
    <3>7. QED
      BY <1>1, <3>1, <3>2, <3>3, <3>4, <3>5, <3>6 DEF Goroutine
  <2>3. QED
    BY <2>1, <2>2 DEF AnswersFollow
<1>2. CASE AllSpawned \/ Return \/ Cancel \/ UNCHANGED vars
  <2>1. pc' = pc /\ res' = res /\ answer' = answer /\ tenants' = tenants
    BY <1>2 DEF AllSpawned, Return, Cancel, vars
  <2>2. cancelled => cancelled'
    BY <1>2 DEF AllSpawned, Return, Cancel, vars
  <2>3. QED
    BY <2>1, <2>2 DEF AnswersFollow
<1>3. QED
  BY <1>1, <1>2 DEF Next

(* A failed or cancelled chunk marks its own names and no others, and an   *)
(* absent sample is a measured zero (count.go:79).                         *)
THEOREM ChunksAreIsolated == Spec => []ChunkIsolation
<1>1. Init => AnswersFollow
  <2> SUFFICES ASSUME Init, NEW j \in Jobs
               PROVE  pc[j] = "not started" /\ answer[j].status = "not asked"
    BY DEF AnswersFollow, After
  <2>1. QED
    BY DEF Init, NotAsked
<1>2. Spec => []AnswersFollow
  BY <1>1, AnswersStep, Inductive, PTL DEF Spec
<1>3. IInv /\ AnswersFollow => ChunkIsolation
  <2> SUFFICES ASSUME IInv, AnswersFollow, NEW j \in Jobs, NEW p \in PairsOf[j],
                      tenants[p] # Missing
               PROVE  /\ Says(answer[j], p, tenants[p])
                      /\ answer[j].status = "not asked" => cancelled
    BY DEF ChunkIsolation, Says
  <2>1. pc[j] \in After
    BY DEF IInv, TypeOK, EntriesFollow, Before, After, PCs
  <2>2. QED
    BY <2>1 DEF AnswersFollow
<1>4. QED
  BY <1>2, <1>3, Inductive, PTL

--------------------------------------------------------------------------------
(* Count keeps its promise: giving up and merging each settle one chunk,   *)
(* returning hands the map over, and every other step is invisible to the  *)
(* caller.                                                                 *)
LEMMA StepMapsToPromise ==
    IInv /\ IInv' /\ [Next]_vars => [Promise!Next]_<<tenants, main = "returned">>
<1> SUFFICES ASSUME IInv, IInv', [Next]_vars
             PROVE  [Promise!Next]_<<tenants, main = "returned">>
  OBVIOUS
<1>1. ASSUME NEW j \in Jobs, GiveUp(j) \/ Merge(j) PROVE Promise!Settle(j)
  <2>1. main # "returned" /\ main' = main
    BY <1>1 DEF GiveUp, Merge, IInv, MainKnows
  <2>2. \A p \in PairsOf[j] : tenants[p] = Missing
    BY <1>1 DEF GiveUp, Merge, IInv, EntriesFollow, Before
  <2>3. \A p \in PairsOf[j] : tenants'[p] \in Results
    <3>1. pc'[j] \notin Before
      BY <1>1 DEF GiveUp, Merge, IInv, TypeOK, Before
    <3>2. \A p \in PairsOf[j] : tenants'[p] # Missing /\ p \in Pairs
      BY <3>1, CountAssumption DEF IInv, EntriesFollow
    <3>3. QED
      BY <3>2 DEF IInv, TypeOK
  <2> DEFINE r == [p \in PairsOf[j] |-> tenants'[p]]
  <2>4. r \in [PairsOf[j] -> Results]
    BY <2>3
  <2>5. tenants' = [p \in Pairs |-> IF p \in PairsOf[j] THEN r[p] ELSE tenants[p]]
    BY <1>1, CountAssumption DEF GiveUp, Merge, IInv, TypeOK
  <2>6. QED
    BY <2>1, <2>2, <2>4, <2>5 DEF Promise!Settle
<1>2. CASE Return
  <2>1. \A j \in Jobs : pc'[j] = "finished"
    BY <1>2 DEF Return, IInv, MainKnows
  <2>2. \A p \in Pairs : tenants[p] # Missing
    BY <1>2, <2>1, JobsPartition DEF Return, IInv, EntriesFollow, Before
  <2>3. QED
    BY <1>2, <2>2 DEF Return, Promise!HandOver, Promise!Next
<1>3. CASE \E j \in Jobs : \/ Spawn(j) \/ AcquireSlot(j) \/ QueryFails(j) \/ QueryAnswers(j)
                          \/ ReleaseSlot(j) \/ Finish(j)
  BY <1>3 DEF Spawn, AcquireSlot, QueryFails, QueryAnswers, ReleaseSlot, Finish
<1>4. CASE AllSpawned \/ Cancel \/ UNCHANGED vars
  BY <1>4 DEF AllSpawned, Cancel, vars
<1>5. QED
  BY <1>1, <1>2, <1>3, <1>4 DEF Next, Goroutine, Promise!Next

(* The safety part of ImplementsPromise.                                   *)
THEOREM CountKeepsItsPromise == Spec => Promise!Safety
<1>1. Init => Promise!Init
  BY DEF Init, Promise!Init
<1>2. QED
  BY <1>1, StepMapsToPromise, Inductive, PTL DEF Spec, Promise!Safety
================================================================================
