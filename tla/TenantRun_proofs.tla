---------------------------- MODULE TenantRun_proofs ---------------------------
(***************************************************************************)
(* Theorems about one tenant of the load generator for any valid profile,  *)
(* any number of batches, attempts, requests in flight and ticks, and any  *)
(* groups an earlier profile left behind. The inductive invariant          *)
(* TenantInv adds to the type invariant how many attempts and ticks are    *)
(* left, what the ruler holds between the requests of one attempt of       *)
(* replace, that nothing is written before, and what pushAll's totals are  *)
(* at every moment as sums over the batches.                               *)
(***************************************************************************)
EXTENDS TenantRun, CollectionTheorems

(* The semaphore counts the goroutines between taking and giving back.     *)
Active == {b \in Batches : pc[b] \notin {"not started", "finished"}}

Flags == ctxDone \in BOOLEAN /\ returned \in BOOLEAN /\ silent \in BOOLEAN

(* A goroutine about to send has an attempt left.                          *)
AttemptsLeft ==
    \A b \in Batches :
        /\ pc[b] = "not started" => attempt[b] = 0
        /\ pc[b] \in {"sending", "backing off"} => attempt[b] < Attempts

(* The write loop has not used up its ticks while it can still end one.    *)
TicksLeft == ~silent => tick < MaxTicks

(* Between the requests of one attempt: what the ruler took since the      *)
(* delete are the groups before the next one, and no other is there.       *)
PushFollowsDelete ==
    /\ phase = "replacing" /\ next # Rules!Delete =>
            taken = 1..next - 1 /\ namespace \subseteq Groups
    /\ phase = "pushed" => taken = Groups /\ namespace \subseteq Groups

(* Nothing is written before the rules are there.                          *)
WritesAfterPush == (returned \/ \E b \in Batches : pc[b] # "not started") => phase = "pushed"

(* A request answered without an error was taken.                          *)
KeptIsStored ==
    /\ stored \subseteq Batches
    /\ \A b \in Batches : pc[b] \in {"adding", "leaving", "finished"} /\ err[b] = "" => b \in stored

(* What was added up is what the batches that got there came to.           *)
Failed == Added \ Succeeded

SamplesAddUp ==
    /\ totals \in [sent : Int, failed : Int, reqFailed : Int, firstErr : BOOLEAN]
    /\ totals.sent = SumFunctionOnSet(SizeOf, Succeeded)
    /\ totals.failed = SumFunctionOnSet(SizeOf, Failed)
    /\ totals.reqFailed = Cardinality(Failed)
    /\ totals.firstErr <=> totals.reqFailed > 0

(* pushAll has returned when every goroutine has.                          *)
ReturnedIsFinished == returned => \A b \in Batches : pc[b] = "finished"

TenantInv ==
    /\ TenantTypeOK /\ Flags /\ AttemptsLeft /\ TicksLeft
    /\ PushFollowsDelete /\ WritesAfterPush /\ KeptIsStored
    /\ SamplesAddUp /\ ReturnedIsFinished

--------------------------------------------------------------------------------
(* The slots and attempts of pushAll.                                      *)

(* What the constants of pushAll are.                                      *)
LEMMA Limits ==
    /\ IsFiniteSet(Batches) /\ InFlight \in Nat /\ InFlight > 0
    /\ Attempts \in Nat /\ Attempts > 0
BY PushAssumption

(* StartBatch takes a slot, Leave gives one back (<-sem, remotewrite.go),  *)
(* a new tick starts with none taken; no other step touches the semaphore. *)
LEMMA SlotsStep ==
  ASSUME TenantInv, TenantNext
  PROVE  sem' \in 0..InFlight /\ sem' = Cardinality(Active')
<1>0. IsFiniteSet(Active) /\ sem = Cardinality(Active) /\ sem \in 0..InFlight
  BY Limits, FS_Subset DEF Active, TenantInv, TenantTypeOK, TypeOK
<1>1. ASSUME NEW b \in Batches, StartBatch(b)
      PROVE  sem' \in 0..InFlight /\ sem' = Cardinality(Active')
  <2>1. Active' = Active \cup {b} /\ b \notin Active
    BY <1>1 DEF StartBatch, Active, TenantInv, TenantTypeOK, TypeOK
  <2>2. Cardinality(Active') = Cardinality(Active) + 1
    BY <1>0, <2>1, FS_AddElement
  <2>3. sem' = sem + 1 /\ sem < InFlight
    BY <1>1 DEF StartBatch
  <2>4. QED
    BY <1>0, <2>2, <2>3, Limits
<1>2. ASSUME NEW b \in Batches, Leave(b)
      PROVE  sem' \in 0..InFlight /\ sem' = Cardinality(Active')
  <2>1. Active' = Active \ {b} /\ b \in Active
    BY <1>2 DEF Leave, Active, TenantInv, TenantTypeOK, TypeOK
  <2>2. Cardinality(Active') = Cardinality(Active) - 1 /\ Cardinality(Active') \in Nat
    BY <1>0, <2>1, FS_RemoveElement, FS_CardinalityType
  <2>3. sem' = sem - 1
    BY <1>2 DEF Leave
  <2>4. QED
    BY <1>0, <2>2, <2>3, Limits
<1>3. ASSUME NEW b \in Batches, Once(b) \/ Retry(b) \/ StopRetrying(b) \/ Add(b)
      PROVE  sem' \in 0..InFlight /\ sem' = Cardinality(Active')
  <2>1. Active' = Active /\ sem' = sem
    BY <1>3 DEF Once, Retry, StopRetrying, Add, AfterAttempt, Active, TenantInv, TenantTypeOK, TypeOK
  <2>2. QED
    BY <1>0, <2>1
<1>4. ASSUME NextTick PROVE sem' \in 0..InFlight /\ sem' = Cardinality(Active')
  <2>1. Active' = {} /\ sem' = 0
    BY <1>4 DEF NextTick, Active
  <2>2. QED
    <3>1. Cardinality(Active') = 0
      BY <2>1, FS_EmptySet
    <3>2. QED
      BY <2>1, <3>1, Limits
<1>5. ASSUME ReplaceRules \/ RulerCatchesUp \/ PushReturns \/ StopWriting \/ ContextEnds
      PROVE  Active' = Active /\ sem' = sem
  BY <1>5 DEF ReplaceRules, RulerCatchesUp, PushReturns, Return, StopWriting, ContextEnds, pushVars, Active
<1>6. QED
  BY <1>0, <1>1, <1>2, <1>3, <1>4, <1>5 DEF TenantNext, PushBatch, Batch

(* A goroutine of pushAll never makes more than Attempts requests: it goes *)
(* on to back off only when one is left.                                   *)
LEMMA PushTypes ==
  ASSUME TenantInv, TenantNext
  PROVE  TypeOK' /\ Flags' /\ AttemptsLeft'
<1> DEFINE PCs == {"not started", "sending", "backing off", "adding", "leaving", "finished"}
           Types == pc \in [Batches -> PCs] /\ attempt \in [Batches -> 0..Attempts] /\ err \in [Batches -> Errors \cup {""}]
<1>0. Types /\ AttemptsLeft /\ Flags
  BY DEF TenantInv, TenantTypeOK, TypeOK
<1>1. sem' \in 0..InFlight /\ sem' = Cardinality(Active')
  BY SlotsStep
<1>2. ASSUME NEW b \in Batches, Once(b)
      PROVE  Types' /\ AttemptsLeft'
  <2>1. attempt[b] \in 0..Attempts /\ attempt[b] < Attempts /\ Attempts \in Nat
    BY <1>0, <1>2, Limits DEF Once, AttemptsLeft
  <2>2. attempt[b] + 1 \in 0..Attempts /\ (attempt[b] + 1 # Attempts => attempt[b] + 1 < Attempts)
    BY <2>1
  <2>3. attempt' = [attempt EXCEPT ![b] = attempt[b] + 1]
    BY <1>2 DEF Once
  <2>4. \E e \in {"", "retryable", "final"} :
          err' = [err EXCEPT ![b] = e] /\ pc' = [pc EXCEPT ![b] = AfterAttempt(b, e)]
    BY <1>2 DEF Once
  <2>5. \A e : AfterAttempt(b, e) = "adding" \/ (AfterAttempt(b, e) = "backing off" /\ attempt[b] + 1 # Attempts)
    BY DEF AfterAttempt
  <2>6. (err \in [Batches -> Errors \cup {""}])'
    BY <1>0, <2>4 DEF Errors
  <2>7. (pc \in [Batches -> PCs])'
    BY <1>0, <2>4, <2>5
  <2>8. (attempt \in [Batches -> 0..Attempts])'
    BY <1>0, <2>2, <2>3
  <2>9. \A c \in Batches : c # b => pc'[c] = pc[c] /\ attempt'[c] = attempt[c]
    BY <1>0, <2>3, <2>4
  <2>10. attempt'[b] = attempt[b] + 1 /\ pc'[b] \in {"adding", "backing off"}
         /\ (pc'[b] = "backing off" => attempt[b] + 1 # Attempts)
    BY <1>0, <2>3, <2>4, <2>5
  <2>11. AttemptsLeft'
    BY <1>0, <2>2, <2>9, <2>10 DEF AttemptsLeft
  <2>12. QED
    BY <2>6, <2>7, <2>8, <2>11
<1>3. ASSUME NEW b \in Batches, StartBatch(b)
      PROVE  AttemptsLeft'
  BY <1>0, <1>3, Limits DEF StartBatch, AttemptsLeft
<1>4. ASSUME NEW b \in Batches, Retry(b) \/ StopRetrying(b) \/ Add(b) \/ Leave(b)
      PROVE  AttemptsLeft'
  BY <1>0, <1>4 DEF Retry, StopRetrying, Add, Leave, AttemptsLeft
<1>5. ASSUME NEW b \in Batches, StartBatch(b) \/ Retry(b) \/ StopRetrying(b) \/ Add(b) \/ Leave(b)
      PROVE  Types'
  BY <1>0, <1>5 DEF StartBatch, Retry, StopRetrying, Add, Leave, Errors
<1>6. ASSUME NextTick
      PROVE  Types' /\ AttemptsLeft'
  <2>1. /\ pc' = [b \in Batches |-> "not started"] /\ attempt' = [b \in Batches |-> 0]
        /\ err' = [b \in Batches |-> ""]
    BY <1>6 DEF NextTick
  <2>2. 0 \in 0..Attempts
    BY Limits
  <2>3. QED
    BY <2>1, <2>2 DEF AttemptsLeft
<1>7. ASSUME ReplaceRules \/ RulerCatchesUp \/ PushReturns \/ StopWriting \/ ContextEnds
      PROVE  UNCHANGED <<pc, attempt, err>>
  BY <1>7 DEF ReplaceRules, RulerCatchesUp, PushReturns, Return, StopWriting, ContextEnds, pushVars
<1>8. Flags'
  <2>1. ASSUME NEW b \in Batches, Batch(b) PROVE UNCHANGED <<ctxDone, returned>>
    BY <2>1 DEF Batch, StartBatch, Once, Retry, StopRetrying, Add, Leave
  <2>2. Rules!Client => UNCHANGED ctxDone
    BY DEF Rules!Client, Rules!Succeeds, Rules!Fails, Rules!Retry, Rules!GiveUp
  <2>3. \A r : Rules!Arrives(r) => UNCHANGED ctxDone
    BY DEF Rules!Arrives
  <2>4. QED
    BY <1>0, <2>1, <2>2, <2>3 DEF Flags, TenantNext, PushBatch, ReplaceRules, RulerCatchesUp, PushReturns, Return, NextTick,
       StopWriting, ContextEnds, pushVars, loopVars
<1>9. QED
  <2>1. Types' /\ AttemptsLeft'
    <3>1. ASSUME UNCHANGED <<pc, attempt, err>> PROVE Types' /\ AttemptsLeft'
      BY <1>0, <3>1 DEF AttemptsLeft
    <3>2. QED
      BY <3>1, <1>2, <1>3, <1>4, <1>5, <1>6, <1>7 DEF TenantNext, PushBatch, Batch
  <2>2. QED
    BY <1>1, <1>8, <2>1 DEF Active, TypeOK

--------------------------------------------------------------------------------
(* The rules.                                                              *)

(* Between the delete and the last push of one attempt the ruler holds     *)
(* just the groups taken so far: replace starts each attempt with the      *)
(* delete, and what arrives late is a delete or one of the same groups.    *)
LEMMA RulerStep ==
  ASSUME TenantInv, TenantNext
  PROVE  Rules!TypeOK' /\ PushFollowsDelete'
<1> USE DEF TenantInv, TenantTypeOK, PushFollowsDelete
<1>0. PICK n \in Nat : n > 0 /\ Groups = 1..n
  <2>1. Groups = 1..Profile.rules.groups
    BY ProfileAssumption DEF GenerateRules
  <2>2. QED
    BY <2>1, ProfileAssumption DEF ValidTenant
<1>1. Stale \cap Groups = {}
  BY TenantAssumption DEF Rules!GroupsAssumption
<1>2. ASSUME Rules!Succeeds PROVE Rules!TypeOK' /\ PushFollowsDelete'
  <2>0. /\ next \in 0..n /\ taken \subseteq Groups
        /\ namespace \subseteq Groups \cup Stale
        /\ late \subseteq Rules!Requests
        /\ next # 0 => taken = 1..next - 1 /\ namespace \subseteq Groups
    BY <1>0, <1>2 DEF Rules!Succeeds, Rules!TypeOK, Rules!Requests, Rules!Delete
  <2>1. /\ taken' = IF next = 0 THEN {} ELSE taken \cup {next}
        /\ namespace' = IF next = 0 THEN {} ELSE namespace \cup {next}
        /\ late' = late
        /\ \/ next + 1 \in 1..n /\ next' = next + 1 /\ phase' = "replacing"
           \/ next + 1 \notin 1..n /\ next' = 0 /\ phase' = "pushed"
    BY <1>0, <1>2 DEF Rules!Succeeds, Rules!Applied, Rules!Delete
  <2>2. taken' = 1..next /\ namespace' \subseteq Groups
    <3>1. CASE next = 0
      BY <2>1, <3>1
    <3>2. CASE next # 0
      <4>1. next \in 1..n
        BY <2>0, <3>2
      <4>2. taken = 1..next - 1 /\ namespace \subseteq Groups
        BY <2>0, <3>2
      <4>3. 1..next = (1..next - 1) \cup {next}
        BY <4>1
      <4>4. QED
        BY <1>0, <2>1, <3>2, <4>1, <4>2, <4>3
    <3>3. QED
      BY <3>1, <3>2
  <2>3. taken' \subseteq Groups
    BY <1>0, <2>0, <2>2
  <2>4. CASE next + 1 \in 1..n
    <3>1. next' - 1 = next /\ next' \in Groups /\ phase' = "replacing"
      BY <1>0, <2>0, <2>1, <2>4
    <3>2. QED
      BY <2>0, <2>1, <2>2, <2>3, <3>1 DEF Rules!TypeOK, Rules!Requests, Rules!Delete
  <2>5. CASE next + 1 \notin 1..n
    <3>1. next = n /\ next' = 0 /\ phase' = "pushed"
      BY <1>0, <2>0, <2>1, <2>5
    <3>2. QED
      BY <1>0, <2>0, <2>1, <2>2, <2>3, <3>1 DEF Rules!TypeOK, Rules!Requests, Rules!Delete
  <2>6. QED
    BY <2>4, <2>5
<1>3. ASSUME Rules!Fails \/ Rules!Retry \/ Rules!GiveUp PROVE Rules!TypeOK' /\ PushFollowsDelete'
  BY <1>3 DEF Rules!Fails, Rules!Retry, Rules!GiveUp, Rules!TypeOK, Rules!Applied, Rules!Requests
<1>4. ASSUME NEW r, Rules!Arrives(r) PROVE Rules!TypeOK' /\ PushFollowsDelete'
  BY <1>4 DEF Rules!Arrives, Rules!TypeOK, Rules!Applied, Rules!Requests
<1>5. ASSUME UNCHANGED rulesVars PROVE Rules!TypeOK' /\ PushFollowsDelete'
  BY <1>5 DEF rulesVars, Rules!TypeOK
<1>6. QED
  BY <1>2, <1>3, <1>4, <1>5 DEF TenantNext, ReplaceRules, RulerCatchesUp, Rules!Client, PushBatch, PushReturns,
     NextTick, StopWriting, ContextEnds

(* writeLoop ends no tick after the one in which it returns.               *)
LEMMA TicksStep ==
  ASSUME TenantInv, TenantNext
  PROVE  /\ (tick \in 0..MaxTicks)' /\ (silent => returned)' /\ TicksLeft'
<1>0. MaxTicks \in Nat /\ tick \in 0..MaxTicks /\ (silent => returned) /\ (~silent => tick < MaxTicks)
  BY TenantAssumption DEF TenantInv, TenantTypeOK, TicksLeft
<1>1. CASE \E b \in Batches : PushBatch(b)
  <2>1. UNCHANGED <<tick, silent, returned>>
    BY <1>1 DEF PushBatch, Batch, StartBatch, Once, Retry, StopRetrying, Add, Leave, loopVars
  <2>2. QED
    BY <1>0, <2>1 DEF TicksLeft
<1>2. CASE NextTick
  <2>1. tick' = tick + 1 /\ tick + 1 < MaxTicks /\ ~silent /\ silent' = silent
    BY <1>2 DEF NextTick
  <2>2. tick' \in 0..MaxTicks /\ tick' < MaxTicks
    BY <1>0, <2>1
  <2>3. QED
    BY <2>1, <2>2 DEF TicksLeft
<1>2a. CASE StopWriting
  <2>1. tick' = tick + 1 /\ ~silent /\ silent' /\ returned'
    BY <1>2a DEF StopWriting, pushVars
  <2>2. tick' \in 0..MaxTicks
    BY <1>0, <2>1
  <2>3. QED
    BY <2>1, <2>2 DEF TicksLeft
<1>3. CASE PushReturns
  <2>1. UNCHANGED <<tick, silent>> /\ returned'
    BY <1>3 DEF PushReturns, Return, loopVars
  <2>2. QED
    BY <1>0, <2>1 DEF TicksLeft
<1>4. CASE ReplaceRules \/ RulerCatchesUp \/ ContextEnds
  <2>1. UNCHANGED <<tick, silent, returned>>
    BY <1>4 DEF ReplaceRules, RulerCatchesUp, ContextEnds, loopVars, pushVars
  <2>2. QED
    BY <1>0, <2>1 DEF TicksLeft
<1>5. QED
  BY <1>1, <1>2, <1>2a, <1>3, <1>4 DEF TenantNext

(* runTenant starts the write loop only when the rules are pushed, and     *)
(* that is never undone.                                                   *)
LEMMA WritesStep ==
  ASSUME TenantInv, TenantNext
  PROVE  WritesAfterPush'
<1>0. WritesAfterPush
  BY DEF TenantInv
<1>1. CASE ReplaceRules
  <2>1. phase # "pushed" /\ UNCHANGED <<returned, pc>>
    BY <1>1 DEF ReplaceRules, pushVars, Rules!Client, Rules!Succeeds, Rules!Fails, Rules!Retry, Rules!GiveUp
  <2>2. QED
    BY <1>0, <2>1 DEF WritesAfterPush
<1>2. CASE (\E b \in Batches : PushBatch(b)) \/ PushReturns
  <2>1. phase' = "pushed"
    BY <1>2 DEF PushBatch, PushReturns, rulesVars
  <2>2. QED
    BY <2>1 DEF WritesAfterPush
<1>3. CASE NextTick
  BY <1>0, <1>3 DEF NextTick, rulesVars, WritesAfterPush
<1>4. CASE RulerCatchesUp \/ StopWriting \/ ContextEnds
  <2>1. UNCHANGED <<returned, pc, phase>>
    BY <1>4 DEF RulerCatchesUp, Rules!Arrives, StopWriting, ContextEnds, rulesVars, pushVars
  <2>2. QED
    BY <1>0, <2>1 DEF WritesAfterPush
<1>5. QED
  BY <1>1, <1>2, <1>3, <1>4 DEF TenantNext

(* once returns no error only for samples Mimir took, and a batch that     *)
(* fails after that is given another error.                                *)
LEMMA StoredStep ==
  ASSUME TenantInv, TenantNext
  PROVE  KeptIsStored'
<1>0. KeptIsStored /\ TypeOK
  BY DEF TenantInv, TenantTypeOK
<1>1. ASSUME NEW b \in Batches, Once(b) PROVE KeptIsStored'
  <2>1. PICK e \in {"", "retryable", "final"}, kept \in BOOLEAN :
          /\ e = "" => kept
          /\ err' = [err EXCEPT ![b] = e]
          /\ stored' = IF kept THEN stored \cup {b} ELSE stored
          /\ pc' = [pc EXCEPT ![b] = AfterAttempt(b, e)]
    BY <1>1 DEF Once
  <2>2. \A c \in Batches : c # b => pc'[c] = pc[c] /\ err'[c] = err[c]
    BY <1>0, <2>1 DEF TypeOK
  <2>3. err'[b] = "" => b \in stored'
    BY <1>0, <2>1 DEF TypeOK
  <2>4. QED
    BY <1>0, <2>1, <2>2, <2>3 DEF KeptIsStored
<1>2. ASSUME NEW b \in Batches, StartBatch(b) \/ Retry(b) \/ StopRetrying(b) \/ Add(b) \/ Leave(b)
      PROVE  KeptIsStored'
  BY <1>0, <1>2 DEF KeptIsStored, TypeOK, StartBatch, Retry, StopRetrying, Add, Leave
<1>3. CASE NextTick
  BY <1>3 DEF NextTick, KeptIsStored
<1>4. CASE ReplaceRules \/ RulerCatchesUp \/ PushReturns \/ StopWriting \/ ContextEnds
  <2>1. UNCHANGED <<pc, err, stored>>
    BY <1>4 DEF ReplaceRules, RulerCatchesUp, PushReturns, Return, StopWriting, ContextEnds, pushVars
  <2>2. QED
    BY <1>0, <2>1 DEF KeptIsStored
<1>5. QED
  BY <1>1, <1>2, <1>3, <1>4 DEF TenantNext, PushBatch, Batch

--------------------------------------------------------------------------------
(* The totals.                                                             *)

(* Batches are finitely many and have integer sizes.                       *)
LEMMA SizesAreIntegers ==
  ASSUME NEW S \in SUBSET Batches
  PROVE  IsFiniteSet(S) /\ \A b \in S : SizeOf[b] \in Int
<1>1. \A b \in Batches : SizeOf[b] \in Int
  BY PushAssumption
<1>2. QED
  BY <1>1, Limits, FS_Subset

(* pushAll returns when all goroutines have (wg.Wait), and none starts     *)
(* again before the next tick.                                             *)
LEMMA ReturnStep ==
  ASSUME TenantInv, TenantNext
  PROVE  ReturnedIsFinished'
<1>0. ReturnedIsFinished /\ TypeOK
  BY DEF TenantInv, TenantTypeOK
<1>1. CASE \E b \in Batches : PushBatch(b)
  BY <1>0, <1>1 DEF ReturnedIsFinished, TypeOK, PushBatch, Batch, StartBatch, Once, Retry, StopRetrying, Add, Leave
<1>2. CASE PushReturns
  BY <1>2 DEF PushReturns, Return, ReturnedIsFinished
<1>3. CASE NextTick
  BY <1>3 DEF NextTick, ReturnedIsFinished
<1>4. CASE ReplaceRules \/ RulerCatchesUp \/ StopWriting \/ ContextEnds
  <2>1. UNCHANGED <<returned, pc>>
    BY <1>4 DEF ReplaceRules, RulerCatchesUp, StopWriting, ContextEnds, pushVars
  <2>2. QED
    BY <1>0, <2>1 DEF ReturnedIsFinished
<1>5. QED
  BY <1>1, <1>2, <1>3, <1>4 DEF TenantNext

(* Only Add changes the totals, in the step in which its batch joins those *)
(* that are counted; a batch that is counted keeps its outcome.            *)
LEMMA TotalsStep ==
  ASSUME TenantInv, TenantNext
  PROVE  SamplesAddUp'
<1> DEFINE Sum(S) == SumFunctionOnSet(SizeOf, S)
<1>0. SamplesAddUp /\ TypeOK
  BY DEF TenantInv, TenantTypeOK
<1>1. Succeeded \in SUBSET Batches /\ Failed \in SUBSET Batches
  BY DEF Succeeded, Failed, Added
<1>2. ASSUME UNCHANGED <<totals, Succeeded, Failed>> PROVE SamplesAddUp'
  BY <1>0, <1>2 DEF SamplesAddUp
<1>3. ASSUME NEW b \in Batches, Add(b), err[b] = "" PROVE SamplesAddUp'
  <2>1. Succeeded' = Succeeded \cup {b} /\ b \notin Succeeded /\ Failed' = Failed
    BY <1>0, <1>3 DEF Add, TypeOK, Succeeded, Failed, Added
  <2>2. totals' = [totals EXCEPT !.sent = totals.sent + SizeOf[b]]
    BY <1>3 DEF Add
  <2>3. Sum(Succeeded \cup {b}) = Sum(Succeeded) + SizeOf[b]
    <3>1. IsFiniteSet(Succeeded) /\ \A c \in Succeeded : SizeOf[c] \in Int
      BY <1>1, SizesAreIntegers
    <3>2. SizeOf[b] \in Int
      BY SizesAreIntegers
    <3>3. QED
      BY <2>1, <3>1, <3>2, SumAdd
  <2>4. totals \in [sent : Int, failed : Int, reqFailed : Int, firstErr : BOOLEAN]
    BY <1>0 DEF SamplesAddUp
  <2>5. totals.sent + SizeOf[b] \in Int /\ totals.reqFailed + 1 \in Int
    <3>1. SizeOf[b] \in Int
      BY SizesAreIntegers
    <3>2. QED
      BY <2>4, <3>1
  <2>6. /\ totals' \in [sent : Int, failed : Int, reqFailed : Int, firstErr : BOOLEAN]
        /\ totals'.sent = totals.sent + SizeOf[b] /\ totals'.failed = totals.failed
        /\ totals'.reqFailed = totals.reqFailed /\ totals'.firstErr = totals.firstErr
    BY <2>2, <2>4, <2>5
  <2>7. QED
    BY <1>0, <2>1, <2>3, <2>6 DEF SamplesAddUp
<1>4. ASSUME NEW b \in Batches, Add(b), err[b] # "" PROVE SamplesAddUp'
  <2>1. Failed' = Failed \cup {b} /\ b \notin Failed /\ Succeeded' = Succeeded
    BY <1>0, <1>4 DEF Add, TypeOK, Succeeded, Failed, Added
  <2>2. totals' = [totals EXCEPT !.failed = totals.failed + SizeOf[b], !.reqFailed = totals.reqFailed + 1,
                                 !.firstErr = TRUE]
    BY <1>4 DEF Add
  <2>3. Sum(Failed \cup {b}) = Sum(Failed) + SizeOf[b]
    <3>1. IsFiniteSet(Failed) /\ \A c \in Failed : SizeOf[c] \in Int
      BY <1>1, SizesAreIntegers
    <3>2. SizeOf[b] \in Int
      BY SizesAreIntegers
    <3>3. QED
      BY <2>1, <3>1, <3>2, SumAdd
  <2>4. totals \in [sent : Int, failed : Int, reqFailed : Int, firstErr : BOOLEAN]
    BY <1>0 DEF SamplesAddUp
  <2>5. totals.failed + SizeOf[b] \in Int /\ totals.reqFailed + 1 \in Int
    <3>1. SizeOf[b] \in Int
      BY SizesAreIntegers
    <3>2. QED
      BY <2>4, <3>1
  <2>6. /\ totals' \in [sent : Int, failed : Int, reqFailed : Int, firstErr : BOOLEAN]
        /\ totals'.sent = totals.sent /\ totals'.failed = totals.failed + SizeOf[b]
        /\ totals'.reqFailed = totals.reqFailed + 1 /\ totals'.firstErr = TRUE
    BY <2>2, <2>4, <2>5
  <2>7. Cardinality(Failed') = Cardinality(Failed) + 1 /\ Cardinality(Failed) \in Nat
    <3>1. IsFiniteSet(Failed)
      BY <1>1, SizesAreIntegers
    <3>2. QED
      BY <2>1, <3>1, FS_AddElement, FS_CardinalityType
  <2>8. totals.reqFailed = Cardinality(Failed)
    BY <1>0 DEF SamplesAddUp
  <2>9. totals'.reqFailed > 0
    BY <2>6, <2>7, <2>8
  <2>10. QED
    BY <1>0, <2>1, <2>3, <2>6, <2>7, <2>8, <2>9 DEF SamplesAddUp
<1>5. ASSUME NEW b \in Batches, StartBatch(b) \/ Once(b) \/ Retry(b) \/ StopRetrying(b) \/ Leave(b)
      PROVE  UNCHANGED <<totals, Succeeded, Failed>>
  <2>1. /\ totals' = totals
        /\ (b \in Added) <=> (pc'[b] \in {"leaving", "finished"})
        /\ \A c \in Batches : c # b => pc'[c] = pc[c] /\ err'[c] = err[c]
        /\ (b \in Added) => (err'[b] = err[b])
    BY <1>0, <1>5 DEF StartBatch, Once, Retry, StopRetrying, Leave, AfterAttempt, TypeOK, Added
  <2>2. QED
    BY <2>1 DEF Succeeded, Failed, Added
<1>6. ASSUME NextTick PROVE SamplesAddUp'
  <2>1. /\ totals' = [sent |-> 0, failed |-> 0, reqFailed |-> 0, firstErr |-> FALSE]
        /\ Succeeded' = {} /\ Failed' = {}
    BY <1>6 DEF NextTick, Succeeded, Failed, Added
  <2>2. QED
    BY <2>1, SumEmpty, FS_EmptySet DEF SamplesAddUp
<1>7. ASSUME ReplaceRules \/ RulerCatchesUp \/ PushReturns \/ StopWriting \/ ContextEnds
      PROVE  UNCHANGED <<totals, Succeeded, Failed>>
  BY <1>7 DEF ReplaceRules, RulerCatchesUp, PushReturns, Return, StopWriting, ContextEnds, pushVars,
     Succeeded, Failed, Added
<1>8. QED
  BY <1>2, <1>3, <1>4, <1>5, <1>6, <1>7 DEF TenantNext, PushBatch, Batch

--------------------------------------------------------------------------------
(* The invariant.                                                          *)

(* The invariant holds at the start.                                       *)
LEMMA InitEstablishes == TenantInit => TenantInv
<1> SUFFICES ASSUME TenantInit PROVE TenantInv
  OBVIOUS
<1>1. TypeOK /\ Flags /\ AttemptsLeft /\ KeptIsStored
  <2>0. 0 \in 0..InFlight /\ 0 \in 0..Attempts
    BY Limits
  <2>1. Active = {} /\ Cardinality({}) = 0
    BY FS_EmptySet DEF TenantInit, Init, Active
  <2>2. TypeOK
    BY <2>0, <2>1 DEF TenantInit, Init, TypeOK, Active
  <2>3. Flags /\ AttemptsLeft /\ KeptIsStored
    BY DEF TenantInit, Init, Flags, AttemptsLeft, KeptIsStored
  <2>4. QED
    BY <2>2, <2>3
<1>2. Rules!TypeOK /\ PushFollowsDelete /\ WritesAfterPush
  BY DEF TenantInit, Init, Rules!Init, Rules!TypeOK, Rules!Requests, PushFollowsDelete, WritesAfterPush
<1>3. tick \in 0..MaxTicks /\ (silent => returned) /\ TicksLeft
  <2>1. 0 \in 0..MaxTicks /\ 0 < MaxTicks
    BY TenantAssumption
  <2>2. QED
    BY <2>1 DEF TenantInit, TicksLeft
<1>4. SamplesAddUp /\ ReturnedIsFinished
  <2>1. /\ totals = [sent |-> 0, failed |-> 0, reqFailed |-> 0, firstErr |-> FALSE]
        /\ Succeeded = {} /\ Failed = {} /\ ~returned
    BY DEF TenantInit, Init, Succeeded, Failed, Added
  <2>2. QED
    BY <2>1, SumEmpty, FS_EmptySet DEF SamplesAddUp, ReturnedIsFinished
<1>5. QED
  BY <1>1, <1>2, <1>3, <1>4 DEF TenantInv, TenantTypeOK

(* Every step of the tenant, the ruler or the context preserves the        *)
(* invariant.                                                              *)
LEMMA StepPreserves == TenantInv /\ [TenantNext]_tenantVars => TenantInv'
<1>1. ASSUME TenantInv, TenantNext PROVE TenantInv'
  BY <1>1, PushTypes, RulerStep, TicksStep, WritesStep, StoredStep, TotalsStep, ReturnStep DEF TenantInv, TenantTypeOK
<1>2. ASSUME TenantInv, UNCHANGED tenantVars PROVE TenantInv'
  BY <1>2 DEF tenantVars, pushVars, rulesVars, loopVars, TenantInv, TenantTypeOK, TypeOK, Rules!TypeOK, Flags,
     AttemptsLeft, TicksLeft, PushFollowsDelete, WritesAfterPush, KeptIsStored, SamplesAddUp, ReturnedIsFinished, Succeeded, Failed, Added
<1>3. QED
  BY <1>1, <1>2

(* The invariant holds throughout.                                         *)
LEMMA Inductive == TenantSpec => []TenantInv
BY InitEstablishes, StepPreserves, PTL DEF TenantSpec

--------------------------------------------------------------------------------
(* What the profile is cut into.                                           *)

(* Division of natural numbers rounds down.                                *)
LEMMA Division ==
  ASSUME NEW a \in Nat, NEW s \in Nat \ {0}
  PROVE  a \div s \in Nat /\ (a \div s) * s <= a /\ a < (a \div s) * s + s
OBVIOUS

(* The remainder is what division leaves.                                  *)
LEMMA Remainder ==
  ASSUME NEW a \in Nat, NEW s \in Nat \ {0}
  PROVE  a % s = a - (a \div s) * s
OBVIOUS

(* A positive factor can be cancelled from an inequality.                  *)
LEMMA Cancel ==
  ASSUME NEW p \in Int, NEW q \in Int, NEW s \in Nat \ {0}, p * s < q * s
  PROVE  p < q
OBVIOUS

(* Quotient and remainder are the only numbers of that kind: where a       *)
(* series, or a rule, of a given number is found.                          *)
LEMMA DivisionIs ==
  ASSUME NEW q \in Nat, NEW s \in Nat \ {0}, NEW d \in 0..s - 1
  PROVE  q * s + d \in Nat /\ (q * s + d) \div s = q /\ (q * s + d) % s = d
<1>1. q * s \in Nat
  OBVIOUS
<1>2. PICK a \in Nat : a = q * s + d
  BY <1>1
<1>3. PICK e \in Nat : e = a \div s /\ e * s <= a /\ a < e * s + s /\ a % s = a - e * s
  BY Division, Remainder
<1>4. e * s \in Nat /\ (e + 1) * s = e * s + s /\ (q + 1) * s = q * s + s
  OBVIOUS
<1>5. e * s < (q + 1) * s /\ q * s < (e + 1) * s
  BY <1>1, <1>2, <1>3, <1>4
<1>6. e < q + 1 /\ q < e + 1
  BY <1>5, Cancel
<1>7. e = q
  BY <1>6
<1>8. QED
  BY <1>1, <1>2, <1>3, <1>7

(* The numbers of a valid profile.                                         *)
LEMMA Numbers ==
    /\ Profile.rules.groups \in Nat \ {0} /\ Profile.rules.recording \in Nat
    /\ Profile.series.metrics \in Nat \ {0} /\ Profile.series.perMetric \in Nat \ {0}
    /\ Profile.series.shards \in 1..Profile.series.perMetric
    /\ Groups = 1..Profile.rules.groups
BY ProfileAssumption DEF ValidTenant, GenerateRules

(* generateRules counts its rules through all groups: group g has those    *)
(* from (g-1)*recording on, together they are numbered from 0 without a    *)
(* gap.                                                                    *)
LEMMA RulesNumbered ==
  LET R == Profile.rules.recording
      G == Profile.rules.groups
      rules == GenerateRules(Profile)
  IN  /\ G * R \in Nat /\ DOMAIN rules = 1..G
      /\ \A g \in 1..G : rules[g].recording =
            {RecordingRule(Profile, k) : k \in {k \in Nat : (g - 1) * R <= k /\ k < (g - 1) * R + R}}
      /\ UNION {rules[g].recording : g \in 1..G} = {RecordingRule(Profile, k) : k \in 0..G * R - 1}
<1> DEFINE R == Profile.rules.recording
           G == Profile.rules.groups
           rules == GenerateRules(Profile)
           Of(g) == {k \in Nat : (g - 1) * R <= k /\ k < (g - 1) * R + R}
<1>1. G \in Nat \ {0} /\ R \in Nat
  BY Numbers
<1> HIDE DEF R, G
<1>2. G * R \in Nat /\ DOMAIN rules = 1..G
  BY <1>1 DEF GenerateRules, G
<1>3. ASSUME NEW g \in 1..G
      PROVE  rules[g].recording = {RecordingRule(Profile, k) : k \in Of(g)}
  <2>1. (g - 1) * R \in Nat
    BY <1>1
  <2>2. rules[g].recording = {RecordingRule(Profile, (g - 1) * R + i - 1) : i \in 1..R}
    BY DEF GenerateRules, G, R
  <2>3. \A i \in 1..R : (g - 1) * R + i - 1 \in Of(g)
    BY <1>1, <2>1
  <2>4. \A k \in Of(g) : k - (g - 1) * R + 1 \in 1..R /\ (g - 1) * R + (k - (g - 1) * R + 1) - 1 = k
    BY <1>1, <2>1
  <2>5. QED
    <3> HIDE DEF Of
    <3>1. QED
      BY <2>2, <2>3, <2>4
<1>4. ASSUME NEW g \in 1..G, NEW k \in Of(g) PROVE k \in 0..G * R - 1
  <2>1. (g - 1) * R + R = g * R /\ g * R <= G * R /\ g * R \in Nat
    BY <1>1
  <2>2. QED
    BY <1>2, <2>1
<1>5. ASSUME NEW k \in 0..G * R - 1 PROVE \E g \in 1..G : k \in Of(g)
  <2>1. R \in Nat \ {0} /\ k \in Nat
    BY <1>1, <1>2
  <2>2. PICK q \in Nat : q * R <= k /\ k < q * R + R
    BY <2>1, Division
  <2>3. q * R \in Nat /\ q * R < G * R
    BY <1>1, <1>2, <2>1, <2>2
  <2>4. q < G
    BY <1>1, <2>1, <2>3, Cancel
  <2>5. q + 1 \in 1..G /\ (q + 1) - 1 = q
    BY <1>1, <2>4
  <2>6. QED
    BY <2>1, <2>2, <2>5
<1>6. UNION {rules[g].recording : g \in 1..G} = {RecordingRule(Profile, k) : k \in 0..G * R - 1}
  <2> HIDE DEF Of, rules
  <2>1. QED
    BY <1>3, <1>4, <1>5
<1>7. QED
  BY <1>2, <1>3, <1>6 DEF G, R

(* buildSeries makes series of every metric on every shard; that no shard  *)
(* goes without is what validate asks shards <= perMetric for.             *)
LEMMA SeriesOfProfile ==
  LET ss == BuildSeries(Profile)
      D  == Profile.series.shards
  IN  /\ \A i \in 1..Live(Profile) : ss[i].shard \in 0..D - 1
      /\ \A m \in 0..Profile.series.metrics - 1, d \in 0..D - 1 :
            \E i \in 1..Live(Profile) : ss[i].metric = m /\ ss[i].shard = d
<1> DEFINE M == Profile.series.metrics
           P == Profile.series.perMetric
           D == Profile.series.shards
           ss == BuildSeries(Profile)
<1>1. M \in Nat \ {0} /\ P \in Nat \ {0} /\ D \in 1..P
  BY Numbers
<1>2. Live(Profile) = M * P
  BY DEF Live
<1>3. \A i \in 1..M * P : ss[i].metric = (i - 1) \div P /\ ss[i].shard = ((i - 1) % P) % D
  BY <1>1 DEF BuildSeries, Live
<1> HIDE DEF M, P, D, ss
<1>4. M * P \in Nat
  BY <1>1
<1>5. ASSUME NEW i \in 1..M * P PROVE ss[i].shard \in 0..D - 1
  <2>1. i - 1 \in Nat
    BY <1>4
  <2>2. (i - 1) % P \in Nat
    BY <1>1, <2>1
  <2>3. ((i - 1) % P) % D \in 0..D - 1
    BY <1>1, <2>2
  <2>4. ss[i].shard = ((i - 1) % P) % D
    BY <1>3
  <2>5. QED
    BY <2>3, <2>4
<1>6. ASSUME NEW m \in 0..M - 1, NEW d \in 0..D - 1
      PROVE  \E i \in 1..M * P : ss[i].metric = m /\ ss[i].shard = d
  <2>1. m \in Nat /\ d \in 0..P - 1
    BY <1>1
  <2>2. m * P + d \in Nat /\ (m * P + d) \div P = m /\ (m * P + d) % P = d
    BY <1>1, <2>1, DivisionIs
  <2>3. d % D = d
    BY <1>1
  <2>4. m * P + d + 1 \in 1..M * P
    <3>1. (m + 1) * P <= M * P /\ (m + 1) * P = m * P + P
      BY <1>1, <2>1
    <3>2. QED
      BY <1>1, <1>4, <2>1, <2>2, <3>1
  <2>5. PICK i \in 1..M * P : i - 1 = m * P + d
    BY <2>2, <2>4
  <2>6. ss[i].metric = (i - 1) \div P /\ ss[i].shard = ((i - 1) % P) % D
    BY <1>3
  <2>7. QED
    BY <2>2, <2>3, <2>5, <2>6
<1>7. QED
  BY <1>2, <1>5, <1>6 DEF M, D, ss

(* A recording rule writes at most the series RuleTruth says, whatever     *)
(* part of the series is there, and just as many once all are.             *)
LEMMA RuleWrites ==
  ASSUME NEW k \in Nat, NEW ss \in SUBSET {BuildSeries(Profile)[i] : i \in 1..Live(Profile)}
  PROVE  LET n == IF k % 2 = 0 THEN Profile.series.shards ELSE 1
             w == Writes(RecordingRule(Profile, k), ss)
         IN  /\ Cardinality(w) \in Nat /\ Cardinality(w) <= n
             /\ ss = {BuildSeries(Profile)[i] : i \in 1..Live(Profile)} => Cardinality(w) = n
<1> DEFINE M == Profile.series.metrics
           D == Profile.series.shards
           m == k % M
           All == {BuildSeries(Profile)[i] : i \in 1..Live(Profile)}
           w == Writes(RecordingRule(Profile, k), ss)
           n == IF k % 2 = 0 THEN D ELSE 1
           may == IF k % 2 = 0 THEN 0..D - 1 ELSE {0}
<1>1. M \in Nat \ {0} /\ D \in Nat \ {0} /\ m \in 0..M - 1
  BY Numbers
<1>2. /\ \A s \in All : s.shard \in 0..D - 1
      /\ \A d \in 0..D - 1 : \E s \in All : s.metric = m /\ s.shard = d
  <2>1. /\ \A i \in 1..Live(Profile) : BuildSeries(Profile)[i].shard \in 0..D - 1
        /\ \A q \in 0..M - 1, d \in 0..D - 1 :
              \E i \in 1..Live(Profile) : BuildSeries(Profile)[i].metric = q /\ BuildSeries(Profile)[i].shard = d
    BY SeriesOfProfile
  <2> HIDE DEF M, D, m
  <2>2. QED
    BY <1>1, <2>1
<1>3. w = IF k % 2 = 0 THEN {s.shard : s \in {s \in ss : s.metric = m}} ELSE {0 : s \in {s \in ss : s.metric = m}}
  BY DEF Writes, RecordingRule
<1> HIDE DEF M, D, m, All, w
<1>4. w \subseteq may
  BY <1>2, <1>3 DEF All
<1>5. IsFiniteSet(may) /\ Cardinality(may) = n
  <2>1. IsFiniteSet(0..D - 1) /\ Cardinality(0..D - 1) = D
    BY <1>1, FS_Interval
  <2>2. IsFiniteSet({0}) /\ Cardinality({0}) = 1
    BY FS_Singleton
  <2>3. QED
    BY <2>1, <2>2
<1>6. IsFiniteSet(w) /\ Cardinality(w) <= n /\ Cardinality(w) \in Nat
  <2> HIDE DEF may, n
  <2>1. QED
    BY <1>4, <1>5, FS_Subset, FS_CardinalityType
<1>7. ss = All => w = may
  <2> SUFFICES ASSUME ss = All PROVE may \subseteq w
    BY <1>4
  <2>1. 0 \in 0..D - 1
    BY <1>1
  <2>2. QED
    BY <1>2, <1>3, <2>1
<1>8. QED
  <2> HIDE DEF may, n
  <2>1. QED
    BY <1>5, <1>6, <1>7 DEF All, w, n, D

(* A tenant writes at least one series.                                    *)
LEMMA LiveType == Live(Profile) \in Nat \ {0}
<1>1. /\ Profile.series.metrics \in Nat \ {0}
      /\ Profile.series.perMetric \in Nat \ {0}
  BY ProfileAssumption DEF ValidTenant
<1>2. \A a, b \in Nat \ {0} : a * b \in Nat \ {0}
  OBVIOUS
<1>3. QED
  BY <1>1, <1>2 DEF Live

(* pushAll cuts n series into batches of s, the last one shorter: each     *)
(* series is in one batch and in no other.                                 *)
LEMMA SlicesPartition ==
  ASSUME NEW n \in Nat \ {0}, NEW s \in Nat \ {0}
  PROVE  LET P == Slices(n, s)
         IN  /\ \A b \in DOMAIN P : IsFiniteSet(P[b])
             /\ \A b, c \in DOMAIN P : b # c => P[b] \cap P[c] = {}
             /\ UNION {P[b] : b \in DOMAIN P} = 1..n
<1> DEFINE P == Slices(n, s)
           m == (n + s - 1) \div s
<1>1. m \in Nat /\ n + s - 1 < m * s + s
  BY Division
<1> HIDE DEF m
<1>2. DOMAIN P = 1..m /\ \A b \in 1..m : P[b] = {i \in 1..n : (b - 1) * s < i /\ i <= b * s}
  BY DEF Slices, m
<1> HIDE DEF P
<1>3. \A b \in 1..m : P[b] \subseteq 1..n /\ IsFiniteSet(P[b])
  <2>1. IsFiniteSet(1..n)
    BY FS_Interval
  <2>2. QED
    BY <1>2, <2>1, FS_Subset
<1>4. ASSUME NEW b \in 1..m, NEW c \in 1..m, NEW i \in P[b], i \in P[c] PROVE b <= c
  <2>1. (b - 1) * s < i /\ i <= c * s /\ i \in Int
    BY <1>2, <1>4
  <2>2. (b - 1) * s < c * s /\ b - 1 \in Int /\ c \in Int
    BY <2>1
  <2>3. b - 1 < c
    BY <2>2, Cancel
  <2>4. QED
    BY <2>3
<1>5. \A b, c \in 1..m : b # c => P[b] \cap P[c] = {}
  BY <1>4
<1>6. ASSUME NEW i \in 1..n PROVE \E b \in 1..m : i \in P[b]
  <2> DEFINE q == (i - 1) \div s
  <2>1. i - 1 \in Nat
    OBVIOUS
  <2>2. q \in Nat /\ q * s <= i - 1 /\ i - 1 < q * s + s
    BY <2>1, Division
  <2> HIDE DEF q
  <2>3. (q + 1) * s = q * s + s
    BY <2>2
  <2>4. q * s < m * s
    <3>1. q * s \in Int /\ m * s \in Int
      BY <1>1, <2>2
    <3>2. QED
      BY <1>1, <2>2, <3>1
  <2>5. q < m
    BY <1>1, <2>2, <2>4, Cancel
  <2>6. q + 1 \in 1..m /\ (q + 1) - 1 = q
    BY <1>1, <2>2, <2>5
  <2>7. q * s < i /\ i <= (q + 1) * s
    BY <2>2, <2>3
  <2>8. i \in P[q + 1]
    BY <1>2, <2>6, <2>7
  <2>9. QED
    BY <2>6, <2>8
<1>7. UNION {P[b] : b \in 1..m} = 1..n
  BY <1>3, <1>6
<1>8. QED
  BY <1>2, <1>3, <1>5, <1>7 DEF P

(* The batches of one tick carry as many samples as the tenant has series. *)
LEMMA BatchesCarryAll == SumFunctionOnSet(SizeOf, Batches) = Live(Profile)
<1> DEFINE P == Slices(Live(Profile), BatchSize)
           size == [b \in Batches |-> Cardinality(P[b])]
<1>1. Live(Profile) \in Nat \ {0} /\ BatchSize \in Nat \ {0}
  BY LiveType, ProfileAssumption
<1>2. Batches = DOMAIN P /\ SizeOf = size
  BY ProfileAssumption
<1>3. /\ \A b \in DOMAIN P : IsFiniteSet(P[b])
      /\ \A b, c \in DOMAIN P : b # c => P[b] \cap P[c] = {}
      /\ UNION {P[b] : b \in DOMAIN P} = 1..Live(Profile)
  BY <1>1, SlicesPartition
<1> HIDE DEF P
<1>4. SumFunctionOnSet(size, Batches) = Cardinality(UNION {P[b] : b \in Batches})
  BY <1>2, <1>3, Limits, SumOfCardinalities
<1>5. Cardinality(1..Live(Profile)) = Live(Profile)
  BY <1>1, FS_Interval
<1>6. QED
  <2> HIDE DEF size
  <2>1. QED
    BY <1>2, <1>3, <1>4, <1>5

--------------------------------------------------------------------------------
(* The theorems.                                                           *)

(* The type invariant: the semaphore counts the requests in flight and     *)
(* stays within its capacity, no batch is tried more than Attempts times   *)
(* (pushAll and push).                                                     *)
THEOREM TenantTypes == TenantSpec => []TenantTypeOK
<1>1. TenantInv => TenantTypeOK
  BY DEF TenantInv
<1>2. QED
  BY <1>1, Inductive, PTL

(* No sample is written before the ruler has accepted every group of the   *)
(* profile after a delete of the same attempt (runTenant, replace).        *)
THEOREM RulesFirst == TenantSpec => []RulesBeforeSamples
<1>1. TenantInv => RulesBeforeSamples
  BY DEF TenantInv, PushFollowsDelete, WritesAfterPush, RulesBeforeSamples
<1>2. QED
  BY <1>1, Inductive, PTL

(* Once the rules are pushed no group of an earlier profile is left in the *)
(* namespace, whatever requests failed half way or were applied late       *)
(* (replace).                                                              *)
THEOREM NothingLingers == TenantSpec => []NoStaleGroups
<1>1. TenantInv => NoStaleGroups
  BY DEF TenantInv, PushFollowsDelete, NoStaleGroups
<1>2. QED
  BY <1>1, Inductive, PTL

(* A batch that is counted as sent is in Mimir, whatever answers were lost *)
(* (once, pushAll).                                                        *)
THEOREM SentMeansStored == TenantSpec => []SentIsStored
<1>1. TenantInv => SentIsStored
  BY DEF TenantInv, KeptIsStored, SentIsStored, Succeeded, Added
<1>2. QED
  BY <1>1, Inductive, PTL

(* When pushAll returns, sent and failed add up to the number of series    *)
(* the profile has, and each batch was counted once, in any order of       *)
(* completion.                                                             *)
THEOREM SamplesCounted == TenantSpec => []EverySampleCountedOnce
<1>1. TenantInv => EverySampleCountedOnce
  <2> SUFFICES ASSUME TenantInv PROVE EverySampleCountedOnce
    OBVIOUS
  <2>1. SamplesAddUp /\ ReturnedIsFinished
    BY DEF TenantInv
  <2>2. \A S \in SUBSET Batches : SizeOfAll(S) = SumFunctionOnSet(SizeOf, S)
    BY Limits, FS_Subset, SumOfFunction DEF SizeOfAll
  <2>3. Succeeded \in SUBSET Batches /\ Failed \in SUBSET Batches
    BY DEF Succeeded, Failed, Added
  <2>4. returned => totals.sent + totals.failed = Live(Profile)
    <3> SUFFICES ASSUME returned PROVE totals.sent + totals.failed = Live(Profile)
      OBVIOUS
    <3>1. Failed = Batches \ Succeeded
      BY <2>1 DEF ReturnedIsFinished, Failed, Succeeded, Added
    <3>2. SumFunctionOnSet(SizeOf, Batches) =
            SumFunctionOnSet(SizeOf, Succeeded) + SumFunctionOnSet(SizeOf, Batches \ Succeeded)
      BY <2>3, SizesAreIntegers, SumSplit
    <3>3. QED
      BY <2>1, <3>1, <3>2, BatchesCarryAll DEF SamplesAddUp
  <2>5. QED
    BY <2>1, <2>2, <2>3, <2>4 DEF SamplesAddUp, EverySampleCountedOnce, Failed
<1>2. QED
  BY <1>1, Inductive, PTL

(* The series of the stored batches are series of the profile, and all of  *)
(* them when every batch is stored.                                        *)
LEMMA StoredSeries ==
  ASSUME KeptIsStored
  PROVE  LET all == {BuildSeries(Profile)[i] : i \in 1..Live(Profile)}
         IN  Stored \subseteq all /\ (stored = Batches => Stored = all)
<1> DEFINE P == Slices(Live(Profile), BatchSize)
           ss == BuildSeries(Profile)
<1>1. Batches = DOMAIN P /\ UNION {P[b] : b \in Batches} = 1..Live(Profile)
  BY LiveType, ProfileAssumption, SlicesPartition
<1>2. Stored = UNION {{ss[i] : i \in P[b]} : b \in stored}
  BY DEF Stored
<1>3. stored \subseteq Batches
  BY DEF KeptIsStored
<1> HIDE DEF P, ss
<1>4. Stored \subseteq {ss[i] : i \in 1..Live(Profile)}
  BY <1>1, <1>2, <1>3
<1>5. stored = Batches => {ss[i] : i \in 1..Live(Profile)} \subseteq Stored
  BY <1>1, <1>2
<1>6. QED
  BY <1>4, <1>5 DEF ss

(* For every valid profile: the recording rules the ruler holds write no   *)
(* more series than RuleTruth says of their record: name, no name is used  *)
(* in two groups, and with all groups and all samples there every number   *)
(* of RuleTruth is exact, the total included.                              *)
THEOREM RulesWriteTruth == TenantSpec => []RulesWriteWhatIsRecorded
<1> DEFINE truth == RuleTruth(Profile)
           rules == GenerateRules(Profile)
           G == Profile.rules.groups
           R == Profile.rules.recording
           N == G * R
           rule(k) == RecordingRule(Profile, k)
           writes(k) == IF k % 2 = 0 THEN Profile.series.shards ELSE 1
           Of(g) == {k \in Nat : (g - 1) * R <= k /\ k < (g - 1) * R + R}
           All == {rule(k) : k \in 0..N - 1}
<1>1. G \in Nat \ {0} /\ R \in Nat /\ N \in Nat /\ Groups = 1..G /\ DOMAIN rules = 1..G
  BY Numbers, RulesNumbered
<1>2. /\ \A g \in Groups : rules[g].recording = {rule(k) : k \in Of(g)}
      /\ UNION {rules[g].recording : g \in Groups} = All
  BY <1>1, RulesNumbered
<1>3. \A k : rule(k).record = k
  BY DEF RecordingRule
<1> HIDE DEF rules, G, R, N, rule, Of
<1>4. {r.record : r \in All} = 0..N - 1
  BY <1>3
<1>5. truth.recording = N /\ truth.recordSeries = [k \in 0..N - 1 |-> writes(k)]
      /\ truth.recordSeriesTotal = SumFunction([k \in 0..N - 1 |-> writes(k)])
  BY <1>1, <1>2, <1>4 DEF RuleTruth, rules, G, R, N
<1> HIDE DEF truth
<1>6. ASSUME NEW g \in Groups, NEW h \in Groups, g # h
      PROVE  {r.record : r \in rules[g].recording} \cap {r.record : r \in rules[h].recording} = {}
  <2>1. SUFFICES ASSUME NEW k \in Of(g), k \in Of(h) PROVE FALSE
    BY <1>2, <1>3
  <2>2. k \in Nat /\ (g - 1) * R <= k /\ k < (g - 1) * R + R /\ (h - 1) * R <= k /\ k < (h - 1) * R + R
    BY <2>1 DEF Of
  <2>3. R \in Nat \ {0} /\ g \in Nat /\ h \in Nat /\ (g - 1) * R + R = g * R /\ (h - 1) * R + R = h * R
    BY <1>1, <2>2
  <2>4. (g - 1) * R < h * R /\ (h - 1) * R < g * R
    <3>1. (g - 1) * R \in Int /\ (h - 1) * R \in Int
      BY <2>3
    <3>2. QED
      BY <2>2, <2>3, <3>1
  <2>5. g - 1 < h /\ h - 1 < g
    BY <2>3, <2>4, Cancel
  <2>6. QED
    BY <1>6, <2>3, <2>5
<1>7. TenantInv => RulesWriteWhatIsRecorded
  <2> SUFFICES ASSUME TenantInv, phase = "pushed" PROVE RulesWriteWhatIsRecorded
    BY DEF RulesWriteWhatIsRecorded
  <2> DEFINE n(r) == Cardinality(Writes(r, Stored))
  <2>1. namespace \subseteq Groups /\ KeptIsStored
    BY DEF TenantInv, PushFollowsDelete
  <2>2. \A k \in Nat : /\ n(rule(k)) \in Nat /\ n(rule(k)) <= writes(k)
                       /\ stored = Batches => n(rule(k)) = writes(k)
    BY <2>1, StoredSeries, RuleWrites DEF rule
  <2> HIDE DEF n
  <2>3. ASSUME NEW g \in namespace, NEW r \in rules[g].recording
        PROVE  n(r) <= truth.recordSeries[r.record]
    <3>1. PICK k \in 0..N - 1 : r = rule(k)
      BY <1>2, <2>1
    <3>2. k \in Nat /\ r.record = k
      BY <1>1, <1>3, <3>1
    <3>3. QED
      BY <1>5, <2>2, <3>1, <3>2
  <2>4. ASSUME stored = Batches
        PROVE  /\ Cardinality(All) = truth.recording
               /\ \A r \in All : n(r) = truth.recordSeries[r.record]
               /\ SumFunction([r \in All |-> n(r)]) = truth.recordSeriesTotal
    <3> DEFINE f == [r \in All |-> n(r)]
               w == [k \in 0..N - 1 |-> writes(k)]
               h == [k \in 0..N - 1 |-> rule(k)]
    <3>1. \A k \in 0..N - 1 : k \in Nat /\ n(rule(k)) = writes(k) /\ writes(k) \in Nat
      BY <1>1, <2>2, <2>4, SMTT(30)
    <3>2. \A k, l \in 0..N - 1 : rule(k) = rule(l) => k = l
      BY <1>3
    <3>3. /\ DOMAIN f = All /\ DOMAIN w = 0..N - 1
          /\ \A k \in 0..N - 1 : w[k] = writes(k) /\ h[k] = rule(k) /\ f[h[k]] = w[k] /\ w[k] \in Int
          /\ \A k, l \in 0..N - 1 : h[k] = h[l] => k = l
          /\ All = {h[k] : k \in 0..N - 1}
      BY <3>1, <3>2
    <3>4. IsFiniteSet(0..N - 1) /\ Cardinality(0..N - 1) = N
      BY <1>1, FS_Interval
    <3> HIDE DEF f, w, h, All
    <3>5. IsFiniteSet(All) /\ SumFunctionOnSet(f, All) = SumFunctionOnSet(w, 0..N - 1)
      <4>0. PICK K : K = 0..N - 1
        OBVIOUS
      <4>1. IsFiniteSet(K)
        BY <3>4, <4>0
      <4>2. \A k \in K : w[k] \in Int
        BY <3>3, <4>0
      <4>3. \A k \in K : f[h[k]] = w[k]
        BY <3>3, <4>0
      <4>4. \A k, l \in K : h[k] = h[l] => k = l
        BY <3>3, <4>0
      <4>5. /\ IsFiniteSet({h[k] : k \in K})
            /\ SumFunctionOnSet(f, {h[k] : k \in K}) = SumFunctionOnSet(w, K)
        BY <4>1, <4>2, <4>3, <4>4, SumReindex
      <4>6. QED
        BY <3>3, <4>0, <4>5
    <3>6. Cardinality(All) = N
      <4>0. h \in [0..N - 1 -> All]
        BY <3>3 DEF h
      <4>1. h \in Bijection(0..N - 1, All)
        BY <4>0, <3>3 DEF h, Bijection, Injection, Surjection, IsInjective
      <4>2. ExistsBijection(0..N - 1, All)
        BY <4>1 DEF ExistsBijection
      <4>3. QED
        BY <3>4, <4>2, FS_Bijection
    <3>7. \A r \in All : n(r) = truth.recordSeries[r.record]
      <4>1. SUFFICES ASSUME NEW r \in All PROVE n(r) = truth.recordSeries[r.record]
        OBVIOUS
      <4>2. PICK k \in 0..N - 1 : r = rule(k)
        BY <3>3
      <4>3. n(r) = writes(k) /\ k \in Nat
        BY <3>1, <4>2
      <4>4. r.record = k
        BY <1>3, <4>2, <4>3
      <4>5. truth.recordSeries[k] = writes(k)
        BY <1>5, <4>2
      <4>6. QED
        BY <4>3, <4>4, <4>5
    <3>8. SumFunction(f) = truth.recordSeriesTotal
      BY <1>5, <3>3, <3>5 DEF SumFunction, w
    <3>9. QED
      BY <1>5, <3>6, <3>7, <3>8 DEF f
  <2> DEFINE active == [g \in namespace |-> rules[g].recording]
             all == UNION {active[g] : g \in Groups}
  <2>5. \A g \in namespace : active[g] = rules[g].recording /\ g \in Groups
    BY <2>1
  <2>6. namespace = Groups => all = All
    <3>1. SUFFICES ASSUME namespace = Groups PROVE all = All
      OBVIOUS
    <3>2. all = UNION {rules[g].recording : g \in Groups}
      BY <3>1, <2>5
    <3>3. QED
      BY <1>2, <3>2
  <2> HIDE DEF active, All, all
  <2>7. \A g \in namespace : \A r \in active[g] : n(r) <= truth.recordSeries[r.record]
    BY <2>3, <2>5
  <2>8. \A g, h \in namespace :
            g # h => {r.record : r \in active[g]} \cap {r.record : r \in active[h]} = {}
    BY <1>6, <2>5
  <2>9. namespace = Groups /\ stored = Batches =>
            /\ Cardinality(all) = truth.recording
            /\ \A r \in all : n(r) = truth.recordSeries[r.record]
            /\ SumFunction([r \in all |-> n(r)]) = truth.recordSeriesTotal
    <3>1. SUFFICES ASSUME namespace = Groups, stored = Batches
                   PROVE  /\ Cardinality(all) = truth.recording
                          /\ \A r \in all : n(r) = truth.recordSeries[r.record]
                          /\ SumFunction([r \in all |-> n(r)]) = truth.recordSeriesTotal
      OBVIOUS
    <3>2. all = All
      BY <2>6, <3>1
    <3>3. QED
      BY <2>4, <3>1, <3>2
  <2>10. QED
    BY <2>7, <2>8, <2>9, Zenon DEF RulesWriteWhatIsRecorded, n, rules, truth, active, all
<1>8. QED
  BY <1>7, Inductive, PTL
================================================================================
