-------------------------------- MODULE PushAll --------------------------------
(***************************************************************************)
(* loadgen's pushAll: one tick's series go to Mimir in batches, a bounded  *)
(* number of requests in flight, each request retried by push on transport *)
(* errors, 429 and 5xx, and the outcomes are summed under a mutex.  A      *)
(* response may be lost after Mimir took the samples.                      *)
(*                                                                         *)
(* A batch is its index and SizeOf its number of samples.                  *)
(***************************************************************************)
EXTENDS Integers, FiniteSets, Functions

CONSTANTS
    Batches,        \* 1..n, spawned in order
    SizeOf,         \* [Batches -> Nat \ {0}]
    InFlight,       \* capacity of the semaphore, 4 in the code
    Attempts        \* requests push makes at most, 4 in the code

ASSUME PushAssumption ==
    /\ IsFiniteSet(Batches) /\ Batches \subseteq Nat
    /\ SizeOf \in [Batches -> Nat \ {0}]
    /\ InFlight \in Nat \ {0} /\ Attempts \in Nat \ {0}

VARIABLES
    pc,         \* where each batch's goroutine is
    attempt,    \* requests made for each batch
    err,        \* what push is about to return for each batch
    sem,        \* slots taken
    ctxDone,
    returned,
    totals,     \* sent, failed, reqFailed and whether firstErr is set
    stored      \* observed: batches of which Mimir has every sample

vars == <<pc, attempt, err, sem, ctxDone, returned, totals, stored>>

(* What an error means to push: a transport error, 429 or 5xx is retried,  *)
(* a rejection or a done context is final.                                 *)
Errors == {"retryable", "final"}

Retryable(e) == e = "retryable"

Init ==
    /\ pc = [b \in Batches |-> "not started"]
    /\ attempt = [b \in Batches |-> 0]
    /\ err = [b \in Batches |-> ""]
    /\ sem = 0 /\ ctxDone = FALSE /\ returned = FALSE
    /\ totals = [sent |-> 0, failed |-> 0, reqFailed |-> 0, firstErr |-> FALSE]
    /\ stored = {}

(* Mutant: no limit on the requests in flight.                             *)
StartBatch_NoSlot(b) ==
    /\ pc[b] = "not started"
    /\ \A c \in Batches : c < b => pc[c] # "not started"
    /\ sem' = sem + 1
    /\ pc' = [pc EXCEPT ![b] = "sending"]
    /\ UNCHANGED <<attempt, err, ctxDone, returned, totals, stored>>

(* sem <- struct{}{}; go func(b []series) {...}: the loop itself waits for *)
(* a slot.                                                                 *)
StartBatch(b) ==
    /\ pc[b] = "not started"
    /\ \A c \in Batches : c < b => pc[c] # "not started"
    /\ sem < InFlight
    /\ sem' = sem + 1
    /\ pc' = [pc EXCEPT ![b] = "sending"]
    /\ UNCHANGED <<attempt, err, ctxDone, returned, totals, stored>>

(* push: return now, or wait and try again.                                *)
AfterAttempt(b, e) ==
    IF e = "" \/ ~Retryable(e) \/ attempt[b] + 1 = Attempts THEN "adding" ELSE "backing off"

(* Mutant: running out of attempts returns no error.                       *)
Once_Swallowed(b) ==
    /\ pc[b] = "sending"
    /\ \E e \in {"", "retryable", "final"}, kept \in BOOLEAN :
        /\ e = "" => kept
        /\ ctxDone => e = "retryable" /\ ~kept
        /\ err' = [err EXCEPT ![b] = IF attempt[b] + 1 = Attempts THEN "" ELSE e]
        /\ stored' = IF kept THEN stored \cup {b} ELSE stored
        /\ pc' = [pc EXCEPT ![b] = AfterAttempt(b, e)]
    /\ attempt' = [attempt EXCEPT ![b] = @ + 1]
    /\ UNCHANGED <<sem, ctxDone, returned, totals>>

(* once: Mimir takes the samples and says so, refuses some of them (4xx),  *)
(* or the client ends up with a retryable error - a busy answer, or none.  *)
(* Whatever the error, the batch may be there as a whole or not.  With the *)
(* context done nothing is sent.                                           *)
Once(b) ==
    /\ pc[b] = "sending"
    /\ \E e \in {"", "retryable", "final"}, kept \in BOOLEAN :
        /\ e = "" => kept
        /\ ctxDone => e = "retryable" /\ ~kept
        /\ err' = [err EXCEPT ![b] = e]
        /\ stored' = IF kept THEN stored \cup {b} ELSE stored
        /\ pc' = [pc EXCEPT ![b] = AfterAttempt(b, e)]
    /\ attempt' = [attempt EXCEPT ![b] = @ + 1]
    /\ UNCHANGED <<sem, ctxDone, returned, totals>>

Retry(b) ==
    /\ pc[b] = "backing off"
    /\ pc' = [pc EXCEPT ![b] = "sending"]
    /\ UNCHANGED <<attempt, err, sem, ctxDone, returned, totals, stored>>

StopRetrying(b) ==
    /\ pc[b] = "backing off" /\ ctxDone
    /\ err' = [err EXCEPT ![b] = "final"]
    /\ pc' = [pc EXCEPT ![b] = "adding"]
    /\ UNCHANGED <<attempt, sem, ctxDone, returned, totals, stored>>

(* Mutant: a failed batch falls through to the sum of the sent ones.       *)
Add_NoReturn(b) ==
    /\ pc[b] = "adding"
    /\ totals' = IF err[b] = "" THEN [totals EXCEPT !.sent = @ + SizeOf[b]]
                 ELSE [totals EXCEPT !.sent = @ + SizeOf[b], !.failed = @ + SizeOf[b], !.reqFailed = @ + 1,
                                     !.firstErr = TRUE]
    /\ pc' = [pc EXCEPT ![b] = "leaving"]
    /\ UNCHANGED <<attempt, err, sem, ctxDone, returned, stored>>

(* The counters, under the mutex.                                          *)
Add(b) ==
    /\ pc[b] = "adding"
    /\ totals' = IF err[b] = "" THEN [totals EXCEPT !.sent = @ + SizeOf[b]]
                 ELSE [totals EXCEPT !.failed = @ + SizeOf[b], !.reqFailed = @ + 1,
                                     !.firstErr = TRUE]
    /\ pc' = [pc EXCEPT ![b] = "leaving"]
    /\ UNCHANGED <<attempt, err, sem, ctxDone, returned, stored>>

(* Mutant: a failed batch keeps its slot.                                  *)
Leave_OnSuccess(b) ==
    /\ pc[b] = "leaving"
    /\ sem' = IF err[b] = "" THEN sem - 1 ELSE sem
    /\ pc' = [pc EXCEPT ![b] = "finished"]
    /\ UNCHANGED <<attempt, err, ctxDone, returned, totals, stored>>

(* <-sem, then wg.Done().                                                  *)
Leave(b) ==
    /\ pc[b] = "leaving"
    /\ sem' = sem - 1
    /\ pc' = [pc EXCEPT ![b] = "finished"]
    /\ UNCHANGED <<attempt, err, ctxDone, returned, totals, stored>>

Return ==
    /\ ~returned
    /\ \A b \in Batches : pc[b] = "finished"
    /\ returned' = TRUE
    /\ UNCHANGED <<pc, attempt, err, sem, ctxDone, totals, stored>>


Batch(b) ==
    \/ StartBatch(b) \/ Once(b)
    \/ Retry(b) \/ StopRetrying(b) \/ Add(b) \/ Leave(b)

--------------------------------------------------------------------------------
(* What the composition (TenantRun) says about it.                         *)

SizeOfAll(S) == SumFunction([b \in S |-> SizeOf[b]])
Added     == {b \in Batches : pc[b] \in {"leaving", "finished"}}
Succeeded == {b \in Added : err[b] = ""}

(* Type invariant.                                                         *)
TypeOK ==
    /\ pc \in [Batches -> {"not started", "sending", "backing off",
                          "adding", "leaving", "finished"}]
    /\ attempt \in [Batches -> 0..Attempts]
    /\ err \in [Batches -> Errors \cup {""}]
    /\ sem \in 0..InFlight
    /\ sem = Cardinality({b \in Batches : pc[b] \notin {"not started", "finished"}})
================================================================================
