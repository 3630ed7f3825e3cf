------------------------------ MODULE RulerReplace -----------------------------
(***************************************************************************)
(* How the load generator pushes a tenant's rules (rulerClient.replace and *)
(* the retry loop around it in runTenant): delete the namespace, push the  *)
(* groups one by one, and on any error start over after a pause, until the *)
(* tenant's context is done.                                               *)
(*                                                                         *)
(* The ruler (external) answers a request it applied, refuses one, or the  *)
(* client gives up on one that the ruler has applied, will never see, or   *)
(* applies later, when the client has moved on.                            *)
(***************************************************************************)
EXTENDS Integers, FiniteSets

CONSTANTS
    Groups,     \* 1..n: the groups of the profile, in order
    Stale,      \* groups an earlier profile left in the namespace
    MaxLate     \* bound: requests the ruler has taken in and not yet applied

(* Assumed of the constants (by TenantRun).                                *)
GroupsAssumption ==
    /\ 1 \in Groups /\ Groups = 1..Cardinality(Groups)
    /\ Stale \cap Groups = {}

VARIABLES
    namespace,  \* the ruler's groups in the namespace
    late,       \* requests the client gave up on and the ruler has yet to apply
    next,       \* the request to make next
    phase,      \* where the retry loop is
    ctxDone,
    taken       \* observed: pushes accepted since the latest accepted delete

vars == <<namespace, late, next, phase, ctxDone, taken>>

Delete == 0                 \* the DELETE; a POST is its group
Requests == {Delete} \cup Groups

Init ==
    /\ namespace \in SUBSET (Groups \cup Stale)
    /\ late = {} /\ taken = {}
    /\ next = Delete /\ phase = "replacing" /\ ctxDone = FALSE

Applied(r, groups) == IF r = Delete THEN {} ELSE groups \cup {r}

(* 202, and for the delete also 404: on to the next request.               *)
Succeeds ==
    /\ phase = "replacing" /\ ~ctxDone
    /\ namespace' = Applied(next, namespace)
    /\ taken' = Applied(next, taken)
    /\ \/ next + 1 \in Groups /\ next' = next + 1 /\ UNCHANGED phase
       \/ next + 1 \notin Groups /\ next' = Delete /\ phase' = "pushed"
    /\ UNCHANGED <<late, ctxDone>>

(* Mutant: the pause may be chosen although the context is done.           *)
Fails_Sleeps ==
    /\ phase = "replacing"
    /\ \/ UNCHANGED <<namespace, late>>
       \/ ~ctxDone /\ namespace' = Applied(next, namespace) /\ UNCHANGED late
       \/ ~ctxDone /\ Cardinality(late) < MaxLate /\ late' = late \cup {next} /\ UNCHANGED namespace
    /\ phase' = "pausing"
    /\ UNCHANGED <<next, ctxDone, taken>>

(* Any error ends this attempt.  With the context done already the select  *)
(* has no pause to choose.                                                 *)
Fails ==
    /\ phase = "replacing"
    /\ \/ UNCHANGED <<namespace, late>>
       \/ ~ctxDone /\ namespace' = Applied(next, namespace) /\ UNCHANGED late
       \/ ~ctxDone /\ Cardinality(late) < MaxLate /\ late' = late \cup {next} /\ UNCHANGED namespace
    /\ phase' = IF ctxDone THEN "leaving" ELSE "pausing"
    /\ UNCHANGED <<next, ctxDone, taken>>

(* Mutant: a retry takes the delete for done.                              *)
Retry_NoDelete ==
    /\ phase = "pausing"
    /\ phase' = "replacing" /\ next' = 1
    /\ UNCHANGED <<namespace, late, ctxDone, taken>>

(* Mutant: a retry goes on behind the request that failed.                 *)
Retry_GoesOn ==
    /\ phase = "pausing"
    /\ phase' = "replacing" /\ next' = IF next + 1 \in Groups THEN next + 1 ELSE next
    /\ UNCHANGED <<namespace, late, ctxDone, taken>>

Retry ==
    /\ phase = "pausing"
    /\ phase' = "replacing" /\ next' = Delete
    /\ UNCHANGED <<namespace, late, ctxDone, taken>>

GiveUp ==
    /\ phase \in {"pausing", "leaving"} /\ ctxDone
    /\ phase' = "given up"
    /\ UNCHANGED <<namespace, late, next, ctxDone, taken>>

Arrives(r) ==
    /\ r \in late
    /\ late' = late \ {r}
    /\ namespace' = Applied(r, namespace)
    /\ UNCHANGED <<next, phase, ctxDone, taken>>

Client == Succeeds \/ Fails \/ Retry \/ GiveUp

--------------------------------------------------------------------------------
(* Properties.                                                             *)

(* Type invariant.                                                         *)
TypeOK ==
    /\ namespace \subseteq Groups \cup Stale
    /\ late \subseteq Requests
    /\ next \in Requests
    /\ phase \in {"replacing", "pausing", "leaving", "pushed", "given up"}
    /\ taken \subseteq Groups
================================================================================
