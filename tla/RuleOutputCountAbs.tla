-------------------------- MODULE RuleOutputCountAbs ---------------------------
(***************************************************************************)
(* What ruleoutput.Count promises, with no goroutine, semaphore or mutex:  *)
(* the pairs of one chunk are settled together and once, each with a count *)
(* or a reason of its own, and the map is handed to the caller only when   *)
(* nothing is missing, after which it never changes.                       *)
(***************************************************************************)
CONSTANTS Jobs, PairsOf, Pairs, Results, Missing

VARIABLES entries, handed

Init ==
    /\ entries = [p \in Pairs |-> Missing]
    /\ handed = FALSE

Settle(j) ==
    /\ ~handed
    /\ \A p \in PairsOf[j] : entries[p] = Missing
    /\ \E r \in [PairsOf[j] -> Results] :
        entries' = [p \in Pairs |-> IF p \in PairsOf[j] THEN r[p] ELSE entries[p]]
    /\ UNCHANGED handed

HandOver ==
    /\ ~handed
    /\ \A p \in Pairs : entries[p] # Missing
    /\ handed' = TRUE
    /\ UNCHANGED entries

Next == HandOver \/ \E j \in Jobs : Settle(j)

Safety == Init /\ [][Next]_<<entries, handed>>

Spec == Safety /\ WF_<<entries, handed>>(Next)
================================================================================
