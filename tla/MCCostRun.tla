------------------------------- MODULE MCCostRun -------------------------------
(* Every selection of pools with and without --rule-outputs, and requests  *)
(* that each break one rule; two tenants and responses without samples,    *)
(* with samples of which none is usable, all zero and with a positive one; *)
(* an inventory that prices every pool, one that prices none and one that  *)
(* Validate refuses, with and without the operator's word on where rules   *)
(* are evaluated.                                                          *)
EXTENDS CostRun, TLC

MCResponses == {[any |-> FALSE, drivers |-> <<>>],
                [any |-> TRUE,  drivers |-> <<>>],
                [any |-> TRUE,  drivers |-> "a" :> 0],
                [any |-> TRUE,  drivers |-> "a" :> 1 @@ "b" :> 0]}

Ask1 == [pools |-> {}, window |-> "24h", sound |-> TRUE, selector |-> FALSE,
         ruleOutputs |-> FALSE, definitions |-> "none", concurrency |-> 1]
Outputs == [Ask1 EXCEPT !.ruleOutputs = TRUE, !.definitions = "tenants"]

MCRequests ==
    {[r EXCEPT !.pools = p] : r \in {Ask1, Outputs}, p \in SUBSET KnownPools}
    \cup {[Ask1 EXCEPT !.sound = FALSE], [Ask1 EXCEPT !.selector = TRUE],
          [Ask1 EXCEPT !.definitions = "dir"],
          [Outputs EXCEPT !.definitions = "none"], [Outputs EXCEPT !.concurrency = 0]}

Flat(r, p) == [replicas |-> r, price |-> p, components |-> <<>>]
Inv(c, evaluation, pools) ==
    [currency |-> c, rf |-> None, platform |-> 10, ruleEvaluation |-> evaluation, pools |-> pools]
AllPriced == PoolIngesterMemory :> Flat(3, 1) @@ PoolQueryPath :> Flat(1, 4) @@ PoolRulerCPU :> Flat(1, 2)

MCInventories == {Inv("EUR", "", AllPriced), Inv("EUR", "remote", AllPriced), Inv("EUR", "", <<>>),
                  Inv("", "", AllPriced)}
================================================================================
