--------------------------- MODULE MCRuleOutputCount ---------------------------
(* Two tenants, three chunks: tenant a's two names in chunks of their own  *)
(* plus a second name in the first chunk, tenant b's single name; two      *)
(* slots, so that one goroutine always has to wait.                        *)
EXTENDS RuleOutputCount, TLC

MCJobs == 1..3
MCPairs == {<<"a", "m1">>, <<"a", "m2">>, <<"b", "m1">>, <<"a", "m3">>}
MCPairsOf == 1 :> {<<"a", "m1">>, <<"a", "m2">>} @@ 2 :> {<<"a", "m3">>} @@ 3 :> {<<"b", "m1">>}
================================================================================
