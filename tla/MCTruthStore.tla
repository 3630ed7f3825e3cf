------------------------------ MODULE MCTruthStore -----------------------------
(* One tenant that pushes rules, starts late and has a planned stop, so    *)
(* that all three savers run; or two tenants without a planned stop, of    *)
(* which a start may select one.  Two lifetimes.                           *)
EXTENDS TruthStore, TLC

MCTenant     == {"a"}
MCStartAfter == "a" :> 1
MCStopAfter  == "a" :> 3

MCTenants == {"a", "b"}
MCAtOnce  == [t \in MCTenants |-> 0]
MCSubsets == {{"a", "b"}, {"b"}}
================================================================================
