--------------------------- MODULE MCRuleOutputReport --------------------------
(* The ruler API: up to three definitions of one tenant, in one group of   *)
(* two namespaces, over three metrics of different lengths; two tenants,   *)
(* one named twice or blank, with a second group; an unknown type and a    *)
(* query that does not parse.                                              *)
(* A directory: up to two files, flat or in one of two namespaces, broken, *)
(* empty or with one or two rules, under three discovery chains and every  *)
(* policy.  Byte caps below one name, at exactly two names and above all.  *)
EXTENDS RuleOutputReport, TLC

Def(f, g, k, n) == [file |-> f, group |-> g, kind |-> k, name |-> n, parses |-> TRUE]
Unparsed(f) == [Def(f, 1, "recording", 1) EXCEPT !.parses = FALSE]

Recording == {Def(f, 1, "recording", n) : f \in 1..2, n \in 1..3}
Defs == Recording \cup {Def(1, 1, "alerting", 1)}
Bad == {Unparsed(1), Def(1, 1, "other", 2)}

NoDir == [dir |-> FALSE, url |-> TRUE, files |-> <<>>, discovery |-> <<>>, unmapped |-> [mode |-> "error", fallback |-> NoTenant]]
Api(ts, h) == NoDir @@ [tenants |-> ts, has |-> h]

ApiSources ==
    {Api(<<1>>, 1 :> ds) : ds \in BoundedSeq(Defs, 3)}
    \cup {Api(ts, 1 :> <<d1, d2>> @@ 2 :> ds) : ts \in {<<1, 0, 2>>, <<1, 2, 1>>},
            d1 \in Recording, d2 \in Bad \cup {Def(1, 1, "alerting", 1), Def(1, 2, "recording", 1)},
            ds \in BoundedSeq({Def(1, 1, "recording", 1), Def(1, 1, "alerting", 2)}, 1)}
    \cup {Api(<<0>>, <<>>), Api(<<>>, <<>>), [Api(<<1>>, 1 :> <<>>) EXCEPT !.url = FALSE]}

(* A rule's file is the one at that place of the directory.                *)
File(ns, b, ds) == [namespace |-> ns, broken |-> b, rules |-> ds]
Files(f) == {File(ns, FALSE, ds) : ns \in 0..2,
                ds \in {<<>>, <<Def(f, 1, "recording", 1)>>, <<Unparsed(f)>>,
                        <<Def(f, 2, "recording", 1), Def(f, 1, "alerting", 2)>>}}
            \cup {File(1, TRUE, <<>>)}
Dirs == {<<>>} \cup {<<f>> : f \in Files(1)} \cup Files(1) \X Files(2)
Chains == {<<>>,
           <<[kind |-> "namespace", map |-> 1 :> 2], [kind |-> "static", map |-> 1 :> 1]>>,
           <<[kind |-> "static", map |-> 0 :> 0], [kind |-> "static", map |-> 0 :> 1 @@ 1 :> 2]>>}
Policies == {[mode |-> m, fallback |-> IF m = "tenant" THEN 2 ELSE NoTenant] : m \in {"error", "skip", "tenant", "unknown"}}

DirSources == {[dir |-> TRUE, url |-> TRUE, files |-> fs, discovery |-> c, unmapped |-> p, tenants |-> <<>>, has |-> <<>>] :
                    fs \in Dirs, c \in Chains, p \in Policies}

MCSources == ApiSources \cup DirSources
MCNames == 1..3
MCRegexLen == <<2, 5, 3>>
MCDenominators == {None, 1 :> 4, 1 :> 0 @@ 2 :> 8}
================================================================================
