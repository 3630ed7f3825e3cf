------------------------------- MODULE RuleLoading ------------------------------
(***************************************************************************)
(* Where a report's rule definitions come from: newDefinitionsSource picks *)
(* the directory loader or the ruler API loader, which visits its files or *)
(* tenants in order.  A source that fails is remembered and the loader     *)
(* goes on; the command refuses the load when any source failed.           *)
(*                                                                         *)
(* A directory's namespaces map to tenants through the discovery chain and *)
(* the unmapped policy.  Files, namespaces, tenants, groups and names are  *)
(* numbers, 0 standing for "".  A definition's file is its path, or at the *)
(* ruler its namespace; its group's interval is left out.                  *)
(***************************************************************************)
EXTENDS Ordering, SequencesExt, Functions

CONSTANTS
    Sources     \* the definition sources a command line and a config may name

NoTenant == 0

VARIABLES
    source,     \* flags, config, and what the files or the ruler hold
    at,         \* observed: the position of the next file or tenant
    rules,      \* []rule.AnnotatedRule
    loadErrs,   \* observed: the positions that gave a LoadError
    phase       \* "start", "loading", then "loaded" or "refused"

loadVars == <<source, at, rules, loadErrs, phase>>

(* splitTenants drops blanks; it does not drop repeats.                    *)
SplitTenants(list) == At(list, {k \in DOMAIN list : list[k] # NoTenant})

LoadInit ==
    /\ source \in Sources
    /\ at = 1 /\ rules = <<>> /\ loadErrs = {} /\ phase = "start"

(* ParseUnmappedPolicy knows three policies.                               *)
PolicyParses == source.unmapped.mode \in {"error", "skip", "tenant"}

(* newDefinitionsSource: an unknown unmapped policy, no tenant or no       *)
(* backend to ask, one whose credentials cannot be read included, is an    *)
(* error.                                                                  *)
NewDefinitionsSource ==
    /\ phase = "start"
    /\ phase' = IF IF source.dir THEN PolicyParses ELSE source.url /\ SplitTenants(source.tenants) # <<>>
                THEN "loading" ELSE "refused"
    /\ UNCHANGED <<source, at, rules, loadErrs>>

--------------------------------------------------------------------------------
(* The directory loader.                                                   *)

(* A source of the discovery chain that is not static never matches.       *)
Maps(i, ns) == source.discovery[i].kind = "static" /\ ns \in DOMAIN source.discovery[i].map

(* The first source that maps the namespace.                               *)
Resolve(ns) ==
    LET hits == {i \in DOMAIN source.discovery : Maps(i, ns)}
    IN  IF hits = {} THEN [ok |-> FALSE, tenant |-> NoTenant]
        ELSE [ok |-> TRUE, tenant |-> source.discovery[Min(hits)].map[ns]]

(* UnmappedPolicy.Apply: what becomes of a file, and for whom it is kept.  *)
Apply(r) ==
    IF r.ok THEN [verdict |-> "keep", tenant |-> r.tenant]
    ELSE CASE source.unmapped.mode = "skip"   -> [verdict |-> "drop", tenant |-> NoTenant]
           [] source.unmapped.mode = "tenant" -> [verdict |-> "keep", tenant |-> source.unmapped.fallback]
           [] OTHER                           -> [verdict |-> "error", tenant |-> NoTenant]

Annotated(d, t) == [tenant |-> t, file |-> d.file, group |-> d.group, kind |-> d.kind, name |-> d.name]

Annotate(ds, t) == [k \in DOMAIN ds |-> Annotated(ds[k], t)]

(* External: rulefmt.ParseFile rejects a file it cannot read and one with  *)
(* a rule whose expression does not parse, so Load's own expression check  *)
(* never fails.                                                            *)
ParseFileFails(f) == f.broken \/ \E k \in DOMAIN f.rules : ~f.rules[k].parses

WalkDirFails ==
    /\ phase = "loading" /\ source.dir /\ at = 1
    /\ phase' = "refused"
    /\ UNCHANGED <<source, at, rules, loadErrs>>

LoadFile ==
    /\ phase = "loading" /\ source.dir /\ at <= Len(source.files)
    /\ LET f == source.files[at]
           a == Apply(Resolve(f.namespace))
           ok == ~ParseFileFails(f)
       IN  /\ loadErrs' = IF ~ok \/ a.verdict = "error" THEN loadErrs \cup {at} ELSE loadErrs
           /\ rules' = IF ok /\ a.verdict = "keep" THEN rules \o Annotate(f.rules, a.tenant) ELSE rules
    /\ at' = at + 1
    /\ UNCHANGED <<source, phase>>

--------------------------------------------------------------------------------
(* The ruler API loader.                                                   *)

FetchTenant ==
    /\ phase = "loading" /\ ~source.dir /\ at <= Len(SplitTenants(source.tenants))
    /\ at' = at + 1
    /\ UNCHANGED <<source, phase>>

Asked == SplitTenants(source.tenants)[at]

(* A request that fails, a bad status or an answer that does not decode.   *)
FetchFails == FetchTenant /\ loadErrs' = loadErrs \cup {at} /\ UNCHANGED rules

(* A definition of unknown type or with a query that does not parse is an  *)
(* error of its own; no definitions at all is none.                        *)
FetchAnswers ==
    /\ FetchTenant
    /\ LET ds   == source.has[Asked]
           good == {k \in DOMAIN ds : ds[k].kind \in {"recording", "alerting"} /\ ds[k].parses}
       IN  /\ rules' = rules \o Annotate(At(ds, good), Asked)
           /\ loadErrs' = IF good = DOMAIN ds THEN loadErrs ELSE loadErrs \cup {at}

--------------------------------------------------------------------------------

(* Mutant: the command reports on what did load.                           *)
LoadEnds_Lenient ==
    /\ phase = "loading"
    /\ at > Len(IF source.dir THEN source.files ELSE SplitTenants(source.tenants))
    /\ phase' = "loaded"
    /\ UNCHANGED <<source, at, rules, loadErrs>>

(* "N rule source(s) failed to load" when there is any load error.         *)
LoadEnds ==
    /\ phase = "loading"
    /\ at > Len(IF source.dir THEN source.files ELSE SplitTenants(source.tenants))
    /\ phase' = IF loadErrs = {} THEN "loaded" ELSE "refused"
    /\ UNCHANGED <<source, at, rules, loadErrs>>

Load == NewDefinitionsSource \/ WalkDirFails \/ LoadFile \/ FetchFails \/ FetchAnswers \/ LoadEnds

--------------------------------------------------------------------------------
(* What the load promises.                                                 *)

Accepted == phase \notin {"start", "loading", "refused"}

(* Whose a namespace is: its tenant in the first static map that names it, *)
(* or the policy's when none does.                                         *)
BelongsTo(ns, t) ==
    LET D == DOMAIN source.discovery
    IN  \/ \E i \in D : Maps(i, ns) /\ source.discovery[i].map[ns] = t /\ \A j \in 1..i - 1 : ~Maps(j, ns)
        \/ (\A i \in D : ~Maps(i, ns)) /\ source.unmapped = [mode |-> "tenant", fallback |-> t]

Skipped(ns) == source.unmapped.mode = "skip" /\ \A i \in DOMAIN source.discovery : ~Maps(i, ns)

(* No tenant's rules are understated by a source that failed: "silently    *)
(* dropping a tenant's rules would understate its rule output"             *)
(* (cost.go:261).  In a load that was accepted every definition of every   *)
(* file is there, for the tenant its namespace belongs to, save those of   *)
(* a namespace the policy skips; and every definition the ruler holds of   *)
(* every tenant named, as often as it is named.  Nothing else is.          *)
NothingLostInLoading ==
    Accepted =>
        IF source.dir
        THEN /\ \A i \in DOMAIN source.files :
                    LET f == source.files[i]
                    IN  \/ Skipped(f.namespace)
                        \/ \A k \in DOMAIN f.rules : \E r \in Range(rules) :
                            BelongsTo(f.namespace, r.tenant) /\ r = Annotated(f.rules[k], r.tenant)
             /\ Len(rules) = SumFunction([i \in DOMAIN source.files |->
                    IF Skipped(source.files[i].namespace) THEN 0 ELSE Len(source.files[i].rules)])
        ELSE LET asked == SplitTenants(source.tenants)
             IN  /\ \A t \in Range(source.tenants) \ {NoTenant} : \A k \in DOMAIN source.has[t] :
                        Annotated(source.has[t][k], t) \in Range(rules)
                 /\ Len(rules) = SumFunction([i \in DOMAIN asked |-> Len(source.has[asked[i]])])
================================================================================
