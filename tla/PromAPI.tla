-------------------------------- MODULE PromAPI --------------------------------
(***************************************************************************)
(* promapi.Client: one instant query of Mimir's query API, from what comes *)
(* back over the wire to samples or an error.  A response is               *)
(*   [reached, status, decodes, api, type, result]                         *)
(* with reached false when the request or the client's timeout failed, and *)
(* a sample's pair is [kind, number], the kind of its second element.      *)
(***************************************************************************)
CONSTANTS None      \* nil, an empty string

(* Sample.Float refuses a pair of the wrong length, a value that is not a  *)
(* string or does not parse, NaN and the infinities.                       *)
Float(smp) == IF smp.pair.kind = "finite" THEN smp.pair.number ELSE None

(* Instant.  A responder that is not Prometheus may leave resultType out;  *)
(* any other type than a vector would decode into samples without values.  *)
Instant(resp) ==
    IF /\ resp.reached /\ resp.status = 200 /\ resp.decodes
       /\ resp.api = "success"
       /\ resp.type \in {"", "vector"}
    THEN [ok |-> TRUE, samples |-> resp.result]
    ELSE [ok |-> FALSE, samples |-> <<>>]
================================================================================
