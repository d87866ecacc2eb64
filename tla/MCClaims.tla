------------------------------ MODULE MCClaims ------------------------------
(* Instances of Claims: one key that one owner delegates to again and again, *)
(* and two keys, one of which two owners delegate to in turn.                *)
EXTENDS Claims

CONSTANTS k1, k2, o1, o2

OneKey == {{<<k1, o1>>}}
TwoOwners == {{<<k1, o1>>, <<k1, o2>>, <<k2, o2>>}}

\* The owners upload nothing themselves, and one request is under way at a time.
OneByOne == upload = {} /\ recent = {} /\ \A j, k \in Keys : "none" \in {request[j], request[k]} \/ j = k
=============================================================================
