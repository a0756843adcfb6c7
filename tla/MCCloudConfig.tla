----------------------------- MODULE MCCloudConfig -----------------------------
(* CloudConfigController on small instances.                                 *)
EXTENDS CloudConfigController, TLC

CONSTANTS k1, k2, s1, s2, a, b, c

\* k1 is the resource c of namespace a-b; k2 is c of a, or b-c of a.
Namespaces == [k \in Key |-> IF k = k1 THEN <<a, b>> ELSE <<a>>]
Apart == [k \in Key |-> <<c>>]
Ambiguous == [k \in Key |-> IF k = k1 THEN <<c>> ELSE <<b, c>>]

\* The owner of k1 edits its spec, or each owner has one spec.
Owners == [k \in Key |-> IF k = k1 THEN {s1, s2} ELSE {s2}]
OneSpec == [k \in Key |-> IF k = k1 THEN {s1} ELSE {s2}]

=============================================================================
