-------------------------------- MODULE MCTeam --------------------------------
(* TeamController on small instances.                                       *)
EXTENDS TeamController, TLC

CONSTANTS k1, k2, d1, d2, u1, u2, p1, p2, p3, p4

\* Two Directors with a UAA each.
Fixed == [d \in Specs |-> IF d = d1 THEN {u1} ELSE {u2}]

OneOwner == [k \in Key |-> Specs]

=============================================================================
