------------------------------- MODULE MCTenancy -------------------------------
(* Tenancy on a small instance: one Director, its UAA and its Team.          *)
EXTENDS Tenancy

CONSTANTS d1, t1, u1

Generated == [d \in Director |-> t1]
Points == [d \in Director |-> {u1}]

=============================================================================
