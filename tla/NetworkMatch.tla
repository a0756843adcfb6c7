------------------------------ MODULE NetworkMatch ------------------------------
(***************************************************************************)
(* The comparison of two Network specs.  A spec is a type and a sequence   *)
(* of subnets; of a subnet, `range' stands for the fields that are         *)
(* compared first, `lists' for DNS, reserved, static and AZs in this       *)
(* order, and `cloud' for what is compared last.  The words of a list are  *)
(* numbers, the other fields are compared as they are.                     *)
(*                                                                         *)
(* The lists are sorted where they are, in both specs, before they are     *)
(* compared, and the comparison ends at the first difference: what a call  *)
(* leaves of the two specs is part of its result.                          *)
(***************************************************************************)
EXTENDS Integers, SequencesExt

CONSTANT Fields   \* what a type, a range or cloud properties can be

Lists == 1..4

Subnet == [range : Fields, lists : [Lists -> Seq(Nat)], cloud : Fields]
Network == [type : Fields, subnets : Seq(Subnet)]

\* The sequence that has the elements of s in ascending order.
Ascending(s) ==
    CHOOSE t \in [DOMAIN s -> ToSet(s)] :
        ToBag(t) = ToBag(s) /\ \A i, j \in DOMAIN t : i < j => t[i] <= t[j]

Agree(s, t) == Len(s) = Len(t) /\ Ascending(s) = Ascending(t)

MatchSubnet(s1, s2) ==
    LET differing == {i \in Lists : ~ Agree(s1.lists[i], s2.lists[i])}
        Sorts(i) == /\ s1.range = s2.range
                    /\ \A j \in differing : i <= j
                    /\ Len(s1.lists[i]) = Len(s2.lists[i])
        After(s) == [s EXCEPT !.lists =
                        [i \in Lists |-> IF Sorts(i) THEN Ascending(@[i]) ELSE @[i]]]
    IN  [ok |-> s1.range = s2.range /\ differing = {} /\ s1.cloud = s2.cloud,
         left |-> After(s1), right |-> After(s2)]

Match(n1, n2) ==
    LET comparable == n1.type = n2.type /\ Len(n1.subnets) = Len(n2.subnets)
        Subnets(i) == MatchSubnet(n1.subnets[i], n2.subnets[i])
        differing == {i \in DOMAIN n1.subnets : comparable /\ ~ Subnets(i).ok}
        Reaches(i) == comparable /\ \A j \in differing : i <= j
    IN  [ok |-> comparable /\ differing = {},
         left |-> [n1 EXCEPT !.subnets =
                     [i \in DOMAIN @ |-> IF Reaches(i) THEN Subnets(i).left ELSE @[i]]],
         right |-> [n2 EXCEPT !.subnets =
                     [i \in DOMAIN @ |-> IF Reaches(i) THEN Subnets(i).right ELSE @[i]]]]

-----------------------------------------------------------------------------
\* What match is to decide: the same network, but for the order within lists.
SameSubnet(s1, s2) ==
    /\ s1.range = s2.range
    /\ s1.cloud = s2.cloud
    /\ \A j \in Lists : ToBag(s1.lists[j]) = ToBag(s2.lists[j])

Same(n1, n2) ==
    /\ n1.type = n2.type
    /\ Len(n1.subnets) = Len(n2.subnets)
    /\ \A i \in DOMAIN n1.subnets : SameSubnet(n1.subnets[i], n2.subnets[i])

=============================================================================
