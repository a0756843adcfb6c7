------------------------------- MODULE MCNetwork -------------------------------
(* NetworkController on small instances.                                     *)
EXTENDS NetworkController

CONSTANTS k1, r1, r2, c, manual

MCFields == {r1, r2, c, manual}

NetworkOf(dns1, dns2) ==
    [type |-> manual,
     subnets |-> <<[range |-> r1, lists |-> <<dns1, <<>>, <<>>, <<1>>>>, cloud |-> c],
                   [range |-> r2, lists |-> <<dns2, <<>>, <<>>, <<1>>>>, cloud |-> c]>>]

\* What the owner writes: a network, the same in another order, and another
\* network, which differs in the first subnet.
Written == {NetworkOf(<<2, 1>>, <<2, 1>>), NetworkOf(<<1, 2>>, <<2, 1>>),
            NetworkOf(<<3, 1>>, <<2, 1>>)}
Owners == [k \in Key |-> Written]

\* What sorting in place can make of them.
MCSpecs == {NetworkOf(d, e) : d \in {<<1, 2>>, <<2, 1>>, <<1, 3>>, <<3, 1>>},
                            e \in {<<1, 2>>, <<2, 1>>}}

=============================================================================
