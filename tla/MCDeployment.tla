----------------------------- MODULE MCDeployment ------------------------------
(* DeploymentController on small instances.                                  *)
EXTENDS DeploymentController

CONSTANTS k1, w1, w2, r1, r2, e1, e2, img, net, c1, c2, c3, Empty, o1, o2, b, There,
          t1, t2, d1

MCSpecs == [want : Want, force : BOOLEAN]
Owners == [k \in Key |-> Specs \ {[want |-> w2, force |-> TRUE]}]

\* w1 has one container and w2 two; the Role r1 names one Release or the other.
MCRolesOf == (w1 :> <<r1>>) @@ (w2 :> <<r1, r2>>)
NoImports == (w1 :> <<<<>>>>) @@ (w2 :> <<<<>>, <<>>>>)
NamelessImport == [NoImports EXCEPT ![w1] = <<<<NoName>>>>]
MCImageOf == [w \in Want |-> img]
MCAZsOf == [w \in Want |-> <<>>]
MCRestOf == [w \in Want |-> <<net>>]
MCReleaseOf == (c1 :> e1) @@ (c2 :> e2) @@ (c3 :> e2)
MCContentOf == (r1 :> {c1, c2}) @@ (r2 :> {c3}) @@ (e1 :> {Empty, o1}) @@ (e2 :> {o2})
               @@ (img :> {b}) @@ (net :> {There}) @@ (NoName :> {})

\* All is there, but the original spec of a Release is not stored yet, and the
\* Network may be missing.
MostThere == {(r1 :> c1) @@ (r2 :> c3) @@ (e1 :> Empty) @@ (e2 :> o2) @@ (img :> b) @@ (net :> x)
              @@ (NoName :> None) : x \in {There, None}}
OneTeam == {(t1 :> d1) @@ (t2 :> None)}

\* Or a second Team is there, and nobody can log in until one of them goes.
OneOrTwo == OneTeam \union {(t1 :> d1) @@ (t2 :> d1)}

=============================================================================
