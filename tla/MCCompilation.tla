----------------------------- MODULE MCCompilation -----------------------------
(* CompilationController on small instances.                                 *)
EXTENDS CompilationController, TLC

CONSTANTS k1, s1, s2, s3, d1, d2

\* Two settings for one Director, and a spec that names another.
MCDirectorOf == (s1 :> d1) @@ (s2 :> d1) @@ (s3 :> d2)
Owners == [k \in Key |-> Specs]

=============================================================================
