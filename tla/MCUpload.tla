------------------------------- MODULE MCUpload -------------------------------
(* UploadController on small instances.                                     *)
EXTENDS UploadController, TLC

CONSTANTS k1, s1, s2, s3, a1, a2

\* s1 and s2 name the same artifact from two urls, s3 another one.
MCSpecs == {s1, s2, s3}
MCArtifacts == {a1, a2}
MCDeclared == (s1 :> a1) @@ (s2 :> a1) @@ (s3 :> a2)

\* The owner submits every spec.
OneOwner == [k \in Key |-> MCSpecs]

=============================================================================
