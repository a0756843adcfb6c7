------------------------------- MODULE Lifecycle -------------------------------
(***************************************************************************)
(* What a reconciler of this repository promises its users: a custom       *)
(* resource stands for something outside Kubernetes (a release or an AZ on *)
(* a BOSH Director, a client of a UAA), which is made only after the       *)
(* resource has claimed it, destroyed only when the owner has asked for    *)
(* it, and gone before the resource is.                                    *)
(***************************************************************************)
CONSTANT Key   \* the custom resources

VARIABLES
    phase,  \* what the API server shows of a resource
    ext     \* whether its external counterpart exists

vars == <<phase, ext>>

Phases == {"none", "declared", "claimed", "terminating"}

TypeOK ==
    /\ phase \in [Key -> Phases]
    /\ ext \in [Key -> BOOLEAN]

Init ==
    /\ phase = [k \in Key |-> "none"]
    /\ ext = [k \in Key |-> FALSE]

Move(k, from, to) ==
    /\ phase[k] = from
    /\ phase' = [phase EXCEPT ![k] = to]
    /\ UNCHANGED ext

\* The owner declares the resource, may withdraw it while it is unclaimed,
\* and asks for a claimed one to be terminated.
Declare(k) == Move(k, "none", "declared")
Withdraw(k) == Move(k, "declared", "none")
Terminate(k) == Move(k, "claimed", "terminating")

\* The controller claims the resource with its finalizer.
Claim(k) == Move(k, "declared", "claimed")

\* A reconciliation that started before the owner's request may still
\* provision for a resource that is already terminating.
Provision(k) ==
    /\ phase[k] \in {"claimed", "terminating"}
    /\ ext' = [ext EXCEPT ![k] = TRUE]
    /\ UNCHANGED phase

Deprovision(k) ==
    /\ phase[k] = "terminating"
    /\ ext' = [ext EXCEPT ![k] = FALSE]
    /\ UNCHANGED phase

Finish(k) ==
    /\ ~ ext[k]
    /\ Move(k, "terminating", "none")

Next ==
    \E k \in Key : \/ Declare(k) \/ Withdraw(k) \/ Terminate(k) \/ Claim(k)
                   \/ Provision(k) \/ Deprovision(k) \/ Finish(k)

Spec == Init /\ [][Next]_vars

=============================================================================
