-------------------------- MODULE DirectorController ---------------------------
(***************************************************************************)
(* The Director reconciler.  A Director resource stands for the operator's *)
(* access to a Director and its UAA; all the reconciler does is to make    *)
(* and to delete the Team of the operators, a resource of another kind     *)
(* next to the Director's.  The spec of a Director resource is the UAA it  *)
(* points to; there is no status.                                          *)
(***************************************************************************)
EXTENDS Controller

CONSTANTS
    TeamKey,  \* the Team resources
    TeamOf    \* TeamOf[d]: the Team generated for d

VARIABLE teams   \* the Team objects on the API server

-----------------------------------------------------------------------------
Get(d) ==
    /\ Dequeue(d)
    /\ \/ ~ cache[d].live /\ Goto(d, "idle", cache[d])
       \/ cache[d].live /\ cache[d].del /\ Goto(d, "deleteTeam", cache[d])
       \/ cache[d].live /\ ~ cache[d].del /\ Goto(d, "finalize", cache[d])
    /\ UNCHANGED <<api, cache, faults, teams>>

\* Mutant: only a Director that is new is given a Team.
EnsureFinalizerOnce(d) ==
    /\ pc[d] = "finalize"
    /\ UpdateIfFinalizer(d, TRUE, IF mem[d].fin THEN "idle" ELSE "createTeam")
    /\ UNCHANGED teams

EnsureFinalizer(d) ==
    /\ pc[d] = "finalize"
    /\ UpdateIfFinalizer(d, TRUE, "createTeam")
    /\ UNCHANGED teams

\* Mutant: the Team is made for what the Director points to.
CreateTeamOfSpec(d) ==
    /\ pc[d] = "createTeam"
    /\ teams' = [teams EXCEPT ![TeamOf[d]] =
                    IF @.live THEN @
                    ELSE [Absent(@.rv + 1) EXCEPT !.live = TRUE, !.spec = mem[d].spec]]
    /\ Goto(d, "idle", mem[d])
    /\ UNCHANGED <<api, cache, queue, faults>>

\* A Team that is there already will do, in whatever state it is.
CreateTeam(d) ==
    /\ pc[d] = "createTeam"
    /\ teams' = [teams EXCEPT ![TeamOf[d]] =
                    IF @.live THEN @
                    ELSE [Absent(@.rv + 1) EXCEPT !.live = TRUE, !.spec = d]]
    /\ Goto(d, "idle", mem[d])
    /\ UNCHANGED <<api, cache, queue, faults>>

\* Mutants: the Team stays; it goes at once, with its finalizer; there must be
\* one to delete.
DeleteTeamSkipped(d) ==
    /\ pc[d] = "deleteTeam"
    /\ Goto(d, "unfinalize", mem[d])
    /\ UNCHANGED <<api, cache, queue, faults, teams>>

DeleteTeamForced(d) ==
    /\ pc[d] = "deleteTeam"
    /\ teams' = [teams EXCEPT ![TeamOf[d]] = IF @.live THEN Absent(@.rv + 1) ELSE @]
    /\ Goto(d, "unfinalize", mem[d])
    /\ UNCHANGED <<api, cache, queue, faults>>

DeleteTeamStrictly(d) ==
    /\ pc[d] = "deleteTeam"
    /\ \/ /\ teams[TeamOf[d]].live
          /\ teams' = [teams EXCEPT ![TeamOf[d]] =
                          IF @.del \/ ~ @.fin THEN Absent(@.rv + 1)
                          ELSE [@ EXCEPT !.rv = @ + 1, !.del = TRUE]]
          /\ Goto(d, "unfinalize", mem[d])
          /\ UNCHANGED queue
       \/ /\ ~ teams[TeamOf[d]].live
          /\ Retry(d)
          /\ UNCHANGED teams
    /\ UNCHANGED <<api, cache, faults>>

\* Deleting a Team that has its finalizer only marks it, and the Director does
\* not wait for it to go.
DeleteTeam(d) ==
    LET t == teams[TeamOf[d]] IN
    /\ pc[d] = "deleteTeam"
    /\ \/ (~ t.live \/ t.del) /\ UNCHANGED teams
       \/ /\ t.live /\ ~ t.del
          /\ teams' = [teams EXCEPT ![TeamOf[d]] =
                          IF t.fin THEN [t EXCEPT !.rv = t.rv + 1, !.del = TRUE]
                                   ELSE Absent(t.rv + 1)]
    /\ Goto(d, "unfinalize", mem[d])
    /\ UNCHANGED <<api, cache, queue, faults>>

EnsureNoFinalizer(d) ==
    /\ pc[d] = "unfinalize"
    /\ UpdateIfFinalizer(d, FALSE, "idle")
    /\ UNCHANGED teams

Step(d) ==
    \/ EnsureFinalizer(d) \/ CreateTeam(d)
    \/ DeleteTeam(d) \/ EnsureNoFinalizer(d)

=============================================================================
