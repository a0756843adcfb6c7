-------------------------------- MODULE Tenancy --------------------------------
(***************************************************************************)
(* The Director and the Team reconcilers in one manager.  The Director     *)
(* reconciler makes and deletes Teams; the Team reconciler finds the UAA   *)
(* in the Director resource, which the Director reconciler lets go.        *)
(* Nobody else writes the generated Teams.                                 *)
(***************************************************************************)
EXTENDS Naturals

CONSTANTS
    Director,          \* the Director resources, by name
    TeamKey,           \* the Team resources
    TeamOf,            \* the Team generated for each Director
    UAA,               \* the UAA servers
    UAAsOf,            \* those each Director resource may point to
    Passwords, None,
    Versions,          \* bound: operators write only Directors that have one of these
    MaxFaults          \* bound: errors and crashes of each reconciler

ASSUME TenancyAssumption ==
    /\ TeamOf \in [Director -> TeamKey]
    /\ \A d, e \in Director : TeamOf[d] = TeamOf[e] => d = e
    /\ UAAsOf \in [Director -> SUBSET UAA]
    /\ None \notin Director \union UAA \union Passwords
    /\ Versions \subseteq Nat /\ MaxFaults \in Nat
    \* Passwords cannot all be in use (see TeamController).
    /\ \A used \in [TeamKey \X (UAA \union {None}) -> Passwords \union {None}] :
          \E p \in Passwords :
             p \notin {used[x] : x \in TeamKey \X (UAA \union {None})}

VARIABLES
    directors, dCache, dQueue, dPc, dMem, dFaults,   \* the Director kind
    teams, tCache, tQueue, tPc, tMem, tFaults,       \* the Team kind
    uaa, secret, work                                \* see TeamController

directorVars == <<dCache, dQueue, dPc, dMem, dFaults>>
teamVars == <<tCache, tQueue, tPc, tMem, tFaults, uaa, secret, work>>
vars == <<directors, directorVars, teams, teamVars>>

\* What the Team reconciler finds in a Director resource: both reconcilers
\* read one cache.
pointsTo == [d \in Director |-> IF dCache[d].live THEN dCache[d].spec ELSE None]

D == INSTANCE DirectorController WITH
        Key <- Director, Specs <- UAA, SpecsOf <- UAAsOf,
        api <- directors, cache <- dCache, queue <- dQueue, pc <- dPc, mem <- dMem,
        faults <- dFaults

T == INSTANCE TeamController WITH
        Key <- TeamKey, Specs <- Director, SpecsOf <- [t \in TeamKey |-> Director],
        Versions <- Nat,
        api <- teams, cache <- tCache, queue <- tQueue, pc <- tPc, mem <- tMem,
        faults <- tFaults,
        director <- pointsTo

TypeOK ==
    /\ D!CtrlTypeOK({"idle", "finalize", "createTeam", "deleteTeam", "unfinalize"})
    /\ T!TypeOK

Init == D!CtrlInit /\ T!Init

-----------------------------------------------------------------------------
ReconcileDirector(d) ==
    /\ D!Get(d) \/ D!Step(d)
    /\ UNCHANGED teamVars

ReconcileTeam(t) ==
    /\ UNCHANGED <<directors, directorVars>>
    /\ T!Get(t) \/ T!Step(t)

Operate(d) ==
    /\ D!UserCreate(d) \/ D!UserEdit(d) \/ D!UserDelete(d)
    /\ UNCHANGED <<teams, teamVars>>

WatchDirector(d) == D!Watch(d) /\ UNCHANGED <<teams, teamVars>>
ResyncDirector(d) == D!Resync(d) /\ UNCHANGED <<teams, teamVars>>
FailDirector(d) == D!Fail(d) /\ UNCHANGED <<teams, teamVars>>

\* What happens around the Team reconciler leaves these alone.
KeepRest == T!KeepWork /\ UNCHANGED <<directors, directorVars, uaa, secret>>

WatchTeam(t) == T!Watch(t) /\ KeepRest
ResyncTeam(t) == T!Resync(t) /\ KeepRest
FailTeam(t) == T!Fail(t) /\ KeepRest

\* The manager is one process.
Crash ==
    /\ D!Crash
    /\ T!Restart
    /\ UNCHANGED <<uaa, secret>>

Next ==
    \/ \E d \in Director :
          \/ ReconcileDirector(d) \/ Operate(d)
          \/ WatchDirector(d) \/ ResyncDirector(d) \/ FailDirector(d)
    \/ \E t \in TeamKey :
          ReconcileTeam(t) \/ WatchTeam(t) \/ ResyncTeam(t) \/ FailTeam(t)
    \/ Crash

Spec == Init /\ [][Next]_vars

\* The resync, which the other modules leave to chance, has to be counted on
\* here: nothing else tells the Director reconciler that a Team has gone.
Fairness ==
    /\ \A d \in Director :
          /\ WF_vars(D!Step(d) /\ UNCHANGED teamVars)
          /\ WF_vars(WatchDirector(d))
          /\ WF_vars(ResyncDirector(d))
          /\ SF_vars(D!Get(d) /\ UNCHANGED teamVars)
    /\ \A t \in TeamKey :
          /\ WF_vars(UNCHANGED <<directors, directorVars>> /\ T!Step(t))
          /\ WF_vars(WatchTeam(t))
          /\ SF_vars(UNCHANGED <<directors, directorVars>> /\ T!Get(t))

FairSpec == Spec /\ Fairness

-----------------------------------------------------------------------------
\* A generated Team that nobody deletes has its Director, with the finalizer
\* that makes the reconciler delete the Team first (README.md:82-84), through
\* outdated copies, crashes and the re-creation of the Director.
TeamHasDirector ==
    \A d \in Director :
        teams[TeamOf[d]].live /\ ~ teams[TeamOf[d]].del
            => directors[d].live /\ directors[d].fin

\* All that the Director reconciler and the operators do to Teams and UAAs is
\* what TeamController lets users and operators do: what is shown of Teams
\* there is true here.
ImplementsTeams == T!Spec

\* A deleted Director goes away.
DirectorDeletionCompletes ==
    \A d \in Director : directors[d].del ~> ~ directors[d].live

\* A Director that stays is given a Team that stays and becomes available
\* (README.md:78-82), even if the Team of a former Director of that name is
\* still terminating.
DirectorGetsTeam ==
    \A d \in Director :
        directors[d].live /\ [](directors[d].live /\ ~ directors[d].del)
            ~> [](teams[TeamOf[d]].avail /\ ~ teams[TeamOf[d]].del)

\* "Deleting a Director will delete the Team that was generated"
\* (README.md:82-84).
TeamGoesWithDirector ==
    \A d \in Director : directors[d].del ~> ~ teams[TeamOf[d]].live

=============================================================================
