------------------------- MODULE CompilationController -------------------------
(***************************************************************************)
(* The Compilation reconciler.  A Compilation is a cloud config of the     *)
(* Director its spec names.  Unlike the other kinds it can be mutated:     *)
(* only the name of the Director is frozen in the status, and everything   *)
(* else is posted as the spec has it now.  `orig' stands for the Director  *)
(* of the spec it holds, and is used through DirectorOf alone.             *)
(*                                                                         *)
(* All Compilations are in the namespace of the manager: the reconciler    *)
(* does nothing but fail for one that is not.                              *)
(***************************************************************************)
EXTENDS Controller

CONSTANTS
    Directors,    \* the BOSH Directors
    DirectorOf    \* DirectorOf[s]: the Director the spec s names

ASSUME CompilationAssumption == DirectorOf \in [Specs -> Directors]

VARIABLES
    config,  \* the settings in the config of each resource, by Director
    admin    \* the Directors that have a resource, and a Team with a Secret

external == <<config, admin>>
vars == <<ctrlVars, external>>

CreateSteps == {"finalize", "create", "save"}
DeleteSteps == {"delete", "unfinalize"}

TypeOK ==
    /\ CtrlTypeOK({"idle", "prepare", "client"} \union CreateSteps \union DeleteSteps)
    /\ config \in [Directors -> [Key -> SpecOrNone]]
    /\ admin \in SUBSET Directors

Init ==
    /\ CtrlInit
    /\ config = [d \in Directors |-> [k \in Key |-> None]]
    /\ admin = {}

-----------------------------------------------------------------------------
Get(k) ==
    /\ Dequeue(k)
    /\ Goto(k, IF cache[k].live THEN "prepare" ELSE "idle", cache[k])
    /\ UNCHANGED <<api, cache, faults, external>>

\* The warning is about the Director only.
PrepareDirector(o) ==
    IF o.orig = None
    THEN [o EXCEPT !.orig = o.spec]
    ELSE [o EXCEPT !.warn = (DirectorOf[o.spec] # DirectorOf[o.orig])]

\* The status is saved even for a resource that is being deleted.  What
\* reconcileWithBOSH prepares once more has nothing left to change.
SavePrepared(k) ==
    LET m == PrepareDirector(mem[k]) IN
    /\ pc[k] = "prepare"
    /\ \/ m # mem[k] /\ StatusUpdate(k, m, "client")
       \/ m = mem[k] /\ Goto(k, "client", m) /\ UNCHANGED <<api, cache, queue, faults>>
    /\ UNCHANGED external

\* Mutant: a resource whose Director is gone is let go.
ClientGivingUp(k) ==
    LET d == DirectorOf[mem[k].orig] IN
    /\ pc[k] = "client"
    /\ \/ /\ d \in admin
          /\ Goto(k, IF mem[k].del THEN "delete" ELSE "finalize", mem[k])
          /\ UNCHANGED queue
       \/ /\ d \notin admin
          /\ IF mem[k].del THEN Goto(k, "unfinalize", mem[k]) /\ UNCHANGED queue
                           ELSE Retry(k)
    /\ UNCHANGED <<api, cache, faults, external>>

\* boshClientForDirector needs the resource of the original Director, the
\* Team made for it and the Secret of that Team.
Client(k) ==
    LET d == DirectorOf[mem[k].orig] IN
    /\ pc[k] = "client"
    /\ \/ /\ d \in admin
          /\ Goto(k, IF mem[k].del THEN "delete" ELSE "finalize", mem[k])
          /\ UNCHANGED queue
       \/ d \notin admin /\ Retry(k)
    /\ UNCHANGED <<api, cache, faults, external>>

EnsureFinalizer(k) ==
    /\ pc[k] = "finalize"
    /\ UpdateIfFinalizer(k, TRUE, "create")
    /\ UNCHANGED external

\* Mutants: the settings of the first spec are posted; the config goes to
\* the Director of the current spec.
CreateConfigOriginal(k) ==
    /\ pc[k] = "create"
    /\ config' = [config EXCEPT ![DirectorOf[mem[k].orig]][k] = mem[k].orig]
    /\ Goto(k, "save", mem[k])
    /\ UNCHANGED <<api, cache, queue, faults, admin>>

CreateConfigMoving(k) ==
    /\ pc[k] = "create"
    /\ config' = [config EXCEPT ![DirectorOf[mem[k].spec]][k] = mem[k].spec]
    /\ Goto(k, "save", mem[k])
    /\ UNCHANGED <<api, cache, queue, faults, admin>>

\* The settings of the spec as it is now are posted to the original Director.
CreateConfig(k) ==
    /\ pc[k] = "create"
    /\ config' = [config EXCEPT ![DirectorOf[mem[k].orig]][k] = mem[k].spec]
    /\ Goto(k, "save", mem[k])
    /\ UNCHANGED <<api, cache, queue, faults, admin>>

SaveAvailable(k) ==
    /\ pc[k] = "save"
    /\ StatusUpdate(k, [mem[k] EXCEPT !.avail = TRUE], "idle")
    /\ UNCHANGED external

\* Mutant: the config is there but cannot be read.
DeleteConfigEntry(k) ==
    /\ pc[k] = "delete"
    /\ config' = [config EXCEPT ![DirectorOf[mem[k].orig]] =
                                     [j \in Key \ {k} |-> @[j]]]
    /\ Goto(k, "unfinalize", mem[k])
    /\ UNCHANGED <<api, cache, queue, faults, admin>>

DeleteConfig(k) ==
    /\ pc[k] = "delete"
    /\ config' = [config EXCEPT ![DirectorOf[mem[k].orig]][k] = None]
    /\ Goto(k, "unfinalize", mem[k])
    /\ UNCHANGED <<api, cache, queue, faults, admin>>

EnsureNoFinalizer(k) ==
    /\ pc[k] = "unfinalize"
    /\ UpdateIfFinalizer(k, FALSE, "idle")
    /\ UNCHANGED external

-----------------------------------------------------------------------------
\* An operator adds or removes a Director.
Operate(d) ==
    /\ admin' = IF d \in admin THEN admin \ {d} ELSE admin \union {d}
    /\ UNCHANGED <<ctrlVars, config>>

Step(k) ==
    \/ SavePrepared(k) \/ Client(k) \/ EnsureFinalizer(k) \/ CreateConfig(k)
    \/ SaveAvailable(k) \/ DeleteConfig(k) \/ EnsureNoFinalizer(k)

Environment(k) ==
    /\ \/ UserCreate(k) \/ UserEdit(k) \/ UserDelete(k)
       \/ Watch(k) \/ Resync(k) \/ Fail(k) \/ Crash
    /\ UNCHANGED external

Next ==
    \/ \E k \in Key : Get(k) \/ Step(k) \/ Environment(k)
    \/ \E d \in Directors : Operate(d)

Spec == Init /\ [][Next]_vars

Fairness ==
    \A k \in Key : /\ WF_vars(Step(k))
                   /\ WF_vars(Watch(k) /\ UNCHANGED external)
                   /\ SF_vars(Get(k))

FairSpec == Spec /\ Fairness

-----------------------------------------------------------------------------
\* A config is only ever on the Director that its resource named first, and
\* the resource is there to delete it, whatever its owner has made of the
\* spec and whichever Directors have been removed (README.md:161-163).
ConfigIsClaimed ==
    \A d \in Directors, k \in Key : config[d][k] # None =>
        api[k].live /\ api[k].fin /\ DirectorOf[api[k].orig] = d

\* No edit is lost: once nothing is queued or running for a resource that
\* is not being deleted, its Director has the settings of the latest spec,
\* and the resource warns exactly when the spec names another Director.
SettledIsCurrent ==
    \A k \in Key : Settled(k) /\ api[k].live =>
        /\ ~ api[k].del /\ api[k].avail
        /\ config[DirectorOf[api[k].orig]][k] = api[k].spec
        /\ api[k].warn = (DirectorOf[api[k].spec] # DirectorOf[api[k].orig])

Reachable(k) == api[k].orig # None /\ DirectorOf[api[k].orig] \in admin

\* A deleted Compilation goes away, if its Director stays.
DeletionCompletes ==
    \A k \in Key : api[k].del /\ [](api[k].live => Reachable(k)) ~> ~ api[k].live

Promise == INSTANCE Lifecycle WITH
    phase <- [k \in Key |-> Phase(api[k])],
    ext <- [k \in Key |-> \E d \in Directors : config[d][k] # None]

\* The Compilation reconciler keeps the promise of every reconciler.
ImplementsLifecycle == Promise!Spec

=============================================================================
