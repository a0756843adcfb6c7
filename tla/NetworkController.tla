--------------------------- MODULE NetworkController ---------------------------
(***************************************************************************)
(* The Network reconciler: reconcileWithBOSH over a cloud config that      *)
(* names AZs, which must be resources of the same namespace when the       *)
(* config is posted.  PrepareToSave compares the spec with the original    *)
(* and, as NetworkMatch says, may reorder the lists in both.  The names of *)
(* the configs are taken to be different (see CloudConfigController).      *)
(***************************************************************************)
EXTENDS Controller, NetworkMatch

CONSTANT AZs   \* the names of AZ resources

ASSUME NetworkAssumption ==
    /\ AZs \subseteq Nat
    /\ Specs \subseteq Network
    /\ \A n \in Specs : {Match(n, m).left : m \in Specs} \subseteq Specs
    /\ \A n \in Specs : {Match(m, n).right : m \in Specs} \subseteq Specs

VARIABLES
    config,  \* the network in the config of each resource
    azs      \* the AZ resources there are

external == <<config, azs>>
vars == <<ctrlVars, external>>

CreateSteps == {"prepare", "finalize", "resolve", "create", "save"}
DeleteSteps == {"delete", "unfinalize"}

TypeOK ==
    /\ CtrlTypeOK({"idle"} \union CreateSteps \union DeleteSteps)
    /\ config \in [Key -> SpecOrNone]
    /\ azs \in SUBSET AZs

Init ==
    /\ CtrlInit
    /\ config = [k \in Key |-> None]
    /\ azs = {}

-----------------------------------------------------------------------------
Get(k) ==
    /\ Dequeue(k)
    /\ \/ ~ cache[k].live /\ Goto(k, "idle", cache[k])
       \/ cache[k].live /\ cache[k].del /\ Goto(k, "delete", cache[k])
       \/ cache[k].live /\ ~ cache[k].del /\ Goto(k, "prepare", cache[k])
    /\ UNCHANGED <<api, cache, faults, external>>

\* Match and Same, tabulated.
MatchOf == [n \in Specs |-> [m \in Specs |-> Match(n, m)]]
SameAs == [n \in Specs |-> {m \in Specs : Same(n, m)}]

\* Mutants: only the specs as written are compared; the status follows the
\* spec.
PrepareLiterally(o) ==
    IF o.orig = None THEN [o EXCEPT !.orig = o.spec]
                     ELSE [o EXCEPT !.warn = (o.spec # o.orig)]
PrepareFollowingNetwork(o) == [o EXCEPT !.orig = o.spec]

\* PrepareToSave leaves in the object what the comparison made of both specs.
PrepareNetwork(o) ==
    IF o.orig = None
    THEN [o EXCEPT !.orig = o.spec]
    ELSE LET m == MatchOf[o.orig][o.spec] IN
         [o EXCEPT !.orig = m.left, !.spec = m.right, !.warn = ~ m.ok]

\* A comparison that reorders the lists and finds the warning to be right
\* reports no change, and is saved by whichever call comes next.
SavePrepared(k) ==
    LET m == PrepareNetwork(mem[k])
        reported == mem[k].orig = None \/ m.warn # mem[k].warn
    IN
    /\ pc[k] = "prepare"
    /\ \/ reported /\ StatusUpdate(k, m, "finalize")
       \/ ~ reported /\ Goto(k, "finalize", m) /\ UNCHANGED <<api, cache, queue, faults>>
    /\ UNCHANGED external

EnsureFinalizer(k) ==
    /\ pc[k] = "finalize"
    /\ UpdateIfFinalizer(k, TRUE, "resolve")
    /\ UNCHANGED external

\* The AZs are the last list of a subnet.
AZsOf == [n \in Specs |->
            UNION {ToSet(n.subnets[i].lists[4]) : i \in DOMAIN n.subnets}]

Resolvable(n) == AZsOf[n] \subseteq azs

\* The AZs of the original spec are looked up, all at one moment.
ResolveReferences(k) ==
    /\ pc[k] = "resolve"
    /\ \/ /\ Resolvable(mem[k].orig)
          /\ Goto(k, "create", mem[k])
          /\ UNCHANGED queue
       \/ /\ ~ Resolvable(mem[k].orig)
          /\ Retry(k)
    /\ UNCHANGED <<api, cache, faults, external>>

\* Mutant: the network of the current spec is posted.
CreateNetworkCurrent(k) ==
    /\ pc[k] = "create"
    /\ config' = [config EXCEPT ![k] = mem[k].spec]
    /\ Goto(k, "save", mem[k])
    /\ UNCHANGED <<api, cache, queue, faults, azs>>

\* CreateUnlessExists does not ask whether the config exists.
CreateNetwork(k) ==
    /\ pc[k] = "create"
    /\ config' = [config EXCEPT ![k] = mem[k].orig]
    /\ Goto(k, "save", mem[k])
    /\ UNCHANGED <<api, cache, queue, faults, azs>>

SaveAvailable(k) ==
    /\ pc[k] = "save"
    /\ StatusUpdate(k, [mem[k] EXCEPT !.avail = TRUE], "idle")
    /\ UNCHANGED external

\* Mutants: the config is emptied; it is left where it is.
DeleteNetworkEmptied(k) ==
    /\ pc[k] = "delete"
    /\ config' = [config EXCEPT ![k] = IF @ = None THEN @ ELSE [@ EXCEPT !.subnets = <<>>]]
    /\ Goto(k, "unfinalize", mem[k])
    /\ UNCHANGED <<api, cache, queue, faults, azs>>

DeleteNetworkSkipped(k) ==
    /\ pc[k] = "delete"
    /\ Goto(k, "unfinalize", mem[k])
    /\ UNCHANGED <<api, cache, queue, faults, external>>

DeleteNetwork(k) ==
    /\ pc[k] = "delete"
    /\ config' = [config EXCEPT ![k] = None]
    /\ Goto(k, "unfinalize", mem[k])
    /\ UNCHANGED <<api, cache, queue, faults, azs>>

EnsureNoFinalizer(k) ==
    /\ pc[k] = "unfinalize"
    /\ UpdateIfFinalizer(k, FALSE, "idle")
    /\ UNCHANGED external

-----------------------------------------------------------------------------
\* The AZ resources of the namespace come and go.
ChangeAZ(a) ==
    /\ azs' = IF a \in azs THEN azs \ {a} ELSE azs \union {a}
    /\ UNCHANGED <<ctrlVars, config>>

Step(k) ==
    \/ SavePrepared(k) \/ EnsureFinalizer(k) \/ ResolveReferences(k)
    \/ CreateNetwork(k) \/ SaveAvailable(k) \/ DeleteNetwork(k)
    \/ EnsureNoFinalizer(k)

Environment(k) ==
    /\ \/ UserCreate(k) \/ UserEdit(k) \/ UserDelete(k)
       \/ Watch(k) \/ Resync(k) \/ Fail(k) \/ Crash
    /\ UNCHANGED external

Next ==
    \/ \E k \in Key : Get(k) \/ Step(k) \/ Environment(k)
    \/ \E a \in AZs : ChangeAZ(a)

Spec == Init /\ [][Next]_vars

Fairness ==
    \A k \in Key : /\ WF_vars(Step(k))
                   /\ WF_vars(Watch(k) /\ UNCHANGED external)
                   /\ SF_vars(Get(k))

FairSpec == Spec /\ Fairness

-----------------------------------------------------------------------------
\* The Director has the network that the resource described at first, but
\* for the order of its lists, whatever became of the spec since, and the
\* resource is there to delete it.
ConfigIsOriginal ==
    \A k \in Key : config[k] # None =>
        api[k].live /\ api[k].fin /\ config[k] \in SameAs[api[k].orig]

\* Once nothing is queued or running for a resource it is available and not
\* waiting to be deleted, and it warns exactly when its owner has made
\* another network of it: reordering a list is no mutation.
SettledIsConverged ==
    \A k \in Key : Settled(k) /\ api[k].live =>
        /\ ~ api[k].del /\ api[k].avail
        /\ api[k].warn = (api[k].spec \notin SameAs[api[k].orig])

\* No step makes another network of the original, whatever it does to the
\* order of its lists.
OriginalIsSame ==
    [][\A k \in Key : api[k].live /\ api[k].orig # None /\ api'[k].live
                         => api'[k].orig \in SameAs[api[k].orig]]_vars

\* A network of the Director stays as it was created until it is deleted
\* ("Networks cannot be mutated", README.md:145-146).
NetworkIsFrozen ==
    [][\A k \in Key : config[k] # None /\ config'[k] # None
                         => config'[k] = config[k]]_vars

\* A Network becomes available, unless its owner deletes it first, if its
\* AZs are there from some time on, also when they came after it.
CreationCompletes ==
    \A k \in Key :
        api[k].live /\ [](api[k].orig # None => Resolvable(api[k].orig))
            ~> ~ api[k].live \/ api[k].del \/ api[k].avail

Promise == INSTANCE Lifecycle WITH
    phase <- [k \in Key |-> Phase(api[k])],
    ext <- [k \in Key |-> config[k] # None]

\* The Network reconciler keeps the promise of every reconciler.
ImplementsLifecycle == Promise!Spec

=============================================================================
