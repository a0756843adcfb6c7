------------------------ MODULE CloudConfigController -------------------------
(***************************************************************************)
(* The AZ and Extension reconcilers, which are the same program:           *)
(* reconcileWithBOSH over a cloud config of the Director that has the name *)
(* of the custom resource and the cloud properties of its original spec.   *)
(* Every reconciliation posts the config again.                            *)
(***************************************************************************)
EXTENDS Controller, Sequences

CONSTANTS
    Word,         \* what stands between the hyphens of a name
    NamespaceOf,  \* NamespaceOf[k]: the namespace of k, as a sequence of words
    NameOf        \* NameOf[k]: the name of k within it

ASSUME CloudConfigAssumption ==
    /\ NamespaceOf \in [Key -> Seq(Word)]
    /\ NameOf \in [Key -> Seq(Word)]
    /\ \A j, k \in Key :
          NamespaceOf[j] = NamespaceOf[k] /\ NameOf[j] = NameOf[k] => j = k

VARIABLE config   \* the cloud properties in each config of the Director

vars == <<ctrlVars, config>>

CreateSteps == {"prepare", "finalize", "create", "save"}
DeleteSteps == {"delete", "unfinalize"}

\* Mutant: the name without the namespace.
BareName(k) == NameOf[k]

\* The kind, the namespace and the name, joined by hyphens.
InternalName(k) == NamespaceOf[k] \o NameOf[k]

Names == {InternalName(k) : k \in Key}

TypeOK ==
    /\ CtrlTypeOK({"idle"} \union CreateSteps \union DeleteSteps)
    /\ config \in [Names -> SpecOrNone]

Init ==
    /\ CtrlInit
    /\ config = [n \in Names |-> None]

-----------------------------------------------------------------------------
Get(k) ==
    /\ Dequeue(k)
    /\ \/ ~ cache[k].live /\ Goto(k, "idle", cache[k])
       \/ cache[k].live /\ cache[k].del /\ Goto(k, "delete", cache[k])
       \/ cache[k].live /\ ~ cache[k].del /\ Goto(k, "prepare", cache[k])
    /\ UNCHANGED <<api, cache, faults, config>>

SavePrepared(k) ==
    /\ pc[k] = "prepare"
    /\ SaveIfPrepared(k, "finalize")
    /\ UNCHANGED config

EnsureFinalizer(k) ==
    /\ pc[k] = "finalize"
    /\ UpdateIfFinalizer(k, TRUE, "create")
    /\ UNCHANGED config

\* Mutants: the properties of the current spec are posted; none are posted for
\* a resource that has been mutated.
CreateConfigCurrent(k) ==
    /\ pc[k] = "create"
    /\ config' = [config EXCEPT ![InternalName(k)] = mem[k].spec]
    /\ Goto(k, "save", mem[k])
    /\ UNCHANGED <<api, cache, queue, faults>>

CreateConfigUnlessMutated(k) ==
    /\ pc[k] = "create"
    /\ config' = IF mem[k].spec = mem[k].orig
                 THEN [config EXCEPT ![InternalName(k)] = mem[k].orig] ELSE config
    /\ Goto(k, "save", mem[k])
    /\ UNCHANGED <<api, cache, queue, faults>>

\* CreateUnlessExists does not ask whether the config exists.
CreateConfig(k) ==
    /\ pc[k] = "create"
    /\ config' = [config EXCEPT ![InternalName(k)] = mem[k].orig]
    /\ Goto(k, "save", mem[k])
    /\ UNCHANGED <<api, cache, queue, faults>>

SaveAvailable(k) ==
    /\ pc[k] = "save"
    /\ StatusUpdate(k, [mem[k] EXCEPT !.avail = TRUE], "idle")
    /\ UNCHANGED config

\* Mutant: the config is there but cannot be read.
DeleteConfigEntry(k) ==
    /\ pc[k] = "delete"
    /\ config' = [n \in Names \ {InternalName(k)} |-> config[n]]
    /\ Goto(k, "unfinalize", mem[k])
    /\ UNCHANGED <<api, cache, queue, faults>>

\* The Director is content when there is no such config.
DeleteConfig(k) ==
    /\ pc[k] = "delete"
    /\ config' = [config EXCEPT ![InternalName(k)] = None]
    /\ Goto(k, "unfinalize", mem[k])
    /\ UNCHANGED <<api, cache, queue, faults>>

EnsureNoFinalizer(k) ==
    /\ pc[k] = "unfinalize"
    /\ UpdateIfFinalizer(k, FALSE, "idle")
    /\ UNCHANGED config

-----------------------------------------------------------------------------
Step(k) ==
    \/ SavePrepared(k) \/ EnsureFinalizer(k) \/ CreateConfig(k)
    \/ SaveAvailable(k) \/ DeleteConfig(k) \/ EnsureNoFinalizer(k)

Environment(k) ==
    /\ \/ UserCreate(k) \/ UserEdit(k) \/ UserDelete(k)
       \/ Watch(k) \/ Resync(k) \/ Fail(k) \/ Crash
    /\ UNCHANGED config

Next == \E k \in Key : Get(k) \/ Step(k) \/ Environment(k)

Spec == Init /\ [][Next]_vars

-----------------------------------------------------------------------------
\* Every config of the Director belongs to a resource that still carries its
\* finalizer, and has the cloud properties this resource had at first, for
\* all that its owner may have made of its spec since (README.md:123, 133).
ConfigIsOriginal ==
    \A n \in Names : config[n] # None =>
        \E k \in Key : /\ InternalName(k) = n
                       /\ api[k].live /\ api[k].fin
                       /\ config[n] = api[k].orig

\* A resource that is available, and that nobody deletes, has its config.
AvailableIsConfigured ==
    \A k \in Key : api[k].live /\ api[k].avail /\ ~ api[k].del
                       => config[InternalName(k)] = api[k].orig

\* Once nothing is queued or running for a resource it is available, warns
\* exactly when its spec has been mutated, and is not waiting to be deleted.
SettledIsConverged == \A k \in Key : Settled(k) => Converged(api[k])

Promise == INSTANCE Lifecycle WITH
    phase <- [k \in Key |-> Phase(api[k])],
    ext <- [k \in Key |-> config[InternalName(k)] # None]

\* The AZ and Extension reconcilers keep the promise of every reconciler.
ImplementsLifecycle == Promise!Spec

=============================================================================
