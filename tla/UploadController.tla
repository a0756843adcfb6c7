--------------------------- MODULE UploadController ---------------------------
(***************************************************************************)
(* The Release and BaseImage reconcilers, which are the same program:      *)
(* reconcileWithBOSH over an artifact that is uploaded to the Director if  *)
(* it is not there and deleted from it when the custom resource goes away. *)
(* A spec names the artifact (Declared: releaseName and version) and says  *)
(* where the Director fetches it (url and sha1); what is served there has  *)
(* a name and version of its own (Served).                                 *)
(***************************************************************************)
EXTENDS Controller

CONSTANTS
    Artifacts,    \* names with versions of releases or of base images
    Declared,     \* Declared[s]: the artifact the spec s names
    Served,       \* Served[s]: the artifact found at the url of s
    Slow          \* those whose upload task may outlive the call that began it

ASSUME UploadAssumption ==
    /\ Declared \in [Specs -> Artifacts]
    /\ Served \in [Specs -> Artifacts]
    /\ Slow \subseteq Artifacts

VARIABLES
    bosh,      \* the artifacts the Director has
    inflight   \* upload tasks the controller no longer waits for

vars == <<ctrlVars, bosh, inflight>>

CreateSteps == {"prepare", "finalize", "has", "upload", "save"}
DeleteSteps == {"hasToDelete", "delete", "unfinalize"}

TypeOK ==
    /\ CtrlTypeOK({"idle"} \union CreateSteps \union DeleteSteps)
    /\ bosh \in SUBSET Artifacts
    /\ inflight \in SUBSET Artifacts

Init ==
    /\ CtrlInit
    /\ bosh = {}
    /\ inflight = {}

-----------------------------------------------------------------------------
\* Mutant: the finalizer is removed and nothing deleted.
GetUnfinalizing(k) ==
    /\ Dequeue(k)
    /\ Goto(k, CASE ~ cache[k].live -> "idle"
                 [] cache[k].live /\ cache[k].del -> "unfinalize"
                 [] cache[k].live /\ ~ cache[k].del -> "prepare", cache[k])
    /\ UNCHANGED <<api, cache, faults, bosh, inflight>>

\* Reconcile reads the object and builds a client for its namespace;
\* a key that is not found is dropped.
Get(k) ==
    /\ Dequeue(k)
    /\ \/ ~ cache[k].live /\ Goto(k, "idle", cache[k])
       \/ cache[k].live /\ cache[k].del /\ Goto(k, "hasToDelete", cache[k])
       \/ cache[k].live /\ ~ cache[k].del /\ Goto(k, "prepare", cache[k])
    /\ UNCHANGED <<api, cache, faults, bosh, inflight>>

SavePrepared(k) ==
    /\ pc[k] = "prepare"
    /\ SaveIfPrepared(k, "finalize")
    /\ UNCHANGED <<bosh, inflight>>

EnsureFinalizer(k) ==
    /\ pc[k] = "finalize"
    /\ UpdateIfFinalizer(k, TRUE, "has")
    /\ UNCHANGED <<bosh, inflight>>

\* Mutant: the artifact of a resource that has been mutated is replaced.
HasReplacing(k) ==
    /\ pc[k] = "has"
    /\ Goto(k, IF Declared[mem[k].orig] \in bosh
               THEN IF mem[k].spec = mem[k].orig THEN "save" ELSE "delete"
               ELSE "upload", mem[k])
    /\ UNCHANGED <<api, cache, queue, faults, bosh, inflight>>

\* CreateUnlessExists asks for the artifact the original spec names ...
Has(k) ==
    /\ pc[k] = "has"
    /\ Goto(k, IF Declared[mem[k].orig] \in bosh THEN "save" ELSE "upload", mem[k])
    /\ UNCHANGED <<api, cache, queue, faults, bosh, inflight>>

\* Mutant: the artifact is stored under its url.
UploadNamedByUrl(k) ==
    /\ pc[k] = "upload"
    /\ bosh' = bosh \union {mem[k].orig}
    /\ Goto(k, "save", mem[k])
    /\ UNCHANGED <<api, cache, queue, faults, inflight>>

\* ... and has the Director fetch the url of the original spec.
Upload(k) ==
    /\ pc[k] = "upload"
    /\ bosh' = bosh \union {Served[mem[k].orig]}
    /\ Goto(k, "save", mem[k])
    /\ UNCHANGED <<api, cache, queue, faults, inflight>>

\* Mutant: the failure is taken for a success.
AbandonUploadIgnored(k) ==
    /\ pc[k] = "upload"
    /\ Served[mem[k].orig] \in Slow
    /\ inflight' = inflight \union {Served[mem[k].orig]}
    /\ Goto(k, "save", mem[k])
    /\ UNCHANGED <<api, cache, queue, faults, bosh>>

\* The call fails after it has started the task, which goes on.
AbandonUpload(k) ==
    /\ pc[k] = "upload"
    /\ Served[mem[k].orig] \in Slow
    /\ inflight' = inflight \union {Served[mem[k].orig]}
    /\ Fail(k)
    /\ UNCHANGED bosh

TaskDone(a) ==
    /\ a \in inflight
    /\ inflight' = inflight \ {a}
    /\ bosh' = bosh \union {a}
    /\ UNCHANGED ctrlVars

SaveAvailable(k) ==
    /\ pc[k] = "save"
    /\ StatusUpdate(k, [mem[k] EXCEPT !.avail = TRUE], "idle")
    /\ UNCHANGED <<bosh, inflight>>

\* Mutant: what the current spec names is looked for.
HasToDeleteCurrent(k) ==
    /\ pc[k] = "hasToDelete"
    /\ Goto(k, IF Declared[mem[k].spec] \in bosh THEN "delete" ELSE "unfinalize",
            mem[k])
    /\ UNCHANGED <<api, cache, queue, faults, bosh, inflight>>

\* DeleteIfExists looks for the artifact the original spec names.
HasToDelete(k) ==
    /\ pc[k] = "hasToDelete"
    /\ Goto(k, IF Declared[mem[k].orig] \in bosh THEN "delete" ELSE "unfinalize",
            mem[k])
    /\ UNCHANGED <<api, cache, queue, faults, bosh, inflight>>

Delete(k) ==
    /\ pc[k] = "delete"
    /\ bosh' = bosh \ {Declared[mem[k].orig]}
    /\ Goto(k, "unfinalize", mem[k])
    /\ UNCHANGED <<api, cache, queue, faults, inflight>>

EnsureNoFinalizer(k) ==
    /\ pc[k] = "unfinalize"
    /\ UpdateIfFinalizer(k, FALSE, "idle")
    /\ UNCHANGED <<bosh, inflight>>

-----------------------------------------------------------------------------
Step(k) ==
    \/ SavePrepared(k) \/ EnsureFinalizer(k) \/ Has(k) \/ Upload(k)
    \/ SaveAvailable(k) \/ HasToDelete(k) \/ Delete(k) \/ EnsureNoFinalizer(k)

Environment(k) ==
    /\ \/ UserCreate(k) \/ UserEdit(k) \/ UserDelete(k)
       \/ Watch(k) \/ Resync(k) \/ Fail(k) \/ Crash
    /\ UNCHANGED <<bosh, inflight>>

Next ==
    \/ \E k \in Key : Get(k) \/ Step(k) \/ AbandonUpload(k) \/ Environment(k)
    \/ \E a \in Artifacts : TaskDone(a)

Spec == Init /\ [][Next]_vars

\* The worker goes on, watch events arrive, and the queue is first in first
\* out, so that a key in it is taken up even if others keep the worker busy.
Fairness ==
    \A k \in Key : /\ WF_vars(Step(k))
                   /\ WF_vars(Watch(k) /\ UNCHANGED <<bosh, inflight>>)
                   /\ SF_vars(Get(k))

FairSpec == Spec /\ Fairness

-----------------------------------------------------------------------------
\* k answers for the artifact a: it is there, carries the finalizer and
\* keeps a in its status, so that deleting it removes a from the Director.
Claims(k, a) ==
    /\ api[k].live
    /\ api[k].fin
    /\ api[k].orig # None
    /\ Declared[api[k].orig] = a

\* Every artifact uploaded to the Director is claimed by a custom resource,
\* whatever fails and whenever its owner deletes it: the finalizer is stored
\* before the upload and removed after the deletion (common.go:209-247).  One
\* that arrives after its call has failed may find that nobody waits for it.
NoOrphan == \A a \in bosh \ Slow : \E k \in Key : Claims(k, a)

\* A resource whose status says available, and that nobody deletes, names an
\* artifact the Director has (README.md:396).
AvailableIsPresent ==
    \A k \in Key : api[k].live /\ api[k].avail /\ ~ api[k].del
                       => Declared[api[k].orig] \in bosh

\* A finalizer is only ever stored on an object whose original spec is
\* stored, so that the deletion knows what to remove from the Director.
FinalizerIsFrozen ==
    \A k \in Key : api[k].fin => api[k].live /\ api[k].orig # None

\* No change is lost: once nothing is queued or running for an object, it
\* is available, it warns exactly when its spec has been mutated, and it
\* is not still waiting to be deleted.
SettledIsConverged == \A k \in Key : Settled(k) => Converged(api[k])

\* The original spec of an object never changes once it is stored: a
\* reconciliation that works on an outdated copy cannot replace it.
OriginalIsFrozen == [][KeepsOriginals]_vars

\* The Director loses an artifact only while a resource that names it is
\* being deleted: an outdated copy never makes the controller delete the
\* artifact of a resource its owner keeps.
DeletedOnDemand ==
    [][\A a \in bosh \ (bosh' \union Slow) :
          \E k \in Key : Claims(k, a) /\ api[k].del]_vars

\* A resource becomes available unless its owner deletes it first, and one
\* that is deleted goes away.
Completes ==
    \A k \in Key :
        /\ api[k].live ~> ~ api[k].live \/ api[k].del \/ api[k].avail
        /\ api[k].del ~> ~ api[k].live

-----------------------------------------------------------------------------
(* The refinement: the phase of a resource is read off the API server, and  *)
(* its counterpart is there when the Director has one of the artifacts its  *)
(* owner's specs lead to, and which no late task brings.                    *)

Promise == INSTANCE Lifecycle WITH
    phase <- [k \in Key |-> Phase(api[k])],
    ext <- [k \in Key |-> \E s \in SpecsOf[k] : Served[s] \in bosh \ Slow]

\* The controller keeps the promise of every reconciler.
ImplementsLifecycle == Promise!Spec

=============================================================================
