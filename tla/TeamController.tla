--------------------------- MODULE TeamController ----------------------------
(***************************************************************************)
(* The Team reconciler.  A Team stands for a client of the UAA of a        *)
(* Director and for the Kubernetes Secret with the client's password, from *)
(* which the other reconcilers log in to the Director.  The spec of a Team *)
(* is the name of a Director resource; that resource tells the UAA.        *)
(*                                                                         *)
(* Passwords are random and are only ever compared: all that matters about *)
(* one that is drawn is that it differs from every password in use.        *)
(***************************************************************************)
EXTENDS Controller

CONSTANTS
    UAA,        \* the UAA servers
    UAAsOf,     \* UAAsOf[d]: those the Director resource d may point to
    Passwords   \* passwords that can be drawn

ASSUME TeamAssumption ==
    /\ None \notin UAA \union Passwords
    /\ UAAsOf \in [Specs -> SUBSET UAA]
    \* Passwords cannot all be in use, by a Secret and a client in each UAA.
    /\ \A used \in [Key \X (UAA \union {None}) -> Passwords \union {None}] :
          \E p \in Passwords : p \notin {used[x] : x \in Key \X (UAA \union {None})}

VARIABLES
    director,  \* the UAA each Director resource, as cached, points to; None: no resource
    uaa,       \* the password of each client, by UAA and by Team
    secret,    \* the password in the Secret of each Team
    work       \* the UAA client and the password the running Reconcile holds

external == <<director, uaa, secret>>
vars == <<ctrlVars, external, work>>

CreateSteps == {"finalize", "secret", "client", "save"}
DeleteSteps == {"deleteClient", "deleteSecret", "unfinalize"}

NoWork == [uaa |-> None, password |-> None]

TypeOK ==
    /\ CtrlTypeOK({"idle", "prepare", "lookup"} \union CreateSteps \union DeleteSteps)
    /\ director \in [Specs -> UAA \union {None}]
    /\ uaa \in [UAA -> [Key -> Passwords \union {None}]]
    /\ secret \in [Key -> Passwords \union {None}]
    /\ work \in [uaa : UAA \union {None}, password : Passwords \union {None}]

Init ==
    /\ CtrlInit
    /\ director = [d \in Specs |-> None]
    /\ uaa = [u \in UAA |-> [k \in Key |-> None]]
    /\ secret = [k \in Key |-> None]
    /\ work = NoWork

-----------------------------------------------------------------------------
\* What a reconciliation held in its variables goes with it.
KeepWork == work' = IF Idle' THEN NoWork ELSE work

Get(k) ==
    /\ Dequeue(k)
    /\ Goto(k, IF cache[k].live THEN "prepare" ELSE "idle", cache[k])
    /\ UNCHANGED <<api, cache, faults, external, work>>

\* The status is saved even for a Team that is being deleted.
SavePrepared(k) ==
    /\ pc[k] = "prepare"
    /\ SaveIfPrepared(k, "lookup")
    /\ KeepWork
    /\ UNCHANGED external

\* Mutant: a Team whose Director is gone is let go.
LookupGivingUp(k) ==
    /\ pc[k] = "lookup"
    /\ \/ /\ director[mem[k].orig] # None
          /\ work' = [NoWork EXCEPT !.uaa = director[mem[k].orig]]
          /\ Goto(k, IF mem[k].del THEN "deleteClient" ELSE "finalize", mem[k])
          /\ UNCHANGED queue
       \/ /\ director[mem[k].orig] = None
          /\ work' = NoWork
          /\ IF mem[k].del THEN Goto(k, "unfinalize", mem[k]) /\ UNCHANGED queue
                           ELSE Retry(k)
    /\ UNCHANGED <<api, cache, faults, external>>

\* uaaAdminForDirector finds the UAA through the original Director, and there
\* is no other way on, for a Team that is being deleted either.
Lookup(k) ==
    /\ pc[k] = "lookup"
    /\ \/ /\ director[mem[k].orig] # None
          /\ work' = [NoWork EXCEPT !.uaa = director[mem[k].orig]]
          /\ Goto(k, IF mem[k].del THEN "deleteClient" ELSE "finalize", mem[k])
          /\ UNCHANGED queue
       \/ /\ director[mem[k].orig] = None
          /\ work' = NoWork
          /\ Retry(k)
    /\ UNCHANGED <<api, cache, faults, external>>

\* Mutant: the finalizer is set on the copy and not saved.
EnsureFinalizerUnsaved(k) ==
    /\ pc[k] = "finalize"
    /\ Goto(k, "secret", [mem[k] EXCEPT !.fin = TRUE])
    /\ UNCHANGED <<api, cache, queue, faults, external, work>>

EnsureFinalizer(k) ==
    /\ pc[k] = "finalize"
    /\ UpdateIfFinalizer(k, TRUE, "secret")
    /\ KeepWork
    /\ UNCHANGED external

\* A random password: one that is nowhere in use, no matter which.
InUse == {secret[k] : k \in Key} \union {uaa[u][k] : u \in UAA, k \in Key}
Fresh == CHOOSE p \in Passwords : p \notin InUse

\* Mutant: the wrong variable goes into the Secret.
CreateSecretOfUAA(k) ==
    /\ pc[k] = "secret"
    /\ work' = [work EXCEPT !.password = Fresh]
    /\ secret' = [secret EXCEPT ![k] = IF @ = None THEN work.uaa ELSE @]
    /\ Goto(k, "client", mem[k])
    /\ UNCHANGED <<api, cache, queue, faults, director, uaa>>

\* Every reconciliation draws a password; one the Secret already has wins ...
CreateSecret(k) ==
    /\ pc[k] = "secret"
    /\ work' = [work EXCEPT !.password = Fresh]
    /\ secret' = [secret EXCEPT ![k] = IF @ = None THEN Fresh ELSE @]
    /\ Goto(k, "client", mem[k])
    /\ UNCHANGED <<api, cache, queue, faults, director, uaa>>

\* ... but a client that does not exist is given the one just drawn.
CreateClient(k) ==
    /\ pc[k] = "client"
    /\ uaa' = [uaa EXCEPT ![work.uaa][k] = IF @ = None THEN work.password ELSE @]
    /\ Goto(k, "save", mem[k])
    /\ UNCHANGED <<api, cache, queue, faults, director, secret, work>>

SaveAvailable(k) ==
    /\ pc[k] = "save"
    /\ StatusUpdate(k, [mem[k] EXCEPT !.avail = TRUE], "idle")
    /\ work' = NoWork
    /\ UNCHANGED external

\* Mutants: the client, or the Secret, is left where it is.
DeleteClientSkipped(k) ==
    /\ pc[k] = "deleteClient"
    /\ Goto(k, "deleteSecret", mem[k])
    /\ UNCHANGED <<api, cache, queue, faults, external, work>>

DeleteSecretSkipped(k) ==
    /\ pc[k] = "deleteSecret"
    /\ Goto(k, "unfinalize", mem[k])
    /\ UNCHANGED <<api, cache, queue, faults, external, work>>

DeleteClient(k) ==
    /\ pc[k] = "deleteClient"
    /\ uaa' = [uaa EXCEPT ![work.uaa][k] = None]
    /\ Goto(k, "deleteSecret", mem[k])
    /\ UNCHANGED <<api, cache, queue, faults, director, secret, work>>

DeleteSecret(k) ==
    /\ pc[k] = "deleteSecret"
    /\ secret' = [secret EXCEPT ![k] = None]
    /\ Goto(k, "unfinalize", mem[k])
    /\ UNCHANGED <<api, cache, queue, faults, director, uaa, work>>

EnsureNoFinalizer(k) ==
    /\ pc[k] = "unfinalize"
    /\ UpdateIfFinalizer(k, FALSE, "idle")
    /\ work' = NoWork
    /\ UNCHANGED external

-----------------------------------------------------------------------------
\* An operator creates, edits or removes a Director resource, and the manager
\* sees it.
Operate(d) ==
    /\ \E u \in UAAsOf[d] \union {None} :
          u # director[d] /\ director' = [director EXCEPT ![d] = u]
    /\ UNCHANGED <<ctrlVars, uaa, secret, work>>

\* After a restart the manager sees all Director resources as they are.
Restart ==
    /\ Crash
    /\ KeepWork
    /\ director' \in [Specs -> UAA \union {None}]
    /\ \A d \in Specs : director'[d] \in UAAsOf[d] \union {None}
    /\ UNCHANGED <<uaa, secret>>

Step(k) ==
    \/ SavePrepared(k) \/ Lookup(k) \/ EnsureFinalizer(k) \/ CreateSecret(k)
    \/ CreateClient(k) \/ SaveAvailable(k) \/ DeleteClient(k)
    \/ DeleteSecret(k) \/ EnsureNoFinalizer(k)

Environment(k) ==
    /\ \/ UserCreate(k) \/ UserEdit(k) \/ UserDelete(k)
       \/ Watch(k) \/ Resync(k) \/ Fail(k)
    /\ KeepWork
    /\ UNCHANGED external

Next ==
    \/ \E k \in Key : Get(k) \/ Step(k) \/ Environment(k)
    \/ \E d \in Specs : Operate(d)
    \/ Restart

Spec == Init /\ [][Next]_vars

Fairness ==
    \A k \in Key : /\ WF_vars(Step(k))
                   /\ WF_vars(Watch(k) /\ KeepWork /\ UNCHANGED external)
                   /\ SF_vars(Get(k))

FairSpec == Spec /\ Fairness

-----------------------------------------------------------------------------
\* k carries the finalizer, and its original Director may point to u.
Claims(k, u) ==
    /\ api[k].live
    /\ api[k].fin
    /\ api[k].orig # None
    /\ u \in UAAsOf[api[k].orig]

\* No client is left in a UAA that the Team it was made for does not answer
\* for: deleting a Team deletes its client (README.md:93-95).
NoOrphanClient ==
    \A u \in UAA, k \in Key : uaa[u][k] # None => Claims(k, u)

\* No Secret outlives its Team, or exists before the Team's finalizer does.
NoOrphanSecret ==
    \A k \in Key : secret[k] # None => api[k].live /\ api[k].fin

\* Whoever logs in with the Secret of a Team that is available, and that
\* nobody deletes, is let in: a client of the Team has the same password
\* (README.md:230-232).
AvailableIsUsable ==
    \A k \in Key : api[k].live /\ api[k].avail /\ ~ api[k].del =>
        /\ secret[k] # None
        /\ \E u \in UAAsOf[api[k].orig] : uaa[u][k] = secret[k]

\* The same in the behaviours in which no call has failed yet: whatever the
\* order of the steps, and through deletion and re-creation with another
\* Director, Secret and client never part unless an error parts them.
UsableUntilFault == faults = 0 => AvailableIsUsable

\* The original Director of k has a resource.
Reachable(k) == api[k].orig # None /\ director[api[k].orig] # None

\* If its Director's resource is there from some time on, a Team becomes
\* available, unless its owner deletes it first, and a deleted one goes away,
\* with its client and its Secret.
Completes ==
    \A k \in Key :
        /\ api[k].live /\ [](api[k].orig # None => Reachable(k))
              ~> ~ api[k].live \/ api[k].del \/ api[k].avail
        /\ api[k].del /\ [](api[k].live => Reachable(k)) ~> ~ api[k].live

Promise == INSTANCE Lifecycle WITH
    phase <- [k \in Key |-> Phase(api[k])],
    ext <- [k \in Key |-> secret[k] # None \/ \E u \in UAA : uaa[u][k] # None]

\* The Team reconciler keeps the promise of every reconciler.
ImplementsLifecycle == Promise!Spec

=============================================================================
