------------------------------ MODULE Controller ------------------------------
(***************************************************************************)
(* What every reconciler of the manager runs on: the Kubernetes API server *)
(* that stores the custom resources of one kind, the informer cache the    *)
(* reconciler reads them from, the work queue of the controller and its    *)
(* single worker.  The modules of the reconcilers extend this one and add  *)
(* the steps of their Reconcile method.                                    *)
(*                                                                         *)
(* The objects are indexed by Key (namespace/name).  `rv' is the resource  *)
(* version: it grows with every change of the object, survives a deletion, *)
(* and is what the API server compares on a write.                         *)
(***************************************************************************)
EXTENDS Naturals

CONSTANTS
    Key,         \* the custom resources of the kind, by namespace and name
    Specs,       \* the specs a user can submit
    SpecsOf,     \* SpecsOf[k]: those the owner of k submits
    None,        \* no spec recorded
    Versions,    \* bound: users write only objects that have one of these versions
    MaxFaults    \* bound: errors and crashes in a behaviour

ASSUME ControllerAssumption ==
    /\ None \notin Specs
    /\ SpecsOf \in [Key -> SUBSET Specs]
    /\ Versions \subseteq Nat
    /\ MaxFaults \in Nat

VARIABLES
    api,     \* the objects on the API server
    cache,   \* the copies in the informer cache
    queue,   \* the keys waiting in the work queue
    pc,      \* the step at which the reconciliation of a key is; idle if none
    mem,     \* the copy the running reconciliation works on
    faults   \* errors and crashes so far

ctrlVars == <<api, cache, queue, pc, mem, faults>>

SpecOrNone == Specs \union {None}

(***************************************************************************)
(* A custom resource.  `orig' is the part of the spec that the status      *)
(* keeps, `warn' and `avail' are the other two status fields; `fin' tells  *)
(* whether the finalizer of the kind is there, `del' whether the deletion  *)
(* timestamp is set.                                                       *)
(***************************************************************************)
Object == [rv : Nat, live : BOOLEAN, del : BOOLEAN, fin : BOOLEAN,
           spec : SpecOrNone, orig : SpecOrNone,
           warn : BOOLEAN, avail : BOOLEAN]

Absent(v) == [rv |-> v, live |-> FALSE, del |-> FALSE, fin |-> FALSE,
              spec |-> None, orig |-> None, warn |-> FALSE, avail |-> FALSE]

CtrlTypeOK(Steps) ==
    /\ api \in [Key -> Object]
    /\ cache \in [Key -> Object]
    /\ mem \in [Key -> Object]
    /\ pc \in [Key -> Steps]
    /\ queue \in SUBSET Key
    /\ faults \in 0..MaxFaults

CtrlInit ==
    /\ api = [k \in Key |-> Absent(0)]
    /\ cache = [k \in Key |-> Absent(0)]
    /\ mem = [k \in Key |-> Absent(0)]
    /\ pc = [k \in Key |-> "idle"]
    /\ queue = {}
    /\ faults = 0

-----------------------------------------------------------------------------
(* The users.  The status is a subresource, so what they write never        *)
(* reaches it; deleting an object that has a finalizer only marks it.       *)

UserWrite(k, o) ==
    /\ api[k].rv \in Versions
    /\ api' = [api EXCEPT ![k] = o]
    /\ UNCHANGED <<cache, queue, pc, mem, faults>>

UserCreate(k) ==
    /\ ~ api[k].live
    /\ \E s \in SpecsOf[k] :
          UserWrite(k, [Absent(api[k].rv + 1) EXCEPT !.live = TRUE, !.spec = s])

UserEdit(k) ==
    /\ api[k].live
    /\ \E s \in SpecsOf[k] \ {api[k].spec} :
          UserWrite(k, [api[k] EXCEPT !.rv = @ + 1, !.spec = s])

UserDelete(k) ==
    /\ api[k].live
    /\ ~ api[k].del
    /\ UserWrite(k, IF api[k].fin
                    THEN [api[k] EXCEPT !.rv = @ + 1, !.del = TRUE]
                    ELSE Absent(api[k].rv + 1))

-----------------------------------------------------------------------------
(* The informer and the queue.  A watch event brings the cached copy up to  *)
(* date and enqueues the key; a resync enqueues it with no change.          *)

\* Mutant: the controller is not told of the event.
WatchQuietly(k) ==
    /\ cache[k] # api[k]
    /\ cache' = [cache EXCEPT ![k] = api[k]]
    /\ UNCHANGED <<api, queue, pc, mem, faults>>

Watch(k) ==
    /\ cache[k] # api[k]
    /\ cache' = [cache EXCEPT ![k] = api[k]]
    /\ queue' = queue \union {k}
    /\ UNCHANGED <<api, pc, mem, faults>>

Resync(k) ==
    /\ cache[k].live
    /\ k \notin queue
    /\ queue' = queue \union {k}
    /\ UNCHANGED <<api, cache, pc, mem, faults>>

-----------------------------------------------------------------------------
(* The worker.  There is one per controller: a key is taken up only while   *)
(* no other is being reconciled, and Reconcile starts by reading the copy   *)
(* in the cache.  An error puts the key back into the queue.                *)

Idle == \A k \in Key : pc[k] = "idle"

Dequeue(k) ==
    /\ Idle
    /\ k \in queue
    /\ queue' = queue \ {k}

Goto(k, step, o) ==
    /\ pc' = [pc EXCEPT ![k] = step]
    /\ mem' = [mem EXCEPT ![k] = IF step = "idle" THEN Absent(0) ELSE o]

Retry(k) ==
    /\ Goto(k, "idle", Absent(0))
    /\ queue' = queue \union {k}

\* Mutant: the error is logged and not returned.
FailSwallowed(k) ==
    /\ pc[k] # "idle"
    /\ faults < MaxFaults
    /\ faults' = faults + 1
    /\ Goto(k, "idle", Absent(0))
    /\ UNCHANGED <<api, cache, queue>>

\* A call made at the current step returns an error and has had no effect.
\* (One that had its effect and then failed is the step, and then this.)
Fail(k) ==
    /\ pc[k] # "idle"
    /\ faults < MaxFaults
    /\ faults' = faults + 1
    /\ Retry(k)
    /\ UNCHANGED <<api, cache>>

\* The manager dies and starts again: what was in memory is gone, the cache
\* is filled by a fresh list and every object listed is enqueued.
Crash ==
    /\ faults < MaxFaults
    /\ faults' = faults + 1
    /\ pc' = [k \in Key |-> "idle"]
    /\ mem' = [k \in Key |-> Absent(0)]
    /\ cache' = api
    /\ queue' = {k \in Key : api[k].live}
    /\ UNCHANGED api

-----------------------------------------------------------------------------
(* The writes of a reconciler.  The API server refuses one made from an     *)
(* outdated copy; one that changes nothing keeps the version; the stored    *)
(* object comes back in the response.                                       *)

Stored(old, new) == IF new = old THEN old ELSE [new EXCEPT !.rv = old.rv + 1]

Write(k, m, new, step) ==
    /\ \/ /\ m.rv = api[k].rv
          /\ api' = [api EXCEPT ![k] = new]
          /\ Goto(k, step, new)
          /\ UNCHANGED queue
       \/ /\ m.rv # api[k].rv
          /\ Retry(k)
          /\ UNCHANGED api
    /\ UNCHANGED <<cache, faults>>

\* Status().Update(m), which leaves spec and metadata alone.
StatusUpdate(k, m, step) ==
    Write(k, m,
          Stored(api[k], [api[k] EXCEPT !.orig = m.orig, !.warn = m.warn,
                                        !.avail = m.avail]),
          step)

\* Update(m), which leaves the status alone; an object being deleted goes
\* away with its last finalizer.
Update(k, m, step) ==
    Write(k, m,
          IF api[k].del /\ ~ m.fin
          THEN Absent(api[k].rv + 1)
          ELSE Stored(api[k], [api[k] EXCEPT !.spec = m.spec, !.fin = m.fin]),
          step)

-----------------------------------------------------------------------------
(* What the reconcilers do alike.                                           *)

\* Mutant: a warning is never withdrawn.
PrepareWarned(o) ==
    IF o.orig = None THEN [o EXCEPT !.orig = o.spec]
                     ELSE [o EXCEPT !.warn = @ \/ o.spec # o.orig]

\* The object after PrepareToSave: the first spec is kept in the status, and
\* later the warning says whether the spec still is that one.  The method
\* returns whether it changed anything.
PrepareToSave(o) ==
    IF o.orig = None THEN [o EXCEPT !.orig = o.spec]
                     ELSE [o EXCEPT !.warn = (o.spec # o.orig)]

\* Mutant: the status is patched, whatever the version of the copy.
SaveIfPreparedPatching(k, step) ==
    LET m == PrepareToSave(mem[k])
        new == [api[k] EXCEPT !.rv = @ + 1, !.orig = m.orig, !.warn = m.warn]
    IN
    /\ \/ /\ m # mem[k] /\ api[k].live
          /\ api' = [api EXCEPT ![k] = new]
          /\ Goto(k, step, new)
          /\ UNCHANGED queue
       \/ /\ m # mem[k] /\ ~ api[k].live
          /\ Retry(k)
          /\ UNCHANGED api
       \/ /\ m = mem[k]
          /\ Goto(k, step, m)
          /\ UNCHANGED <<api, queue>>
    /\ UNCHANGED <<cache, faults>>

\* Each change the methods above report is saved at once, and a method that
\* reports none is followed by no call.
SaveIfPrepared(k, step) ==
    LET m == PrepareToSave(mem[k]) IN
    \/ m # mem[k] /\ StatusUpdate(k, m, step)
    \/ m = mem[k] /\ Goto(k, step, m) /\ UNCHANGED <<api, cache, queue, faults>>

UpdateIfFinalizer(k, wanted, step) ==
    \/ mem[k].fin # wanted /\ Update(k, [mem[k] EXCEPT !.fin = wanted], step)
    \/ mem[k].fin = wanted /\ Goto(k, step, mem[k])
                           /\ UNCHANGED <<api, cache, queue, faults>>

-----------------------------------------------------------------------------
(* The vocabulary of the properties.                                        *)

\* Nothing is left to do for k: no reconciliation runs or waits, and the
\* cache has seen the last change.
Settled(k) == pc[k] = "idle" /\ k \notin queue /\ cache[k] = api[k]

\* An object in the state its owner is waiting for.
Converged(o) ==
    o.live => ~ o.del /\ o.fin /\ o.avail /\ o.warn = (o.spec # o.orig)

\* A step that keeps the original spec of every object that stays.
KeepsOriginals ==
    \A k \in Key : api[k].live /\ api[k].orig # None /\ api'[k].live
                      => api'[k].orig = api[k].orig

\* What the API server shows of an object (see Lifecycle).
Phase(o) == CASE ~ o.live         -> "none"
              [] o.live /\ o.del  -> "terminating"
              [] o.live /\ ~ o.del /\ o.fin   -> "claimed"
              [] o.live /\ ~ o.del /\ ~ o.fin -> "declared"

=============================================================================
