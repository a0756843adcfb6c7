--------------------------- MODULE DeploymentProofs ---------------------------
(***************************************************************************)
(* Theorems about the Deployment reconciler, for any number of resources,  *)
(* Teams, Directors, containers and imports, and for any writes, errors,   *)
(* crashes and changes of what a Deployment refers to.                     *)
(***************************************************************************)
EXTENDS DeploymentController, ControllerProofs, SequenceTheorems

Steps == {"idle", "reset", "client"} \union CreateSteps \union DeleteSteps

\* Any owner may have any spec: the flag that is reset makes one of another.
AnySpec == [k \in Key |-> Specs]

\* What the running reconciliation knows at each of its steps.
AtStep(k) ==
    /\ pc[k] # "idle" => mem[k].live
    /\ pc[k] # "idle" /\ mem[k].del /\ cache[k].fin => cache[k].del
    /\ pc[k] \in {"client"} \union CreateSteps \union DeleteSteps => ~ mem[k].spec.force
    /\ pc[k] \in CreateSteps => ~ mem[k].del
    /\ pc[k] \in {"resolve", "create", "save"} => mem[k].fin
    /\ pc[k] \in DeleteSteps => mem[k].del

\* The inductive invariant of the worker.
WorkerInv ==
    /\ CtrlInv(Steps)
    /\ PhaseInv(AnySpec)
    /\ \A k \in Key : AtStep(k)

-----------------------------------------------------------------------------
LEMMA StepNames ==
  /\ Steps = {"idle", "reset", "client", "finalize", "resolve", "create", "save",
              "delete", "unfinalize"}
  /\ CreateSteps = {"finalize", "resolve", "create", "save"}
  /\ DeleteSteps = {"delete", "unfinalize"}
  /\ "prepare" \notin Steps
  BY DEF Steps, CreateSteps, DeleteSteps

LEMMA Typed ==
  ASSUME WorkerInv, NEW k \in Key
  PROVE  /\ CtrlInv(Steps) /\ PhaseInv(AnySpec) /\ AtStep(k)
         /\ api[k] \in Object /\ cache[k] \in Object /\ mem[k] \in Object
         /\ Sane(api[k]) /\ Sane(cache[k]) /\ Sane(mem[k])
         /\ Copy(api[k], cache[k]) /\ Copy(api[k], mem[k])
         /\ api \in [Key -> Object] /\ mem \in [Key -> Object] /\ pc \in [Key -> Steps]
         /\ cache \in [Key -> Object] /\ queue \in SUBSET Key
  BY DEF WorkerInv, CtrlInv, CtrlTypeOK

LEMMA SpecType ==
  ASSUME NEW o \in Object, Sane(o), o.live
  PROVE  o.spec \in Specs /\ o.spec.want \in Want /\ o.spec.force \in BOOLEAN
<1>1. o.spec \in Specs
  BY DEF Object, SpecOrNone, Sane
<1>2. QED
  BY <1>1, DeploymentAssumption

\* A step of the worker concerns one key.
LEMMA WorkerStep ==
  ASSUME WorkerInv, NEW k \in Key, CtrlInv(Steps)', PhaseInv(AnySpec)', UNCHANGED cache,
         \A j \in Key \ {k} : pc'[j] = pc[j] /\ mem'[j] = mem[j],
         AtStep(k)'
  PROVE  WorkerInv'
  BY DEF WorkerInv, AtStep

\* One that moves on with an unchanged copy.
LEMMA MoveStep ==
  ASSUME WorkerInv, NEW k \in Key, NEW step \in Steps \ {"idle"}, pc[k] # "idle",
         Goto(k, step, mem[k]), UNCHANGED <<api, cache, queue, faults>>
  PROVE  /\ CtrlInv(Steps)' /\ PhaseInv(AnySpec)' /\ Phases' = Phases
         /\ mem' = mem /\ pc'[k] = step
         /\ \A j \in Key \ {k} : pc'[j] = pc[j] /\ mem'[j] = mem[j]
<1>1. CtrlInv(Steps)'
  BY Typed, StepNames, GotoStep
<1>2. PhaseInv(AnySpec)' /\ Phases' = Phases
  BY Typed, GotoPhase
<1>3. mem' = mem /\ pc'[k] = step /\ \A j \in Key \ {k} : pc'[j] = pc[j]
  BY Typed DEF Goto
<1>4. QED
  BY <1>1, <1>2, <1>3

\* One that is put off.
LEMMA RetryStep ==
  ASSUME WorkerInv, NEW k \in Key, pc[k] # "idle", Retry(k), UNCHANGED <<api, cache, faults>>
  PROVE  /\ WorkerInv' /\ Phases' = Phases /\ pc'[k] = "idle"
         /\ \A j \in Key \ {k} : pc'[j] = pc[j] /\ mem'[j] = mem[j]
<1>1. Goto(k, "idle", Absent(0)) /\ queue' \in SUBSET Key
  BY Typed DEF Retry
<1>2. /\ Absent(0) \in Object /\ Sane(Absent(0)) /\ Copy(api[k], Absent(0)) /\ "idle" \in Steps
  BY Typed, AbsentType, CopyNothing, StepNames
<1>3. CtrlInv(Steps)'
  BY <1>1, <1>2, Typed, StepNames, GotoStep
<1>4. Goto(k, "idle", mem[k])
  BY <1>1 DEF Goto
<1>5. PhaseInv(AnySpec)' /\ Phases' = Phases
  BY <1>4, Typed, GotoPhase
<1>6. pc'[k] = "idle" /\ \A j \in Key \ {k} : pc'[j] = pc[j] /\ mem'[j] = mem[j]
  BY <1>1, Typed DEF Goto
<1>7. AtStep(k)'
  BY <1>6, StepNames DEF AtStep
<1>8. QED
  BY <1>3, <1>5, <1>6, <1>7, WorkerStep

LEMMA GetStep ==
  ASSUME WorkerInv, NEW k \in Key, Get(k)
  PROVE  /\ WorkerInv' /\ Phases' = Phases
         /\ pc'[k] = IF ~ cache[k].live THEN "idle"
                     ELSE IF cache[k].spec.force THEN "reset" ELSE "client"
         /\ cache[k].live => mem'[k] = cache[k]
         /\ \A j \in Key \ {k} : pc'[j] = pc[j] /\ mem'[j] = mem[j]
<1> DEFINE step == IF ~ cache[k].live THEN "idle"
                   ELSE IF cache[k].spec.force THEN "reset" ELSE "client"
<1>1. Goto(k, step, cache[k]) /\ step \in Steps
  BY StepNames DEF Get
<1>2. /\ step = "idle" \/ (cache[k].live /\ step = "reset")
                       \/ (cache[k].live /\ step = "client" /\ ~ cache[k].spec.force)
      /\ step = "idle" <=> ~ cache[k].live
  OBVIOUS
<1> HIDE DEF step
<1>3. UNCHANGED <<api, cache, faults>> /\ Idle /\ queue' \in SUBSET Key
  BY Typed DEF Get, Dequeue
<1>4. CtrlInv(Steps)' /\ PhaseInv(AnySpec)' /\ Phases' = Phases
  BY <1>1, <1>3, Typed, StepNames, GotoStep, GotoPhase
<1>5. /\ pc'[k] = step /\ (step # "idle" => mem'[k] = cache[k])
      /\ \A j \in Key \ {k} : pc'[j] = pc[j] /\ mem'[j] = mem[j]
  BY <1>1, Typed DEF Goto
<1>6. AtStep(k)'
  BY <1>2, <1>3, <1>5, StepNames DEF AtStep
<1>7. WorkerInv'
  BY <1>3, <1>4, <1>5, <1>6, WorkerStep
<1>8. QED
  BY <1>2, <1>4, <1>5, <1>7 DEF step

-----------------------------------------------------------------------------
LEMMA ResetSpec ==
  ASSUME NEW s \in Specs
  PROVE  LET t == [s EXCEPT !.force = FALSE]
         IN  t \in Specs /\ t.want = s.want /\ t.force = FALSE
<1>1. Specs = [want : Want, force : BOOLEAN]
  BY DeploymentAssumption
<1>2. QED
  BY <1>1

\* What is stored has the fields of what is written, but for the version.
LEMMA StoredFields ==
  ASSUME NEW o \in Object, NEW w \in Object
  PROVE  LET n == Stored(o, w)
         IN  /\ n \in Object
             /\ n = o \/ n.rv > o.rv
             /\ n.live = w.live /\ n.del = w.del /\ n.fin = w.fin
             /\ n.spec = w.spec /\ n.orig = w.orig /\ n.avail = w.avail
<1>1. CASE w = o
  BY <1>1 DEF Stored
<1>2. CASE w # o
  <2> DEFINE n == [w EXCEPT !.rv = o.rv + 1]
  <2>1. Stored(o, w) = n
    BY <1>2 DEF Stored
  <2>2. o.rv \in Nat /\ o.rv + 1 \in Nat
    BY DEF Object
  <2>3. n \in Object
    BY <2>2, FieldTypes
  <2>4. /\ n.rv = o.rv + 1
        /\ n.live = w.live /\ n.del = w.del /\ n.fin = w.fin
        /\ n.spec = w.spec /\ n.orig = w.orig /\ n.avail = w.avail
    BY DEF Object
  <2> HIDE DEF n
  <2>5. QED
    BY <2>1, <2>2, <2>3, <2>4
<1>3. QED
  BY <1>1, <1>2

\* The reset of the flag changes the spec alone, to another one.
LEMMA ResetFields ==
  ASSUME WorkerInv, NEW k \in Key, ResetForce(k)
  PROVE  LET m == [mem[k] EXCEPT !.spec.force = FALSE]
             w == [api[k] EXCEPT !.spec = m.spec, !.fin = m.fin]
         IN  /\ Write(k, m, Stored(api[k], w), "client")
             /\ mem[k].live /\ m.rv = mem[k].rv
             /\ m.spec \in Specs /\ m.spec.want = mem[k].spec.want /\ ~ m.spec.force
             /\ m.rv = api[k].rv =>
                   /\ mem[k] = api[k] /\ w \in Object
                   /\ w.live = api[k].live /\ w.del = api[k].del /\ w.fin = api[k].fin
                   /\ w.orig = api[k].orig /\ w.avail = api[k].avail /\ w.spec = m.spec
<1> DEFINE m == [mem[k] EXCEPT !.spec.force = FALSE]
           w == [api[k] EXCEPT !.spec = m.spec, !.fin = m.fin]
<1>1. pc[k] = "reset" /\ Update(k, m, "client")
  BY DEF ResetForce
<1>2. mem[k].live /\ mem[k].spec \in Specs
  BY <1>1, Typed, SpecType DEF AtStep
<1>3. /\ m.rv = mem[k].rv /\ m.fin = mem[k].fin
      /\ m.spec = [mem[k].spec EXCEPT !.force = FALSE]
  BY Typed DEF Object
<1>4. m.spec \in Specs /\ m.spec.want = mem[k].spec.want /\ ~ m.spec.force
  BY <1>2, <1>3, ResetSpec
<1>5. m.rv = api[k].rv => mem[k] = api[k]
  BY <1>3, Typed, WrittenIsRead
<1> HIDE DEF m
<1>6. ASSUME m.rv = api[k].rv
      PROVE  /\ w \in Object
             /\ w.live = api[k].live /\ w.del = api[k].del /\ w.fin = api[k].fin
             /\ w.orig = api[k].orig /\ w.avail = api[k].avail /\ w.spec = m.spec
  <2>1. m.spec \in SpecOrNone /\ m.fin \in BOOLEAN /\ m.fin = api[k].fin
    BY <1>3, <1>4, <1>5, <1>6, Typed DEF Object, SpecOrNone
  <2>2. w \in Object
    BY <2>1, Typed, FieldTypes
  <2>3. QED
    BY <2>1, <2>2, Typed DEF Object
<1>7. m.rv = api[k].rv => ~ (api[k].del /\ ~ m.fin)
  BY <1>3, <1>5, Typed DEF Sane
<1>8. Write(k, m, Stored(api[k], w), "client")
  BY <1>1, <1>7 DEF Update, Write
<1>9. QED
  BY <1>2, <1>3, <1>4, <1>5, <1>6, <1>8 DEF m

LEMMA ResetForceStep ==
  ASSUME WorkerInv, NEW k \in Key, ResetForce(k)
  PROVE  /\ WorkerInv' /\ Phases' = Phases /\ UNCHANGED external
         /\ pc'[k] \in {"idle", "client"}
         /\ KeepsClaims
         /\ \A j \in Key \ {k} : api'[j] = api[j] /\ pc'[j] = pc[j] /\ mem'[j] = mem[j]
<1> DEFINE m == [mem[k] EXCEPT !.spec.force = FALSE]
           w == [api[k] EXCEPT !.spec = m.spec, !.fin = m.fin]
           new == Stored(api[k], w)
<1>1. /\ Write(k, m, new, "client")
      /\ mem[k].live /\ m.rv = mem[k].rv
      /\ m.spec \in Specs /\ ~ m.spec.force
      /\ m.rv = api[k].rv =>
            /\ mem[k] = api[k] /\ w \in Object
            /\ w.live = api[k].live /\ w.del = api[k].del /\ w.fin = api[k].fin
            /\ w.orig = api[k].orig /\ w.avail = api[k].avail /\ w.spec = m.spec
  BY ResetFields
<1>2. pc[k] = "reset" /\ UNCHANGED external
  BY DEF ResetForce
<1> HIDE DEF m, w
<1>3. ASSUME m.rv = api[k].rv
      PROVE  /\ new \in Object /\ Sane(new)
             /\ new = api[k] \/ new.rv > api[k].rv
             /\ new.live = api[k].live /\ new.del = api[k].del /\ new.fin = api[k].fin
             /\ new.orig = api[k].orig /\ new.avail = api[k].avail /\ new.spec = m.spec
  <2>1. /\ new \in Object
        /\ new = api[k] \/ new.rv > api[k].rv
        /\ new.live = api[k].live /\ new.del = api[k].del /\ new.fin = api[k].fin
        /\ new.orig = api[k].orig /\ new.avail = api[k].avail /\ new.spec = m.spec
    BY <1>1, <1>3, Typed, StoredFields
  <2> HIDE DEF new
  <2>2. api[k].live /\ api[k].rv \in Nat /\ api[k].rv > 0 /\ (api[k].del => api[k].fin)
    BY <1>1, <1>3, Typed DEF Object, Sane
  <2>3. m.spec # None /\ new.rv \in Nat
    BY <1>1, <2>1, ControllerAssumption DEF Object
  <2>4. QED
    BY <2>1, <2>2, <2>3 DEF Sane
<1> HIDE DEF new
<1>4. cache[k].fin /\ ~ cache[k].del => api[k].fin
  BY Typed DEF Copy
<1>5. CtrlInv(Steps)'
  BY <1>1, <1>2, <1>3, <1>4, Typed, StepNames, WriteStep
<1>6. /\ UNCHANGED cache
      /\ \A j \in Key \ {k} : api'[j] = api[j] /\ pc'[j] = pc[j] /\ mem'[j] = mem[j]
      /\ \/ api'[k] = api[k] /\ pc'[k] = "idle" /\ mem'[k] = Absent(0)
         \/ m.rv = api[k].rv /\ api'[k] = new /\ pc'[k] = "client" /\ mem'[k] = new
  BY <1>1, Typed DEF Write, Retry, Goto
<1>7. /\ api'[k].live = api[k].live /\ api'[k].del = api[k].del /\ api'[k].fin = api[k].fin
      /\ api'[k].orig = api[k].orig
      /\ Owned(AnySpec, k, api'[k])
  <2>1. Owned(AnySpec, k, api[k])
    BY Typed DEF PhaseInv
  <2>2. m.spec \in AnySpec[k]
    BY <1>1 DEF AnySpec
  <2>3. QED
    BY <1>3, <1>6, <2>1, <2>2 DEF Owned
<1>8. Owned(AnySpec, k, mem'[k]) /\ Deletion(k)'
  <2>1. CASE api'[k] = api[k] /\ pc'[k] = "idle" /\ mem'[k] = Absent(0)
    BY <1>6, <2>1, Typed, AbsentOwned DEF PhaseInv, Deletion
  <2>2. CASE m.rv = api[k].rv /\ api'[k] = new /\ pc'[k] = "client" /\ mem'[k] = new
    <3>1. mem'[k].del = mem[k].del
      BY <1>1, <1>3, <2>2
    <3>2. Deletion(k)
      BY Typed DEF PhaseInv
    <3>3. QED
      BY <1>2, <1>6, <1>7, <2>2, <3>1, <3>2 DEF Deletion
  <2>3. QED
    BY <1>6, <2>1, <2>2
<1>9. PhaseInv(AnySpec)'
  <2>1. \A j \in Key \ {k} : Deletion(j)'
    BY <1>6, Typed DEF PhaseInv, Deletion
  <2>2. QED
    BY <1>6, <1>7, <1>8, <2>1, Typed DEF PhaseInv, Owned
<1>10. Phases' = Phases
  <2>1. Phase(api'[k]) = Phase(api[k])
    BY <1>7 DEF Phase
  <2>2. QED
    BY <1>6, <2>1, OnePhase DEF Phases
<1>11. AtStep(k)'
  BY <1>1, <1>2, <1>3, <1>6, Typed, StepNames DEF AtStep
<1>12. WorkerInv'
  BY <1>5, <1>6, <1>9, <1>11, WorkerStep
<1>13. QED
  BY <1>2, <1>6, <1>7, <1>10, <1>12 DEF KeepsClaims

-----------------------------------------------------------------------------
\* A reconciliation that finds no Director is put off.
LEMMA ClientStep ==
  ASSUME WorkerInv, NEW k \in Key, Client(k)
  PROVE  /\ WorkerInv' /\ Phases' = Phases /\ UNCHANGED <<api, external>>
         /\ pc'[k] \in {"idle", "finalize", "delete"}
         /\ \A j \in Key \ {k} : pc'[j] = pc[j] /\ mem'[j] = mem[j]
<1>1. /\ pc[k] = "client" /\ mem[k].live /\ ~ mem[k].spec.force
      /\ mem[k].del /\ cache[k].fin => cache[k].del
      /\ UNCHANGED <<api, cache, faults, external>>
  BY Typed DEF Client, AtStep
<1>2. CASE /\ Goto(k, IF mem[k].del THEN "delete" ELSE "finalize", mem[k])
           /\ UNCHANGED queue
  <2>1. PICK step \in Steps \ {"idle"} :
           /\ Goto(k, step, mem[k])
           /\ \/ step = "delete" /\ mem[k].del
              \/ step = "finalize" /\ ~ mem[k].del
    <3>1. CASE mem[k].del
      BY <1>2, <3>1, StepNames
    <3>2. CASE ~ mem[k].del
      BY <1>2, <3>2, StepNames
    <3>3. QED
      BY <3>1, <3>2
  <2>2. /\ CtrlInv(Steps)' /\ PhaseInv(AnySpec)' /\ Phases' = Phases /\ pc'[k] = step /\ mem' = mem
        /\ \A j \in Key \ {k} : pc'[j] = pc[j] /\ mem'[j] = mem[j]
    BY <1>1, <1>2, <2>1, MoveStep
  <2>3. AtStep(k)'
    BY <1>1, <2>1, <2>2, StepNames DEF AtStep
  <2>4. QED
    BY <1>1, <2>1, <2>2, <2>3, WorkerStep
<1>3. CASE Retry(k)
  BY <1>1, <1>3, RetryStep
<1>4. QED
  BY <1>2, <1>3 DEF Client

LEMMA EnsureFinalizerStep ==
  ASSUME WorkerInv, NEW k \in Key, EnsureFinalizer(k)
  PROVE  /\ WorkerInv' /\ UNCHANGED external /\ KeepsClaims
         /\ \/ Phases' = Phases
            \/ Phases[k] = "declared" /\ Phases' = [Phases EXCEPT ![k] = "claimed"]
         /\ pc'[k] \in {"idle", "resolve"}
         /\ pc'[k] = "resolve" => mem'[k].spec = mem[k].spec
         /\ \A j \in Key \ {k} : api'[j] = api[j] /\ pc'[j] = pc[j] /\ mem'[j] = mem[j]
<1>1. pc[k] = "finalize" /\ UpdateIfFinalizer(k, TRUE, "resolve") /\ UNCHANGED external
  BY DEF EnsureFinalizer
<1>2. mem[k].live /\ ~ mem[k].del /\ ~ mem[k].spec.force
  BY <1>1, Typed, StepNames DEF AtStep
<1>3. /\ PhaseInv(AnySpec)'
      /\ \/ Phases' = Phases
         \/ Phases[k] = "declared" /\ Phases' = [Phases EXCEPT ![k] = "claimed"]
  BY <1>1, <1>2, Typed, ClaimPhase
<1>4. CASE Update(k, [mem[k] EXCEPT !.fin = TRUE], "resolve")
  <2>1. /\ CtrlInv(Steps)' /\ KeepsClaims
        /\ pc'[k] = "idle" \/
             /\ pc'[k] = "resolve"
             /\ mem'[k].live /\ ~ mem'[k].del /\ mem'[k].fin
    BY <1>1, <1>2, <1>4, Typed, FinalizerStep, StepNames
  <2>2. /\ UNCHANGED cache
        /\ \A j \in Key \ {k} : api'[j] = api[j] /\ pc'[j] = pc[j] /\ mem'[j] = mem[j]
        /\ \/ pc'[k] = "idle"
           \/ mem[k] = api[k] /\ mem'[k] = api'[k] /\ api'[k].spec = api[k].spec
    BY <1>4, Typed, FinalizerFields
  <2>3. AtStep(k)'
    BY <1>2, <2>1, <2>2, StepNames DEF AtStep
  <2>4. WorkerInv'
    BY <1>3, <2>1, <2>2, <2>3, WorkerStep
  <2>5. QED
    BY <1>1, <1>3, <2>1, <2>2, <2>4
<1>5. CASE mem[k].fin /\ Goto(k, "resolve", mem[k]) /\ UNCHANGED <<api, cache, queue, faults>>
  <2>1. /\ CtrlInv(Steps)' /\ pc'[k] = "resolve" /\ mem' = mem
        /\ \A j \in Key \ {k} : pc'[j] = pc[j] /\ mem'[j] = mem[j]
    BY <1>1, <1>5, MoveStep, StepNames
  <2>2. AtStep(k)'
    BY <1>2, <1>5, <2>1, StepNames DEF AtStep
  <2>3. QED
    BY <1>1, <1>3, <1>5, <2>1, <2>2, WorkerStep DEF KeepsClaims
<1>6. QED
  BY <1>1, <1>4, <1>5 DEF UpdateIfFinalizer

\* A lookup that finds nothing puts the reconciliation off.
LEMMA ResolveStep ==
  ASSUME WorkerInv, NEW k \in Key, Resolve(k)
  PROVE  /\ WorkerInv' /\ Phases' = Phases /\ UNCHANGED <<api, external>>
         /\ pc'[k] \in {"idle", "resolve", "create"}
         /\ pc'[k] # "idle" => mem' = mem
         /\ \A j \in Key \ {k} : pc'[j] = pc[j] /\ mem'[j] = mem[j]
<1>1. /\ pc[k] = "resolve" /\ UNCHANGED <<api, cache, faults, external>>
      /\ mem[k].live /\ ~ mem[k].del /\ mem[k].fin /\ ~ mem[k].spec.force
  BY Typed, StepNames DEF Resolve, AtStep
<1>2. CASE Goto(k, IF work'.left = <<>> THEN "create" ELSE "resolve", mem[k]) /\ UNCHANGED queue
  <2>1. PICK step \in {"resolve", "create"} : Goto(k, step, mem[k])
    BY <1>2
  <2>2. /\ CtrlInv(Steps)' /\ PhaseInv(AnySpec)' /\ Phases' = Phases /\ pc'[k] = step /\ mem' = mem
        /\ \A j \in Key \ {k} : pc'[j] = pc[j] /\ mem'[j] = mem[j]
    BY <1>1, <1>2, <2>1, MoveStep, StepNames
  <2>3. AtStep(k)'
    BY <1>1, <2>1, <2>2, StepNames DEF AtStep
  <2>4. QED
    BY <1>1, <2>1, <2>2, <2>3, WorkerStep
<1>3. CASE Retry(k)
  BY <1>1, <1>3, RetryStep
<1>4. QED
  BY <1>2, <1>3 DEF Resolve

\* The steps that write to the Director and nowhere else.
LEMMA ManifestStep ==
  ASSUME WorkerInv, NEW k \in Key, CreateDeployment(k) \/ DeleteDeployment(k)
  PROVE  /\ WorkerInv' /\ Phases' = Phases /\ UNCHANGED <<api, cache, queue>> /\ mem' = mem
         /\ CreateDeployment(k) => pc[k] = "create" /\ pc'[k] = "save"
         /\ DeleteDeployment(k) => pc[k] = "delete" /\ pc'[k] = "unfinalize"
         /\ \A j \in Key \ {k} : pc'[j] = pc[j] /\ mem'[j] = mem[j]
<1>1. PICK step \in Steps \ {"idle"} :
         /\ Goto(k, step, mem[k])
         /\ CreateDeployment(k) => pc[k] = "create" /\ step = "save"
         /\ DeleteDeployment(k) => pc[k] = "delete" /\ step = "unfinalize"
  <2>1. CASE CreateDeployment(k)
    <3>1. pc[k] = "create" /\ Goto(k, "save", mem[k])
      BY <2>1 DEF CreateDeployment
    <3>2. ~ DeleteDeployment(k)
      BY <3>1 DEF DeleteDeployment
    <3>3. QED
      BY <3>1, <3>2, StepNames
  <2>2. CASE DeleteDeployment(k)
    <3>1. pc[k] = "delete" /\ Goto(k, "unfinalize", mem[k])
      BY <2>2 DEF DeleteDeployment
    <3>2. ~ CreateDeployment(k)
      BY <3>1 DEF CreateDeployment
    <3>3. QED
      BY <3>1, <3>2, StepNames
  <2>3. QED
    BY <2>1, <2>2
<1>2. UNCHANGED <<api, cache, queue, faults>> /\ pc[k] # "idle"
  BY <1>1 DEF CreateDeployment, DeleteDeployment
<1>3. /\ CtrlInv(Steps)' /\ PhaseInv(AnySpec)' /\ Phases' = Phases /\ pc'[k] = step /\ mem' = mem
      /\ \A j \in Key \ {k} : pc'[j] = pc[j] /\ mem'[j] = mem[j]
  BY <1>1, <1>2, MoveStep
<1>4. AtStep(k)'
  BY <1>1, <1>2, <1>3, Typed, StepNames DEF AtStep
<1>5. QED
  BY <1>1, <1>2, <1>3, <1>4, WorkerStep

LEMMA SaveAvailableStep ==
  ASSUME WorkerInv, NEW k \in Key, SaveAvailable(k)
  PROVE  /\ WorkerInv' /\ Phases' = Phases /\ UNCHANGED external /\ KeepsClaims
         /\ pc[k] = "save" /\ pc'[k] = "idle"
         /\ \A j \in Key \ {k} : api'[j] = api[j] /\ pc'[j] = pc[j] /\ mem'[j] = mem[j]
<1> DEFINE m == [mem[k] EXCEPT !.avail = TRUE]
<1>1. pc[k] = "save" /\ StatusUpdate(k, m, "idle") /\ UNCHANGED external
  BY DEF SaveAvailable
<1>2. mem[k].live /\ mem[k].fin
  BY <1>1, Typed, StepNames DEF AtStep
<1>3. m \in Object /\ m.rv = mem[k].rv /\ m.orig = mem[k].orig
  BY Typed DEF Object
<1> HIDE DEF m
<1>4. CtrlInv(Steps)' /\ KeepsClaims /\ pc'[k] = "idle"
  BY <1>1, <1>2, <1>3, Typed, StatusStep, StepNames
<1>5. PhaseInv(AnySpec)' /\ Phases' = Phases
  BY <1>1, <1>2, <1>3, Typed, StatusPhase
<1>6. /\ UNCHANGED cache
      /\ \A j \in Key \ {k} : api'[j] = api[j] /\ pc'[j] = pc[j] /\ mem'[j] = mem[j]
  BY <1>1, Typed, StatusFields
<1>7. AtStep(k)'
  BY <1>4, StepNames DEF AtStep
<1>8. WorkerInv'
  BY <1>4, <1>5, <1>6, <1>7, WorkerStep
<1>9. QED
  BY <1>1, <1>4, <1>5, <1>6, <1>8

LEMMA EnsureNoFinalizerStep ==
  ASSUME WorkerInv, NEW k \in Key, EnsureNoFinalizer(k)
  PROVE  /\ WorkerInv' /\ UNCHANGED external
         /\ pc[k] = "unfinalize" /\ pc'[k] = "idle"
         /\ \/ UNCHANGED api /\ Phases' = Phases
            \/ /\ mem[k] = api[k] /\ ~ api'[k].fin
               /\ Phases[k] = "terminating" /\ Phases' = [Phases EXCEPT ![k] = "none"]
         /\ \A j \in Key \ {k} : api'[j] = api[j] /\ pc'[j] = pc[j] /\ mem'[j] = mem[j]
<1>1. pc[k] = "unfinalize" /\ UpdateIfFinalizer(k, FALSE, "idle") /\ UNCHANGED external
  BY DEF EnsureNoFinalizer
<1>2. /\ mem[k].live /\ mem[k].del /\ mem[k].fin /\ "idle" \in Steps
      /\ cache[k].fin => cache[k].del
  BY <1>1, Typed, StepNames DEF AtStep, Sane
<1>3. Update(k, [mem[k] EXCEPT !.fin = FALSE], "idle")
  BY <1>1, <1>2 DEF UpdateIfFinalizer
<1>4. CtrlInv(Steps)' /\ pc'[k] = "idle"
  BY <1>1, <1>2, <1>3, Typed, NoFinalizerStep
<1>5. /\ PhaseInv(AnySpec)'
      /\ \/ UNCHANGED api /\ Phases' = Phases
         \/ /\ mem[k] = api[k] /\ ~ api'[k].live
            /\ Phases[k] = "terminating" /\ Phases' = [Phases EXCEPT ![k] = "none"]
  BY <1>1, <1>2, Typed, ReleasePhase
<1>6. /\ UNCHANGED cache
      /\ \A j \in Key \ {k} : api'[j] = api[j] /\ pc'[j] = pc[j] /\ mem'[j] = mem[j]
  BY <1>3, Typed DEF Update, Write, Retry, Goto
<1>7. AtStep(k)'
  BY <1>4, StepNames DEF AtStep
<1>8. WorkerInv'
  BY <1>4, <1>5, <1>6, <1>7, WorkerStep
<1>9. ~ api'[k].live => ~ api'[k].fin
  <2>1. api'[k] \in Object /\ Sane(api'[k])
    BY <1>4 DEF CtrlInv, CtrlTypeOK
  <2>2. QED
    BY <2>1, NothingThere
<1>10. QED
  BY <1>1, <1>4, <1>5, <1>6, <1>8, <1>9

LEMMA EnvironmentKeeps ==
  ASSUME WorkerInv, NEW k \in Key, Environment(k)
  PROVE  /\ WorkerInv' /\ UNCHANGED external /\ KeepsClaims
         /\ \/ Phases' = Phases
            \/ \E m \in OwnerMoves : Phases[k] = m[1] /\ Phases' = [Phases EXCEPT ![k] = m[2]]
         /\ \A j \in Key : \/ pc'[j] = "idle"
                           \/ pc'[j] = pc[j] /\ mem'[j] = mem[j]
<1>1. CtrlInv(Steps) /\ PhaseInv(AnySpec) /\ "idle" \in Steps
  BY StepNames DEF WorkerInv
<1>2. CASE UserCreate(k) \/ UserEdit(k) \/ UserDelete(k)
  <2>1. CtrlInv(Steps)' /\ KeepsClaims
    BY <1>1, <1>2, UserStep
  <2>2. UNCHANGED <<cache, pc, mem>>
    BY <1>2 DEF UserCreate, UserEdit, UserDelete, UserWrite
  <2>3. SpecsOf[k] \subseteq AnySpec[k]
    BY ControllerAssumption DEF AnySpec
  <2>4. /\ PhaseInv(AnySpec)'
        /\ \/ Phases' = Phases
           \/ \E m \in OwnerMoves : Phases[k] = m[1] /\ Phases' = [Phases EXCEPT ![k] = m[2]]
    BY <1>1, <1>2, <2>3, UserPhase
  <2>5. WorkerInv'
    BY <2>1, <2>2, <2>4 DEF WorkerInv, AtStep
  <2>6. QED
    BY <2>1, <2>2, <2>4, <2>5 DEF Environment
<1>3. CASE Watch(k) \/ Resync(k) \/ Fail(k) \/ Crash
  <2>1. /\ CtrlInv(Steps)' /\ PhaseInv(AnySpec)' /\ Phases' = Phases
        /\ UNCHANGED api
    BY <1>1, <1>3, EnvironmentStep, EnvironmentPhase
  <2>2. \A j \in Key : /\ \/ pc'[j] = "idle"
                          \/ pc'[j] = pc[j] /\ mem'[j] = mem[j]
                       /\ cache'[j] = cache[j] \/ cache'[j] = api[j]
    BY <1>1, <1>3, ObjectTypes DEF Watch, Resync, Fail, Retry, Goto, Crash
  <2>3. ASSUME NEW j \in Key PROVE AtStep(j)'
    <3>1. AtStep(j) /\ (mem[j].del /\ api[j].fin => api[j].del)
      BY Typed DEF PhaseInv, Deletion
    <3>2. QED
      BY <2>2, <3>1, StepNames DEF AtStep
  <2>4. QED
    BY <2>1, <2>2, <2>3 DEF WorkerInv, Environment, KeepsClaims
<1>4. QED
  BY <1>2, <1>3 DEF Environment

LEMMA WorkerInit == Init => WorkerInv
<1> SUFFICES ASSUME Init PROVE WorkerInv
  OBVIOUS
<1>1. CtrlInv(Steps) /\ PhaseInv(AnySpec)
  BY CtrlInitInv, PhaseInit, StepNames DEF Init
<1>2. QED
  BY <1>1, StepNames DEF WorkerInv, AtStep, Init, CtrlInit

LEMMA WorkerUntouched ==
  ASSUME WorkerInv, UNCHANGED ctrlVars
  PROVE  WorkerInv' /\ Phases' = Phases
  BY SamePhases DEF ctrlVars, WorkerInv, AtStep, CtrlInv, CtrlTypeOK, PhaseInv, Owned, Deletion

LEMMA WorkerNext == WorkerInv /\ [Next]_vars => WorkerInv'
  BY GetStep, ResetForceStep, ClientStep, EnsureFinalizerStep, ResolveStep, ManifestStep,
     SaveAvailableStep, EnsureNoFinalizerStep, EnvironmentKeeps, WorkerUntouched
     DEF Next, Step, Change, ChangeTeam, vars

LEMMA WorkerInvariant == Spec => []WorkerInv
  BY WorkerInit, WorkerNext, PTL DEF Spec

-----------------------------------------------------------------------------
(* The lookups: what is still to be looked up, as a set.                    *)

\* A sequence that is not empty has a first element and others.
LEMMA FirstAndRest ==
  ASSUME NEW S, NEW s \in Seq(S), s # <<>>
  PROVE  Head(s) \in S /\ Tail(s) \in Seq(S) /\ ToSet(s) = {Head(s)} \union ToSet(Tail(s))
<1>1. /\ Head(s) \in S /\ Tail(s) \in Seq(S) /\ Len(Tail(s)) = Len(s) - 1
      /\ \A i \in 1 .. Len(Tail(s)) : Tail(s)[i] = s[i + 1]
  BY HeadTailProperties
<1>2. /\ DOMAIN s = 1 .. Len(s) /\ DOMAIN Tail(s) = 1 .. Len(Tail(s))
      /\ Len(s) \in Nat /\ Len(s) > 0 /\ Head(s) = s[1]
  BY <1>1, LenProperties, EmptySeq
<1>3. ASSUME NEW i \in DOMAIN s PROVE s[i] \in {Head(s)} \union ToSet(Tail(s))
  <2>1. CASE i = 1
    BY <1>2, <2>1
  <2>2. CASE i # 1
    <3>1. i - 1 \in DOMAIN Tail(s) /\ s[i] = Tail(s)[i - 1]
      BY <1>1, <1>2, <2>2
    <3>2. QED
      BY <3>1 DEF ToSet
  <2>3. QED
    BY <2>1, <2>2
<1>4. ASSUME NEW i \in DOMAIN Tail(s) PROVE Tail(s)[i] \in ToSet(s)
  <2>1. i + 1 \in DOMAIN s /\ Tail(s)[i] = s[i + 1]
    BY <1>1, <1>2
  <2>2. QED
    BY <2>1 DEF ToSet
<1>5. 1 \in DOMAIN s
  BY <1>2
<1>6. QED
  BY <1>1, <1>2, <1>3, <1>4, <1>5 DEF ToSet

\* What is in two sequences, one after the other.
LEMMA BothParts ==
  ASSUME NEW S, NEW s \in Seq(S), NEW t \in Seq(S)
  PROVE  s \o t \in Seq(S) /\ ToSet(s \o t) = ToSet(s) \union ToSet(t)
<1>1. /\ s \o t \in Seq(S)
      /\ Len(s \o t) = Len(s) + Len(t)
      /\ \A i \in 1 .. Len(s) + Len(t) : (s \o t)[i] =
                     IF i <= Len(s) THEN s[i] ELSE t[i - Len(s)]
  BY ConcatProperties
<1>2. /\ DOMAIN s = 1 .. Len(s) /\ DOMAIN t = 1 .. Len(t) /\ DOMAIN (s \o t) = 1 .. Len(s \o t)
      /\ Len(s) \in Nat /\ Len(t) \in Nat
  BY <1>1, LenProperties
<1>3. ASSUME NEW i \in DOMAIN (s \o t) PROVE (s \o t)[i] \in ToSet(s) \union ToSet(t)
  <2>1. CASE i <= Len(s)
    <3>1. i \in DOMAIN s /\ (s \o t)[i] = s[i]
      BY <1>1, <1>2, <2>1
    <3>2. QED
      BY <3>1 DEF ToSet
  <2>2. CASE ~ (i <= Len(s))
    <3>1. i - Len(s) \in DOMAIN t /\ (s \o t)[i] = t[i - Len(s)]
      BY <1>1, <1>2, <2>2
    <3>2. QED
      BY <3>1 DEF ToSet
  <2>3. QED
    BY <2>1, <2>2
<1>4. ASSUME NEW i \in DOMAIN s PROVE s[i] \in ToSet(s \o t)
  <2>1. i \in DOMAIN (s \o t) /\ (s \o t)[i] = s[i]
    BY <1>1, <1>2
  <2>2. QED
    BY <2>1 DEF ToSet
<1>5. ASSUME NEW i \in DOMAIN t PROVE t[i] \in ToSet(s \o t)
  <2>1. i + Len(s) \in DOMAIN (s \o t) /\ (s \o t)[i + Len(s)] = t[i]
    BY <1>1, <1>2
  <2>2. QED
    BY <2>1 DEF ToSet
<1>6. QED
  BY <1>1, <1>3, <1>4, <1>5 DEF ToSet

LEMMA OneElement ==
  ASSUME NEW S, NEW e \in S
  PROVE  <<e>> \in Seq(S) /\ ToSet(<<e>>) = {e}
  BY DEF ToSet

\* The lookups of a list of references, by their places.
LEMMA EachLookup ==
  ASSUME NEW use \in Uses, NEW refs \in Seq(Ref)
  PROVE  /\ Each(use, refs) \in Seq(Lookup)
         /\ ToSet(Each(use, refs)) = {[use |-> use, ref |-> refs[i], at |-> i] : i \in DOMAIN refs}
<1>1. DOMAIN refs = 1 .. Len(refs) /\ Len(refs) \in Nat /\ \A i \in DOMAIN refs : refs[i] \in Ref
  BY LenProperties, ElementOfSeq
<1>2. \A i \in DOMAIN refs : [use |-> use, ref |-> refs[i], at |-> i] \in Lookup
  BY <1>1 DEF Lookup
<1>3. Each(use, refs) \in [1 .. Len(refs) -> Lookup]
  BY <1>1, <1>2 DEF Each
<1>4. QED
  BY <1>1, <1>3, SeqDef DEF Each, ToSet

\* What is at a place of a list of a spec.
LEMMA SpecLists ==
  ASSUME NEW w \in Want
  PROVE  /\ RolesOf[w] \in Seq(Ref) /\ AZsOf[w] \in Seq(Ref) /\ RestOf[w] \in Seq(Ref)
         /\ ImageOf[w] \in Ref
         /\ \A i \in DOMAIN RolesOf[w] : /\ RolesOf[w][i] \in Role /\ i \in Nat
                                       /\ ImportsOf[w][i] \in Seq(Ref)
<1>1. RolesOf[w] \in Seq(Role) /\ AZsOf[w] \in Seq(Other) /\ RestOf[w] \in Seq(Other)
  BY DeploymentAssumption
<1>2. Role \subseteq Ref /\ Other \subseteq Ref
  BY DEF Ref
<1>3. RolesOf[w] \in Seq(Ref) /\ AZsOf[w] \in Seq(Ref) /\ RestOf[w] \in Seq(Ref)
  BY <1>1, <1>2, SeqMonotonic
<1>4. ImageOf[w] \in Ref
  BY <1>2, DeploymentAssumption
<1>5. \A i \in DOMAIN RolesOf[w] : RolesOf[w][i] \in Role /\ i \in Nat
  BY <1>1, ElementOfSeq, LenProperties
<1>6. \A i \in DOMAIN RolesOf[w] : ImportsOf[w][i] \in Seq(Ref)
  BY DeploymentAssumption
<1>7. QED
  BY <1>3, <1>4, <1>5, <1>6

WorkType == [director : Director \union {None},
             left : Seq(Lookup), releases : SUBSET Content,
             image : Content \union {None}, jobs : Jobs \union {<<>>}]

\* What a lookup for the spec w refers to.
Fits(w, l) ==
    /\ l.use \in {"list", "job"} => l.at \in DOMAIN RolesOf[w] /\ l.ref = RolesOf[w][l.at]
    /\ l.use \in {"listed", "released"} => l.at \in DOMAIN RolesOf[w]
    /\ l.use = "image" => l.ref = ImageOf[w]

Pending == ToSet(work.left)

\* The work is on the spec w.
WorkOn(w) ==
    /\ work.jobs \in [DOMAIN RolesOf[w] -> Job]
    /\ \A l \in Pending : Fits(w, l)
    /\ work.image # None \/ \E l \in Pending : l.use = "image"

\* The lookups that w starts with.
LEMMA FirstLookups ==
  ASSUME NEW w \in Want
  PROVE  /\ Lookups(w) \in Seq(Lookup)
         /\ \A l \in ToSet(Lookups(w)) : l.use \in {"list", "image", "job", "exists"} /\ Fits(w, l)
         /\ \E l \in ToSet(Lookups(w)) : l.use = "image"
         /\ \A i \in DOMAIN RolesOf[w] :
               /\ \E l \in ToSet(Lookups(w)) : l.use = "list" /\ l.at = i
               /\ \E l \in ToSet(Lookups(w)) : l.use = "job" /\ l.at = i
<1> DEFINE list == Each("list", RolesOf[w])
           image == Each("image", <<ImageOf[w]>>)
           azs == Each("exists", AZsOf[w])
           job == Each("job", RolesOf[w])
           rest == Each("exists", RestOf[w])
<1>1. /\ <<ImageOf[w]>> \in Seq(Ref) /\ DOMAIN <<ImageOf[w]>> = {1} /\ <<ImageOf[w]>>[1] = ImageOf[w]
  BY SpecLists
<1>2. "list" \in Uses /\ "image" \in Uses /\ "exists" \in Uses /\ "job" \in Uses
  BY DEF Uses
<1>3. /\ list \in Seq(Lookup) /\ image \in Seq(Lookup) /\ azs \in Seq(Lookup)
      /\ job \in Seq(Lookup) /\ rest \in Seq(Lookup)
      /\ ToSet(list) = {[use |-> "list", ref |-> RolesOf[w][i], at |-> i] : i \in DOMAIN RolesOf[w]}
      /\ ToSet(image) = {[use |-> "image", ref |-> <<ImageOf[w]>>[i], at |-> i] : i \in DOMAIN <<ImageOf[w]>>}
      /\ ToSet(azs) = {[use |-> "exists", ref |-> AZsOf[w][i], at |-> i] : i \in DOMAIN AZsOf[w]}
      /\ ToSet(job) = {[use |-> "job", ref |-> RolesOf[w][i], at |-> i] : i \in DOMAIN RolesOf[w]}
      /\ ToSet(rest) = {[use |-> "exists", ref |-> RestOf[w][i], at |-> i] : i \in DOMAIN RestOf[w]}
  BY <1>1, <1>2, SpecLists, EachLookup
<1>4. Lookups(w) = list \o image \o azs \o job \o rest
  BY DEF Lookups
<1> HIDE DEF list, image, azs, job, rest
<1>5. /\ Lookups(w) \in Seq(Lookup)
      /\ ToSet(Lookups(w)) =
            ToSet(list) \union ToSet(image) \union ToSet(azs) \union ToSet(job) \union ToSet(rest)
  <2> DEFINE two == list \o image
             three == two \o azs
             four == three \o job
             five == four \o rest
  <2>1. two \in Seq(Lookup) /\ ToSet(two) = ToSet(list) \union ToSet(image)
    BY <1>3, BothParts
  <2> HIDE DEF two
  <2>2. three \in Seq(Lookup) /\ ToSet(three) = ToSet(two) \union ToSet(azs)
    BY <1>3, <2>1, BothParts
  <2> HIDE DEF three
  <2>3. four \in Seq(Lookup) /\ ToSet(four) = ToSet(three) \union ToSet(job)
    BY <1>3, <2>2, BothParts
  <2> HIDE DEF four
  <2>4. five \in Seq(Lookup) /\ ToSet(five) = ToSet(four) \union ToSet(rest)
    BY <1>3, <2>3, BothParts
  <2>5. Lookups(w) = five
    BY <1>4 DEF five, four, three, two
  <2> HIDE DEF five
  <2>6. QED
    BY <2>1, <2>2, <2>3, <2>4, <2>5
<1>6. /\ \A l \in ToSet(list) : l.use = "list" /\ Fits(w, l)
      /\ \A l \in ToSet(image) : l.use = "image" /\ Fits(w, l)
      /\ \A l \in ToSet(azs) \union ToSet(rest) : l.use = "exists" /\ Fits(w, l)
      /\ \A l \in ToSet(job) : l.use = "job" /\ Fits(w, l)
  BY <1>1, <1>3 DEF Fits
<1>7. /\ \E l \in ToSet(image) : l.use = "image"
      /\ \A i \in DOMAIN RolesOf[w] :
            /\ \E l \in ToSet(list) : l.use = "list" /\ l.at = i
            /\ \E l \in ToSet(job) : l.use = "job" /\ l.at = i
  <2>1. [use |-> "image", ref |-> <<ImageOf[w]>>[1], at |-> 1] \in ToSet(image)
    BY <1>1, <1>3
  <2>2. ASSUME NEW i \in DOMAIN RolesOf[w]
        PROVE  /\ [use |-> "list", ref |-> RolesOf[w][i], at |-> i] \in ToSet(list)
               /\ [use |-> "job", ref |-> RolesOf[w][i], at |-> i] \in ToSet(job)
    BY <1>3
  <2>3. \A u, r, i : [use |-> u, ref |-> r, at |-> i].use = u /\ [use |-> u, ref |-> r, at |-> i].at = i
    OBVIOUS
  <2>4. \E l \in ToSet(image) : l.use = "image"
    BY <2>1, <2>3
  <2>5. ASSUME NEW i \in DOMAIN RolesOf[w]
        PROVE  /\ \E l \in ToSet(list) : l.use = "list" /\ l.at = i
               /\ \E l \in ToSet(job) : l.use = "job" /\ l.at = i
    BY <2>2, <2>3
  <2>6. QED
    BY <2>4, <2>5
<1>8. QED
  BY <1>5, <1>6, <1>7

LEMMA BegunWork ==
  ASSUME NEW w \in Want, work \in WorkType
  PROVE  LET n == Begun(w)
         IN  /\ n \in WorkType /\ n.director = work.director /\ n.left = Lookups(w)
             /\ n.releases = work.releases /\ n.image = work.image
             /\ n.jobs \in [DOMAIN RolesOf[w] -> Job]
<1> DEFINE jobs == [i \in DOMAIN RolesOf[w] |-> [role |-> None, release |-> None]]
<1>1. jobs \in [DOMAIN RolesOf[w] -> Job] /\ jobs \in Jobs
  BY DEF Job, Jobs
<1>2. Begun(w) = [work EXCEPT !.left = Lookups(w), !.jobs = jobs]
  BY DEF Begun
<1> HIDE DEF jobs
<1>3. /\ Begun(w).director = work.director /\ Begun(w).left = Lookups(w)
      /\ Begun(w).releases = work.releases /\ Begun(w).image = work.image
      /\ Begun(w).jobs = jobs
  BY <1>2 DEF WorkType
<1>4. Lookups(w) \in Seq(Lookup)
  BY FirstLookups
<1>5. Begun(w) \in WorkType
  BY <1>1, <1>2, <1>4 DEF WorkType
<1>6. QED
  BY <1>1, <1>3, <1>5

\* A lookup that has been made is not pending any more.  A Role found makes one
\* for its Release, and that of a container others for its imports.
More(h, c) ==
    IF h.use = "list" THEN {[use |-> "listed", ref |-> ReleaseOf[c], at |-> h.at]}
    ELSE IF h.use = "job" THEN {[use |-> "released", ref |-> ReleaseOf[c], at |-> h.at]}
    ELSE {}

LEMMA FoundWork ==
  ASSUME NEW w \in Want, work \in WorkType, WorkOn(w), work.left # <<>>, NEW c \in Content,
         Head(work.left).use \in {"list", "job"} => ReleaseOf[c] \in Release
  PROVE  LET h == Head(work.left)
             n == Found(w, c)
         IN  /\ n \in WorkType /\ n.director = work.director
             /\ n.jobs \in [DOMAIN RolesOf[w] -> Job]
             /\ n.image = IF h.use = "image" THEN c ELSE work.image
             /\ n.releases = IF h.use = "listed" THEN work.releases \union {c} ELSE work.releases
             /\ \A i \in DOMAIN RolesOf[w] :
                   /\ n.jobs[i].role = IF h.use = "job" /\ h.at = i THEN c ELSE work.jobs[i].role
                   /\ h.use # "job" /\ (h.use # "released" \/ h.at # i)
                          => n.jobs[i].release = work.jobs[i].release
                   /\ h.use = "job" /\ h.at # i => n.jobs[i].release = work.jobs[i].release
                   /\ h.use = "released" /\ h.at = i => n.jobs[i].release = c
             /\ \A l \in ToSet(n.left) : l \in Pending \/ l.use = "exists" \/ l \in More(h, c)
             /\ \A l \in Pending : l = h \/ l \in ToSet(n.left)
             /\ More(h, c) \subseteq ToSet(n.left)
<1> DEFINE h == Head(work.left)
           t == Tail(work.left)
           n == Found(w, c)
           jobs == work.jobs
<1>1. /\ h \in Lookup /\ t \in Seq(Lookup) /\ Pending = {h} \union ToSet(t)
      /\ h.use \in Uses /\ h.ref \in Ref /\ h.at \in Nat
  <2>1. work.left \in Seq(Lookup)
    BY DEF WorkType
  <2>2. h \in Lookup /\ t \in Seq(Lookup) /\ Pending = {h} \union ToSet(t)
    BY <2>1, FirstAndRest DEF Pending
  <2>3. QED
    BY <2>2 DEF Lookup
<1>2. Fits(w, h)
  BY <1>1 DEF WorkOn
<1>3. jobs \in [DOMAIN RolesOf[w] -> Job]
  BY DEF WorkOn
<1>4. \A f \in [DOMAIN RolesOf[w] -> Job] : f \in Jobs
  BY DEF Jobs
<1>5. /\ work.releases \in SUBSET Content /\ work.image \in Content \union {None}
      /\ work.director \in Director \union {None} /\ work.left \in Seq(Lookup)
  BY DEF WorkType
<1> DEFINE Is(x, left, releases, image, js) ==
              /\ x \in WorkType /\ x.director = work.director
              /\ x.left = left /\ x.releases = releases /\ x.image = image /\ x.jobs = js
<1>6. ASSUME NEW left \in Seq(Lookup), NEW releases \in SUBSET Content,
             NEW image \in Content \union {None}, NEW js \in [DOMAIN RolesOf[w] -> Job]
      PROVE  /\ Is([work EXCEPT !.left = left, !.releases = releases, !.image = image, !.jobs = js],
                    left, releases, image, js)
             /\ Is([work EXCEPT !.left = left], left, work.releases, work.image, jobs)
             /\ Is([[work EXCEPT !.left = left] EXCEPT !.releases = releases],
                   left, releases, work.image, jobs)
             /\ Is([[work EXCEPT !.left = left] EXCEPT !.image = image],
                   left, work.releases, image, jobs)
             /\ Is([[work EXCEPT !.left = left] EXCEPT !.jobs = js],
                   left, work.releases, work.image, js)
  <2>1. js \in Jobs /\ jobs \in Jobs
    BY <1>3, <1>4
  <2>2. QED
    BY <1>3, <1>5, <2>1 DEF WorkType
<1> HIDE DEF h, t, jobs, Is
<1> DEFINE found(use) == [use |-> use, ref |-> ReleaseOf[c], at |-> h.at]
<1>7. ASSUME NEW use \in {"listed", "released"}, ReleaseOf[c] \in Release,
             NEW refs \in Seq(Lookup)
      PROVE  /\ <<found(use)>> \o refs \o t \in Seq(Lookup)
             /\ ToSet(<<found(use)>> \o refs \o t) = {found(use)} \union ToSet(refs) \union ToSet(t)
  <2>1. found(use) \in Lookup
    BY <1>1, <1>7 DEF Lookup, Uses, Ref
  <2> HIDE DEF found
  <2> DEFINE one == <<found(use)>>
             two == one \o refs
  <2>2. one \in Seq(Lookup) /\ ToSet(one) = {found(use)}
    BY <2>1, OneElement
  <2> HIDE DEF one
  <2>3. two \in Seq(Lookup) /\ ToSet(two) = ToSet(one) \union ToSet(refs)
    BY <2>2, BothParts
  <2> HIDE DEF two
  <2>4. two \o t \in Seq(Lookup) /\ ToSet(two \o t) = ToSet(two) \union ToSet(t)
    BY <1>1, <2>3, BothParts
  <2>5. QED
    BY <2>2, <2>3, <2>4 DEF one, two
<1>8. CASE h.use = "list"
  <2>1. n = [work EXCEPT !.left = <<found("listed")>> \o <<>> \o t]
    BY <1>8 DEF Found, h, t
  <2>2. <<>> \in Seq(Lookup) /\ ToSet(<<>>) = {}
    BY DEF ToSet
  <2>3. /\ <<found("listed")>> \o <<>> \o t \in Seq(Lookup)
        /\ ToSet(<<found("listed")>> \o <<>> \o t) = {found("listed")} \union ToSet(t)
    BY <1>7, <1>8, <2>2 DEF h
  <2>4. Is(n, <<found("listed")>> \o <<>> \o t, work.releases, work.image, jobs)
    BY <1>3, <1>5, <1>6, <2>1, <2>3
  <2> HIDE DEF n
  <2>5. QED
    BY <1>1, <1>3, <1>8, <2>3, <2>4 DEF More, Is, jobs, h, n
<1>9. CASE h.use = "listed"
  <2>1. n = [[work EXCEPT !.left = t] EXCEPT !.releases = work.releases \union {c}]
    BY <1>9 DEF Found, h, t, WorkType
  <2> HIDE DEF n
  <2> DEFINE releases == work.releases \union {c}
  <2>0. releases \in SUBSET Content
    BY <1>5
  <2> HIDE DEF releases
  <2>2. Is(n, t, releases, work.image, jobs)
    <3>1. n = [[work EXCEPT !.left = t] EXCEPT !.releases = releases]
      BY <2>1 DEF releases
    <3>2. QED
      BY <1>1, <1>3, <1>5, <1>6, <2>0, <3>1
  <2>3. QED
    BY <1>1, <1>3, <1>9, <2>2 DEF More, Is, jobs, h, n, releases
<1>10. CASE h.use = "image"
  <2>1. n = [[work EXCEPT !.left = t] EXCEPT !.image = c]
    BY <1>10 DEF Found, h, t
  <2> HIDE DEF n
  <2>2. Is(n, t, work.releases, c, jobs)
    <3>1. c \in Content \union {None}
      OBVIOUS
    <3>2. QED
      BY <1>1, <1>3, <1>5, <1>6, <2>1, <3>1
  <2>3. QED
    BY <1>1, <1>3, <1>10, <2>2 DEF More, Is, jobs, h, n
<1>11. CASE h.use = "job"
  <2> DEFINE imports == Each("exists", ImportsOf[w][h.at])
             left == <<found("released")>> \o imports \o t
             js == [jobs EXCEPT ![h.at] = [role |-> c, release |-> None]]
  <2>1. h.at \in DOMAIN RolesOf[w] /\ ImportsOf[w][h.at] \in Seq(Ref)
    BY <1>2, <1>11, SpecLists DEF Fits
  <2>2. imports \in Seq(Lookup) /\ \A l \in ToSet(imports) : l.use = "exists"
    BY <2>1, EachLookup DEF Uses
  <2>3. left \in Seq(Lookup) /\ ToSet(left) = {found("released")} \union ToSet(imports) \union ToSet(t)
    BY <1>7, <1>11, <2>2 DEF h
  <2>4. n = [[work EXCEPT !.left = left] EXCEPT !.jobs = js]
    BY <1>11 DEF Found, h, t, jobs, WorkType
  <2>5. js \in [DOMAIN RolesOf[w] -> Job] /\ js[h.at] = [role |-> c, release |-> None]
        /\ \A i \in DOMAIN RolesOf[w] : i # h.at => js[i] = jobs[i]
    BY <1>3, <2>1 DEF Job
  <2> HIDE DEF left, js, n, imports
  <2>6. Is(n, left, work.releases, work.image, js)
    BY <1>5, <1>6, <2>3, <2>4, <2>5
  <2>7. QED
    BY <1>1, <1>3, <1>11, <2>2, <2>3, <2>5, <2>6 DEF More, Is, jobs, h, n
<1>12. CASE h.use = "released"
  <2> DEFINE js == [jobs EXCEPT ![h.at] = [jobs[h.at] EXCEPT !.release = c]]
  <2>1. h.at \in DOMAIN RolesOf[w] /\ jobs[h.at] \in Job
    BY <1>2, <1>3, <1>12 DEF Fits
  <2>2. n = [[work EXCEPT !.left = t] EXCEPT !.jobs = js]
    BY <1>12 DEF Found, h, t, jobs, WorkType
  <2>3. [jobs[h.at] EXCEPT !.release = c] \in Job
        /\ [jobs[h.at] EXCEPT !.release = c].role = jobs[h.at].role
        /\ [jobs[h.at] EXCEPT !.release = c].release = c
    BY <2>1 DEF Job
  <2>4. js \in [DOMAIN RolesOf[w] -> Job] /\ js[h.at].role = jobs[h.at].role /\ js[h.at].release = c
        /\ \A i \in DOMAIN RolesOf[w] : i # h.at => js[i] = jobs[i]
    BY <1>3, <2>1, <2>3
  <2> HIDE DEF js, n
  <2>5. Is(n, t, work.releases, work.image, js)
    BY <1>1, <1>5, <1>6, <2>2, <2>4
  <2>6. QED
    BY <1>1, <1>3, <1>12, <2>4, <2>5 DEF More, Is, jobs, h, n
<1>13. CASE h.use = "exists"
  <2>1. n = [work EXCEPT !.left = t]
    BY <1>13 DEF Found, h, t
  <2>2. Is(n, t, work.releases, work.image, jobs)
    BY <1>1, <1>5, <1>3, <1>6, <2>1
  <2> HIDE DEF n
  <2>3. QED
    BY <1>1, <1>3, <1>13, <2>2 DEF More, Is, jobs, h, n
<1>14. QED
  BY <1>1, <1>8, <1>9, <1>10, <1>11, <1>12, <1>13 DEF Uses, h

-----------------------------------------------------------------------------
(* What the reconciliation holds while it looks things up.                  *)

DataInv ==
    /\ manifest \in [Director -> [Key -> Manifest \union {None}]]
    /\ shown \in [Ref -> Content \union {None}]
    /\ \A r \in Ref : shown[r] \in ContentOf[r] \union {None}
    /\ teams \in [Team -> Director \union {None, Unready}]
    /\ changes \in 0..MaxChanges
    /\ moved \in [Key -> BOOLEAN]

AtWork(k) ==
    /\ pc[k] \in CreateSteps \union DeleteSteps => work.director \in Director
    /\ pc[k] = "finalize" => work.releases = {}
    /\ pc[k] \in {"resolve", "create"} => WorkOn(mem[k].spec.want)
    /\ pc[k] = "resolve" => work.left # <<>>
    /\ pc[k] = "create" => work.left = <<>>

WorkInv == work \in WorkType /\ \A k \in Key : AtWork(k)

LEMMA NoWorkType ==
  /\ NoWork \in WorkType
  /\ \A d \in Director : LET n == [NoWork EXCEPT !.director = d]
                         IN  n \in WorkType /\ n.director = d /\ n.releases = {}
<1>1. NoWork \in WorkType /\ NoWork.releases = {}
  BY DEF NoWork, WorkType
<1>2. ASSUME NEW d \in Director
      PROVE  LET n == [NoWork EXCEPT !.director = d]
             IN  n \in WorkType /\ n.director = d /\ n.releases = NoWork.releases
  BY <1>1 DEF WorkType
<1>3. QED
  BY <1>1, <1>2

\* There is one worker.
LEMMA OneAtWork ==
  ASSUME WorkerInv, NEW k \in Key, Idle \/ pc[k] # "idle",
         \A j \in Key \ {k} : pc'[j] = pc[j], work' \in WorkType, AtWork(k)'
  PROVE  WorkInv'
<1>1. ASSUME NEW j \in Key \ {k} PROVE pc'[j] = "idle"
  BY DEF WorkerInv, CtrlInv, Idle
<1>2. QED
  BY <1>1, StepNames DEF WorkInv, AtWork

LEMMA WorkWanted ==
  ASSUME WorkerInv, NEW k \in Key, pc[k] # "idle"
  PROVE  mem[k].spec.want \in Want
  BY Typed, SpecType DEF AtStep

\* What the first lookup finds.
LEMMA FirstFound ==
  ASSUME WorkerInv, DataInv, WorkInv, NEW k \in Key, pc[k] = "resolve",
         shown[Head(work.left).ref] # None
  PROVE  LET w == mem[k].spec.want
             c == shown[Head(work.left).ref]
         IN  /\ w \in Want /\ WorkOn(w) /\ work \in WorkType /\ work.left # <<>>
             /\ c \in Content
             /\ Head(work.left) \in Pending /\ Fits(w, Head(work.left))
             /\ Head(work.left).use \in {"list", "job"} => ReleaseOf[c] \in Release
<1> DEFINE w == mem[k].spec.want
           h == Head(work.left)
           c == shown[h.ref]
<1>1. w \in Want
  BY WorkWanted
<1>2. WorkOn(w) /\ work \in WorkType /\ work.left # <<>>
  BY DEF WorkInv, AtWork
<1>3. work.left \in Seq(Lookup)
  BY <1>2 DEF WorkType
<1>4. h \in Lookup /\ h \in Pending
  BY <1>2, <1>3, FirstAndRest DEF Pending
<1>5. h.ref \in Ref
  BY <1>4 DEF Lookup
<1>6. c \in Content /\ c \in ContentOf[h.ref]
  BY <1>5 DEF DataInv
<1>7. Fits(w, h)
  BY <1>2, <1>4 DEF WorkOn
<1>8. h.use \in {"list", "job"} => h.ref \in Role
  BY <1>1, <1>7, SpecLists DEF Fits
<1>9. h.use \in {"list", "job"} => ReleaseOf[c] \in Release
  BY <1>6, <1>8, DeploymentAssumption
<1>10. QED
  BY <1>1, <1>2, <1>4, <1>6, <1>7, <1>9

LEMMA WorkOfResolve ==
  ASSUME WorkerInv, DataInv, WorkInv, NEW k \in Key, Resolve(k)
  PROVE  WorkInv'
<1> DEFINE w == mem[k].spec.want
           h == Head(work.left)
           c == shown[h.ref]
<1>1. /\ pc[k] = "resolve" /\ WorkerInv'
      /\ \A j \in Key \ {k} : pc'[j] = pc[j]
  BY ResolveStep DEF Resolve
<1>2. CASE /\ c # None
           /\ work' = Found(w, c)
           /\ Goto(k, IF work'.left = <<>> THEN "create" ELSE "resolve", mem[k])
  <2>1. /\ w \in Want /\ WorkOn(w) /\ work \in WorkType /\ work.left # <<>>
        /\ c \in Content /\ h \in Pending /\ Fits(w, h)
        /\ h.use \in {"list", "job"} => ReleaseOf[c] \in Release
    BY <1>1, <1>2, FirstFound
  <2>2. /\ work' \in WorkType /\ work'.director = work.director
        /\ work'.jobs \in [DOMAIN RolesOf[w] -> Job]
        /\ work'.image = IF h.use = "image" THEN c ELSE work.image
        /\ \A l \in ToSet(work'.left) : l \in Pending \/ l.use = "exists" \/ l \in More(h, c)
        /\ \A l \in Pending : l = h \/ l \in ToSet(work'.left)
    BY <1>2, <2>1, FoundWork
  <2>3. /\ mem' = mem
        /\ pc'[k] = IF work'.left = <<>> THEN "create" ELSE "resolve"
    BY <1>2, Typed DEF Goto
  <2> HIDE DEF w, h, c
  <2>4. ASSUME NEW l \in ToSet(work'.left) PROVE Fits(w, l)
    <3>1. CASE l \in Pending
      BY <2>1, <3>1 DEF WorkOn
    <3>2. CASE l.use = "exists"
      BY <3>2 DEF Fits
    <3>3. CASE l \in More(h, c)
      BY <2>1, <3>3 DEF More, Fits
    <3>4. QED
      BY <2>2, <2>4, <3>1, <3>2, <3>3
  <2>5. work'.image # None \/ \E l \in ToSet(work'.left) : l.use = "image"
    <3>1. c # None
      BY <2>1, DeploymentAssumption
    <3>2. CASE work.image # None
      BY <2>2, <3>1, <3>2
    <3>3. CASE \E l \in Pending : l.use = "image"
      BY <2>2, <3>1, <3>3
    <3>4. QED
      BY <2>1, <3>2, <3>3 DEF WorkOn
  <2>6. WorkOn(mem[k].spec.want)'
    BY <2>2, <2>3, <2>4, <2>5 DEF WorkOn, Pending, w
  <2>7. work'.director \in Director
    BY <1>1, <2>2, StepNames DEF WorkInv, AtWork
  <2>8. AtWork(k)'
    BY <2>3, <2>6, <2>7 DEF AtWork
  <2>9. QED
    BY <1>1, <2>2, <2>8, OneAtWork
<1>3. CASE work' = NoWork /\ Retry(k)
  <2>1. pc'[k] = "idle"
    BY <1>3, Typed DEF Retry, Goto
  <2>2. AtWork(k)' /\ work' \in WorkType
    BY <1>3, <2>1, NoWorkType, StepNames DEF AtWork
  <2>3. QED
    BY <1>1, <2>2, OneAtWork
<1>4. QED
  BY <1>2, <1>3 DEF Resolve

LEMMA WorkOfFinalizer ==
  ASSUME WorkerInv, WorkInv, NEW k \in Key, EnsureFinalizer(k)
  PROVE  /\ WorkInv'
         /\ pc'[k] = "resolve" => /\ work' = Begun(mem[k].spec.want)
                                  /\ mem'[k].spec = mem[k].spec
<1> DEFINE w == mem[k].spec.want
<1>1. /\ pc[k] = "finalize" /\ work' = IF Idle' THEN NoWork ELSE Begun(w)
      /\ pc'[k] \in {"idle", "resolve"}
      /\ pc'[k] = "resolve" => mem'[k].spec = mem[k].spec
      /\ \A j \in Key \ {k} : pc'[j] = pc[j]
  BY EnsureFinalizerStep DEF EnsureFinalizer
<1>2. w \in Want /\ work \in WorkType /\ work.director \in Director
  BY <1>1, WorkWanted, StepNames DEF WorkInv, AtWork
<1> HIDE DEF w
<1>3. /\ Begun(w) \in WorkType /\ Begun(w).director = work.director /\ Begun(w).left = Lookups(w)
      /\ Begun(w).jobs \in [DOMAIN RolesOf[w] -> Job]
  BY <1>2, BegunWork
<1>4. /\ \A l \in ToSet(Lookups(w)) : Fits(w, l)
      /\ \E l \in ToSet(Lookups(w)) : l.use = "image"
  BY <1>2, FirstLookups
<1>5. Lookups(w) # <<>>
  <2>1. ToSet(<<>>) = {}
    BY DEF ToSet
  <2>2. QED
    BY <1>4, <2>1
<1>6. CASE pc'[k] = "idle"
  <2>1. work' \in WorkType /\ AtWork(k)'
    BY <1>1, <1>3, <1>6, NoWorkType, StepNames DEF AtWork
  <2>2. QED
    BY <1>1, <1>6, <2>1, OneAtWork
<1>7. CASE pc'[k] = "resolve"
  <2>1. ~ Idle'
    BY <1>7 DEF Idle
  <2>2. work' = Begun(w) /\ mem'[k].spec.want = w
    BY <1>1, <1>7, <2>1 DEF w
  <2>3. WorkOn(mem[k].spec.want)'
    BY <1>3, <1>4, <2>2 DEF WorkOn, Pending
  <2>4. AtWork(k)'
    BY <1>2, <1>3, <1>5, <1>7, <2>2, <2>3 DEF AtWork
  <2>5. QED
    BY <1>1, <1>3, <1>7, <2>2, <2>4, OneAtWork DEF w
<1>8. QED
  BY <1>1, <1>6, <1>7

LEMMA WorkNext ==
  ASSUME WorkerInv, DataInv, WorkInv, [Next]_vars
  PROVE  WorkInv'
<1>1. ASSUME NEW k \in Key, Get(k) PROVE WorkInv'
  <2>1. /\ Idle /\ work' = work /\ pc'[k] \in {"idle", "reset", "client"}
        /\ \A j \in Key \ {k} : pc'[j] = pc[j]
    BY <1>1, GetStep DEF Get, Dequeue
  <2>2. AtWork(k)' /\ work' \in WorkType
    BY <2>1, StepNames DEF AtWork, WorkInv
  <2>3. QED
    BY <2>1, <2>2, OneAtWork
<1>2. ASSUME NEW k \in Key, ResetForce(k) PROVE WorkInv'
  <2>1. /\ pc[k] # "idle" /\ work' \in {work, NoWork} /\ pc'[k] \in {"idle", "client"}
        /\ \A j \in Key \ {k} : pc'[j] = pc[j]
    BY <1>2, ResetForceStep DEF ResetForce, KeepWork
  <2>2. AtWork(k)' /\ work' \in WorkType
    BY <2>1, NoWorkType, StepNames DEF AtWork, WorkInv
  <2>3. QED
    BY <2>1, <2>2, OneAtWork
<1>3. ASSUME NEW k \in Key, Client(k) PROVE WorkInv'
  <2>1. /\ pc[k] = "client" /\ pc'[k] \in {"idle", "finalize", "delete"}
        /\ \A j \in Key \ {k} : pc'[j] = pc[j]
    BY <1>3, ClientStep DEF Client
  <2>2. CASE \E t \in Team : TheTeam(t) /\ work' = [NoWork EXCEPT !.director = teams[t]]
    <3>1. PICK t \in Team : TheTeam(t) /\ work' = [NoWork EXCEPT !.director = teams[t]]
      BY <2>2
    <3>2. teams[t] \in Director
      <4>1. t \in {u \in Team : teams[u] # None} /\ teams[t] # Unready
        BY <3>1 DEF TheTeam
      <4>2. QED
        BY <4>1 DEF DataInv
    <3>3. work' \in WorkType /\ work'.director \in Director /\ work'.releases = {}
      BY <3>1, <3>2, NoWorkType
    <3>4. AtWork(k)'
      BY <2>1, <3>3, StepNames DEF AtWork
    <3>5. QED
      BY <2>1, <3>3, <3>4, OneAtWork
  <2>3. CASE work' = NoWork /\ Retry(k)
    <3>1. pc'[k] = "idle"
      BY <2>3, Typed DEF Retry, Goto
    <3>2. AtWork(k)' /\ work' \in WorkType
      BY <2>3, <3>1, NoWorkType, StepNames DEF AtWork
    <3>3. QED
      BY <2>1, <3>2, OneAtWork
  <2>4. QED
    BY <1>3, <2>2, <2>3 DEF Client
<1>4. ASSUME NEW k \in Key, CreateDeployment(k) \/ DeleteDeployment(k) PROVE WorkInv'
  <2>1. /\ pc[k] \in {"create", "delete"} /\ pc'[k] \in {"save", "unfinalize"}
        /\ work' = work /\ \A j \in Key \ {k} : pc'[j] = pc[j]
    BY <1>4, ManifestStep DEF CreateDeployment, DeleteDeployment
  <2>2. AtWork(k)' /\ work' \in WorkType
    BY <2>1, StepNames DEF AtWork, WorkInv
  <2>3. QED
    BY <2>1, <2>2, OneAtWork
<1>5. ASSUME NEW k \in Key, SaveAvailable(k) \/ EnsureNoFinalizer(k) PROVE WorkInv'
  <2>1. /\ pc[k] # "idle" /\ pc'[k] = "idle" /\ work' = NoWork
        /\ \A j \in Key \ {k} : pc'[j] = pc[j]
    BY <1>5, SaveAvailableStep, EnsureNoFinalizerStep DEF SaveAvailable, EnsureNoFinalizer
  <2>2. AtWork(k)' /\ work' \in WorkType
    BY <2>1, NoWorkType, StepNames DEF AtWork
  <2>3. QED
    BY <2>1, <2>2, OneAtWork
<1>6. ASSUME NEW k \in Key, Environment(k) PROVE WorkInv'
  <2>1. /\ work' = IF Idle' THEN NoWork ELSE work
        /\ \A j \in Key : pc'[j] = "idle" \/ (pc'[j] = pc[j] /\ mem'[j] = mem[j])
    BY <1>6, EnvironmentKeeps DEF Environment, KeepWork
  <2>2. work' \in WorkType
    BY <2>1, NoWorkType DEF WorkInv
  <2>3. ASSUME NEW j \in Key PROVE AtWork(j)'
    <3>1. CASE pc'[j] = "idle"
      BY <3>1, StepNames DEF AtWork
    <3>2. CASE pc'[j] # "idle"
      <4>1. work' = work /\ pc'[j] = pc[j] /\ mem'[j] = mem[j]
        BY <2>1, <3>2 DEF Idle
      <4>2. QED
        BY <4>1 DEF WorkInv, AtWork, WorkOn, Pending
    <3>3. QED
      BY <3>1, <3>2
  <2>4. QED
    BY <2>2, <2>3 DEF WorkInv
<1>7. ASSUME UNCHANGED <<pc, mem, work>> PROVE WorkInv'
  BY <1>7 DEF WorkInv, AtWork, WorkOn, Pending
<1>8. QED
  BY <1>1, <1>2, <1>3, <1>4, <1>5, <1>6, <1>7, WorkOfFinalizer, WorkOfResolve
     DEF Next, Step, Change, ChangeTeam, vars, ctrlVars

\* What is posted is a manifest.
LEMMA Posted ==
  ASSUME WorkerInv, DataInv, WorkInv, NEW k \in Key, pc[k] = "create"
  PROVE  /\ Assembled(k) \in Manifest /\ Assembled(k) # None
         /\ work.director \in Director
<1> DEFINE w == mem[k].spec.want
<1>1. /\ WorkOn(w) /\ work.left = <<>> /\ work \in WorkType /\ w \in Want
      /\ work.director \in Director
  BY WorkWanted, StepNames DEF WorkInv, AtWork
<1>2. work.image # None /\ work.jobs \in Jobs
  <2>1. Pending = {}
    BY <1>1 DEF Pending, ToSet
  <2>2. QED
    BY <1>1, <2>1 DEF WorkOn, Jobs
<1>3. work.image \in Content /\ work.releases \in SUBSET Content
  BY <1>1, <1>2 DEF WorkType
<1>4. Assembled(k) \in Manifest
  BY <1>1, <1>2, <1>3 DEF Assembled, Manifest
<1>5. QED
  BY <1>1, <1>4, DeploymentAssumption

LEMMA DataNext ==
  ASSUME WorkerInv, DataInv, WorkInv, [Next]_vars
  PROVE  DataInv'
<1>1. ASSUME NEW k \in Key, CreateDeployment(k) PROVE DataInv'
  <2>1. /\ pc[k] = "create" /\ UNCHANGED <<shown, teams, changes, moved>>
        /\ manifest' = [manifest EXCEPT ![work.director][k] = Assembled(k)]
    BY <1>1 DEF CreateDeployment
  <2>2. QED
    BY <2>1, Posted DEF DataInv
<1>2. ASSUME NEW k \in Key, DeleteDeployment(k) PROVE DataInv'
  <2>1. /\ UNCHANGED <<shown, teams, changes, moved>>
        /\ manifest' = [manifest EXCEPT ![work.director][k] = None]
    BY <1>2 DEF DeleteDeployment
  <2>2. QED
    BY <2>1 DEF DataInv
<1>3. ASSUME NEW r \in Ref, Change(r) PROVE DataInv'
  <2>1. PICK c \in ContentOf[r] \union {None} : shown' = [shown EXCEPT ![r] = c]
    BY <1>3 DEF Change
  <2>2. c \in Content \union {None}
    BY DeploymentAssumption
  <2>3. /\ changes' \in 0..MaxChanges /\ moved' = [k \in Key |-> TRUE]
        /\ UNCHANGED <<manifest, teams>>
    BY <1>3, DeploymentAssumption DEF Change, DataInv
  <2>4. QED
    BY <2>1, <2>2, <2>3 DEF DataInv
<1>4. ASSUME NEW t \in Team, ChangeTeam(t) PROVE DataInv'
  <2>1. PICK d \in Director \union {None, Unready} : teams' = [teams EXCEPT ![t] = d]
    BY <1>4 DEF ChangeTeam
  <2>2. changes' \in 0..MaxChanges /\ UNCHANGED <<manifest, shown, moved>>
    BY <1>4, DeploymentAssumption DEF ChangeTeam, DataInv
  <2>3. QED
    BY <2>1, <2>2 DEF DataInv
<1>5. ASSUME NEW k \in Key, Get(k) PROVE DataInv'
  BY <1>5 DEF Get, external, DataInv
<1>6. ASSUME NEW k \in Key, \/ ResetForce(k) \/ Client(k) \/ EnsureFinalizer(k) \/ Resolve(k)
                            \/ SaveAvailable(k) \/ EnsureNoFinalizer(k) \/ Environment(k)
      PROVE  DataInv'
  <2>1. UNCHANGED <<external, moved>>
    BY <1>6 DEF ResetForce, Client, EnsureFinalizer, Resolve, SaveAvailable, EnsureNoFinalizer,
                Environment
  <2>2. QED
    BY <2>1 DEF external, DataInv
<1>7. ASSUME UNCHANGED vars PROVE DataInv'
  BY <1>7 DEF vars, external, DataInv
<1>8. QED
  BY <1>1, <1>2, <1>3, <1>4, <1>5, <1>6, <1>7 DEF Next, Step

LEMMA WorkInvariant == Spec => [](DataInv /\ WorkInv)
<1>1. Init => DataInv
  <2> SUFFICES ASSUME Init PROVE DataInv
    OBVIOUS
  <2>1. shown \in [Ref -> Content \union {None}] /\ \A r \in Ref : shown[r] \in ContentOf[r] \union {None}
    BY DeploymentAssumption DEF Init
  <2>2. teams \in [Team -> Director \union {None, Unready}] /\ changes \in 0..MaxChanges
    BY DeploymentAssumption DEF Init
  <2>3. QED
    BY <2>1, <2>2 DEF Init, DataInv
<1>2. Init => WorkInv
  BY NoWorkType, StepNames DEF Init, CtrlInit, WorkInv, AtWork
<1>3. WorkerInv /\ DataInv /\ WorkInv /\ [Next]_vars => DataInv' /\ WorkInv'
  BY DataNext, WorkNext
<1>4. QED
  BY <1>1, <1>2, <1>3, WorkerInvariant, PTL DEF Spec

\* Every variable keeps its type: so a manifest that is posted has an image
\* and a job for each container, whatever the order in which they were found.
THEOREM DeploymentTyping == Spec => []TypeOK
<1>1. WorkerInv /\ DataInv /\ WorkInv => TypeOK
  BY DEF WorkerInv, CtrlInv, DataInv, WorkInv, WorkType, TypeOK, Steps
<1>2. QED
  BY <1>1, WorkerInvariant, WorkInvariant, PTL

-----------------------------------------------------------------------------
(* What the Directors have, and the refinement.                             *)

OneDirector == \A d, e \in Director : d = e

Exts == [k \in Key |-> \E d \in Director : manifest[d][k] # None]

ConfInv ==
    \A k \in Key : /\ Exts[k] => api[k].fin
                   /\ pc[k] = "unfinalize" => ~ Exts[k]

\* The two writes reach one manifest of one Director.
LEMMA ManifestOfOne ==
  ASSUME WorkerInv, DataInv, WorkInv, NEW k \in Key
  PROVE  /\ CreateDeployment(k) => manifest'[work.director][k] = Assembled(k)
         /\ DeleteDeployment(k) => manifest'[work.director][k] = None
         /\ CreateDeployment(k) \/ DeleteDeployment(k) =>
               /\ work.director \in Director
               /\ \A d \in Director, j \in Key :
                     d # work.director \/ j # k => manifest'[d][j] = manifest[d][j]
<1>1. manifest \in [Director -> [Key -> Manifest \union {None}]]
  BY DEF DataInv
<1>2. pc[k] \in {"create", "delete"} => work.director \in Director
  BY StepNames DEF WorkInv, AtWork
<1>3. CASE CreateDeployment(k)
  <2>1. pc[k] = "create" /\ ~ DeleteDeployment(k)
    BY <1>3 DEF CreateDeployment, DeleteDeployment
  <2>2. manifest' = [manifest EXCEPT ![work.director][k] = Assembled(k)]
    BY <1>3 DEF CreateDeployment
  <2>3. QED
    BY <1>1, <1>2, <2>1, <2>2
<1>4. CASE DeleteDeployment(k)
  <2>1. pc[k] = "delete" /\ ~ CreateDeployment(k)
    BY <1>4 DEF CreateDeployment, DeleteDeployment
  <2>2. manifest' = [manifest EXCEPT ![work.director][k] = None]
    BY <1>4 DEF DeleteDeployment
  <2>3. QED
    BY <1>1, <1>2, <2>1, <2>2
<1>5. QED
  BY <1>3, <1>4

\* What becomes of the counterparts.
LEMMA CreatedExts ==
  ASSUME WorkerInv, DataInv, WorkInv, NEW k \in Key, CreateDeployment(k)
  PROVE  Exts' = [Exts EXCEPT ![k] = TRUE] /\ api[k].fin
<1>1. pc[k] = "create"
  BY DEF CreateDeployment
<1>2. /\ manifest'[work.director][k] # None /\ work.director \in Director
      /\ \A d \in Director, j \in Key \ {k} : manifest'[d][j] = manifest[d][j]
  BY <1>1, ManifestOfOne, Posted
<1>3. Exts' = [Exts EXCEPT ![k] = TRUE]
  <2>1. \E d \in Director : manifest'[d][k] # None
    BY <1>2
  <2>2. \A j \in Key \ {k} : (\E d \in Director : manifest'[d][j] # None)
                                = (\E d \in Director : manifest[d][j] # None)
    BY <1>2
  <2>3. Exts'[k] = TRUE /\ \A j \in Key \ {k} : Exts'[j] = Exts[j]
    BY <2>1, <2>2 DEF Exts
  <2>4. /\ Exts = [j \in Key |-> Exts[j]]
        /\ Exts' = [j \in Key |-> Exts'[j]]
    BY DEF Exts
  <2>. HIDE DEF Exts
  <2>5. QED
    BY <2>3, <2>4
<1>4. mem[k].fin /\ ~ mem[k].del
  BY <1>1, Typed, StepNames DEF AtStep
<1>5. api[k].fin
  BY <1>4, Typed DEF Copy
<1>6. QED
  BY <1>3, <1>5

LEMMA DeletedExts ==
  ASSUME WorkerInv, DataInv, WorkInv, NEW k \in Key, DeleteDeployment(k)
  PROVE  /\ \A j \in Key \ {k} : Exts'[j] = Exts[j]
         /\ Exts'[k] = Exts[k] \/ (Exts[k] = TRUE /\ Exts'[k] = FALSE)
         /\ OneDirector => Exts'[k] = FALSE
         /\ api[k].fin => api[k].del
<1>1. pc[k] = "delete"
  BY DEF DeleteDeployment
<1>2. /\ manifest'[work.director][k] = None /\ work.director \in Director
      /\ \A d \in Director, j \in Key :
            d # work.director \/ j # k => manifest'[d][j] = manifest[d][j]
  BY ManifestOfOne
<1>3. \A j \in Key \ {k} : Exts'[j] = Exts[j]
  BY <1>2 DEF Exts
<1>4. (\E d \in Director : manifest'[d][k] # None) => \E d \in Director : manifest[d][k] # None
  BY <1>2
<1>5. Exts'[k] = Exts[k] \/ (Exts[k] = TRUE /\ Exts'[k] = FALSE)
  BY <1>4 DEF Exts
<1>6. OneDirector => \A d \in Director : manifest'[d][k] = None
  BY <1>2 DEF OneDirector
<1>7. OneDirector => Exts'[k] = FALSE
  BY <1>6 DEF Exts
<1>8. mem[k].del
  BY <1>1, Typed, StepNames DEF AtStep
<1>9. api[k].fin => api[k].del
  BY <1>8, Typed DEF PhaseInv, Deletion
<1>10. QED
  BY <1>3, <1>5, <1>7, <1>9

LEMMA SameExts ==
  ASSUME UNCHANGED manifest
  PROVE  Exts' = Exts
  BY DEF Exts

LEMMA ConfNext ==
  ASSUME OneDirector, WorkerInv, DataInv, WorkInv, ConfInv, [Next]_vars
  PROVE  ConfInv'
\* A step that leaves the manifests alone and keeps what is claimed.
<1>1. ASSUME UNCHANGED manifest, KeepsClaims,
             \A j \in Key : pc'[j] = "unfinalize" => pc'[j] = pc[j]
      PROVE  ConfInv'
  <2>1. Exts' = Exts
    BY <1>1, SameExts
  <2>2. QED
    BY <1>1, <2>1 DEF ConfInv, KeepsClaims
<1>2. ASSUME NEW k \in Key, Get(k) \/ Client(k) \/ Resolve(k)
      PROVE  ConfInv'
  <2>1. UNCHANGED manifest /\ KeepsClaims
    BY <1>2 DEF Get, Client, Resolve, external, KeepsClaims
  <2>2. QED
    BY <1>1, <1>2, <2>1, GetStep, ClientStep, ResolveStep
<1>3. ASSUME NEW k \in Key, ResetForce(k) \/ EnsureFinalizer(k) \/ SaveAvailable(k)
      PROVE  ConfInv'
  <2>1. UNCHANGED manifest
    BY <1>3 DEF ResetForce, EnsureFinalizer, SaveAvailable, external
  <2>2. QED
    BY <1>1, <1>3, <2>1, ResetForceStep, EnsureFinalizerStep, SaveAvailableStep
<1>4. ASSUME NEW k \in Key, CreateDeployment(k)
      PROVE  ConfInv'
  <2>1. Exts' = [Exts EXCEPT ![k] = TRUE] /\ api[k].fin
    BY <1>4, CreatedExts
  <2>2. /\ UNCHANGED api /\ pc'[k] = "save" /\ \A j \in Key \ {k} : pc'[j] = pc[j]
    BY <1>4, ManifestStep
  <2>3. \A j \in Key : Exts'[j] = IF j = k THEN TRUE ELSE Exts[j]
    BY <2>1 DEF Exts
  <2>4. QED
    BY <2>1, <2>2, <2>3 DEF ConfInv
<1>5. ASSUME NEW k \in Key, DeleteDeployment(k)
      PROVE  ConfInv'
  <2>1. (\A j \in Key \ {k} : Exts'[j] = Exts[j]) /\ Exts'[k] = FALSE
    BY <1>5, DeletedExts
  <2>2. /\ UNCHANGED api /\ \A j \in Key \ {k} : pc'[j] = pc[j]
    BY <1>5, ManifestStep
  <2>3. QED
    BY <2>1, <2>2 DEF ConfInv
\* What goes has no manifest left.
<1>6. ASSUME NEW k \in Key, EnsureNoFinalizer(k)
      PROVE  ConfInv'
  <2>1. /\ UNCHANGED manifest /\ pc[k] = "unfinalize" /\ pc'[k] = "idle"
        /\ \A j \in Key \ {k} : api'[j] = api[j] /\ pc'[j] = pc[j]
    BY <1>6, EnsureNoFinalizerStep DEF external
  <2>2. Exts' = Exts /\ ~ Exts[k]
    BY <2>1, SameExts DEF ConfInv
  <2>3. QED
    BY <2>1, <2>2 DEF ConfInv
<1>7. ASSUME NEW k \in Key, Environment(k)
      PROVE  ConfInv'
  <2>1. UNCHANGED manifest
    BY <1>7 DEF Environment, external
  <2>2. QED
    BY <1>1, <1>7, <2>1, EnvironmentKeeps
<1>8. ASSUME UNCHANGED <<ctrlVars, manifest>>
      PROVE  ConfInv'
  BY <1>1, <1>8 DEF ctrlVars, KeepsClaims
<1>9. QED
  BY <1>2, <1>3, <1>4, <1>5, <1>6, <1>7, <1>8
     DEF Next, Step, Change, ChangeTeam, vars, external

LEMMA ConfInvariant == ASSUME OneDirector PROVE Spec => []ConfInv
<1>1. Init => ConfInv
  <2> SUFFICES ASSUME Init PROVE ConfInv
    OBVIOUS
  <2>1. \A k \in Key, d \in Director : manifest[d][k] = None
    BY DEF Init
  <2>2. QED
    BY <2>1 DEF ConfInv, Exts, Init, CtrlInit
<1>2. WorkerInv /\ DataInv /\ WorkInv /\ ConfInv /\ [Next]_vars => ConfInv'
  BY ConfNext
<1>3. QED
  BY <1>1, <1>2, WorkerInvariant, WorkInvariant, PTL DEF Spec

LEMMA PromiseMove ==
  ASSUME NEW k \in Key, NEW from, NEW to, Phases[k] = from,
         Phases' = [Phases EXCEPT ![k] = to], Exts' = Exts
  PROVE  Promise!Move(k, from, to)
  BY DEF Promise!Move, Phases, Exts

LEMMA PromiseStutter ==
  ASSUME Phases' = Phases, Exts' = Exts
  PROVE  UNCHANGED Promise!vars
  BY DEF Promise!vars, Phases, Exts

LEMMA PromiseStep ==
  ASSUME WorkerInv, DataInv, WorkInv, ConfInv, [Next]_vars
  PROVE  [Promise!Next]_(Promise!vars)
<1>1. ASSUME NEW k \in Key,
             Get(k) \/ ResetForce(k) \/ Client(k) \/ Resolve(k) \/ SaveAvailable(k)
      PROVE  UNCHANGED Promise!vars
  <2>1. UNCHANGED manifest
    BY <1>1 DEF Get, ResetForce, Client, Resolve, SaveAvailable, external
  <2>2. Phases' = Phases
    BY <1>1, GetStep, ResetForceStep, ClientStep, ResolveStep, SaveAvailableStep
  <2>3. QED
    BY <2>1, <2>2, SameExts, PromiseStutter
<1>2. ASSUME NEW k \in Key, EnsureFinalizer(k)
      PROVE  Promise!Next \/ UNCHANGED Promise!vars
  <2>1. Exts' = Exts
    BY <1>2, SameExts DEF EnsureFinalizer, external
  <2>2. Phases' = Phases \/ Promise!Claim(k)
    BY <1>2, <2>1, EnsureFinalizerStep, PromiseMove DEF Promise!Claim
  <2>3. QED
    BY <2>1, <2>2, PromiseStutter DEF Promise!Next
<1>3. ASSUME NEW k \in Key, CreateDeployment(k)
      PROVE  Promise!Next
  <2>1. Exts' = [Exts EXCEPT ![k] = TRUE] /\ api[k].fin
    BY <1>3, CreatedExts
  <2>2. api[k].live
    BY <2>1, Typed, NothingThere
  <2>3. Phases[k] \in {"claimed", "terminating"}
    BY <2>1, <2>2 DEF Phases, Phase
  <2>4. Phases' = Phases
    BY <1>3, ManifestStep
  <2>5. Promise!Provision(k)
    BY <2>1, <2>3, <2>4 DEF Promise!Provision, Phases, Exts
  <2>6. QED
    BY <2>5 DEF Promise!Next
<1>4. ASSUME NEW k \in Key, DeleteDeployment(k)
      PROVE  Promise!Next \/ UNCHANGED Promise!vars
  <2>1. /\ Phases' = Phases /\ (\A j \in Key \ {k} : Exts'[j] = Exts[j])
        /\ Exts'[k] = Exts[k] \/ (Exts[k] = TRUE /\ Exts'[k] = FALSE)
        /\ api[k].fin => api[k].del
    BY <1>4, ManifestStep, DeletedExts
  <2>2. CASE Exts'[k] = Exts[k]
    <3>1. Exts' = Exts
      BY <2>1, <2>2 DEF Exts
    <3>2. QED
      BY <2>1, <3>1, PromiseStutter
  <2>3. CASE Exts'[k] # Exts[k]
    <3>1. Exts[k] = TRUE /\ Exts'[k] = FALSE
      BY <2>1, <2>3
    <3>2. api[k].fin /\ api[k].del
      BY <2>1, <3>1 DEF ConfInv
    <3>3. api[k].live
      BY <3>2, Typed, NothingThere
    <3>4. Phases[k] = "terminating"
      BY <3>2, <3>3 DEF Phases, Phase
    <3>5. Exts' = [Exts EXCEPT ![k] = FALSE]
      BY <2>1, <3>1 DEF Exts
    <3>6. Promise!Deprovision(k)
      BY <2>1, <3>4, <3>5 DEF Promise!Deprovision, Phases, Exts
    <3>7. QED
      BY <3>6 DEF Promise!Next
  <2>4. QED
    BY <2>2, <2>3
<1>5. ASSUME NEW k \in Key, EnsureNoFinalizer(k)
      PROVE  Promise!Next \/ UNCHANGED Promise!vars
  <2>1. pc[k] = "unfinalize" /\ Exts' = Exts
    BY <1>5, SameExts DEF EnsureNoFinalizer, external
  <2>2. CASE Phases' = Phases
    BY <2>1, <2>2, PromiseStutter
  <2>3. CASE Phases[k] = "terminating" /\ Phases' = [Phases EXCEPT ![k] = "none"]
    <3>1. \A d \in Director : manifest[d][k] = None
      BY <2>1 DEF ConfInv, Exts
    <3>2. Promise!Finish(k)
      BY <2>1, <2>3, <3>1, PromiseMove DEF Promise!Finish
    <3>3. QED
      BY <3>2 DEF Promise!Next
  <2>4. QED
    BY <1>5, <2>2, <2>3, EnsureNoFinalizerStep
<1>6. ASSUME NEW k \in Key, Environment(k)
      PROVE  Promise!Next \/ UNCHANGED Promise!vars
  <2>1. Exts' = Exts
    BY <1>6, SameExts DEF Environment, external
  <2>2. CASE Phases' = Phases
    BY <2>1, <2>2, PromiseStutter
  <2>3. CASE \E m \in OwnerMoves : Phases[k] = m[1] /\ Phases' = [Phases EXCEPT ![k] = m[2]]
    <3>1. \E m \in OwnerMoves : Promise!Move(k, m[1], m[2])
      BY <2>1, <2>3, PromiseMove
    <3>2. Promise!Declare(k) \/ Promise!Withdraw(k) \/ Promise!Terminate(k)
      BY <3>1 DEF OwnerMoves, Promise!Declare, Promise!Withdraw, Promise!Terminate
    <3>3. QED
      BY <3>2 DEF Promise!Next
  <2>4. QED
    BY <1>6, <2>2, <2>3, EnvironmentKeeps
<1>7. ASSUME UNCHANGED <<ctrlVars, manifest>>
      PROVE  UNCHANGED Promise!vars
  <2>1. Phases' = Phases
    BY <1>7, WorkerUntouched
  <2>2. QED
    BY <1>7, <2>1, SameExts, PromiseStutter
<1>8. QED
  BY <1>1, <1>2, <1>3, <1>4, <1>5, <1>6, <1>7
     DEF Next, Step, Change, ChangeTeam, vars, external

\* If all the Teams of the namespace log in to one Director, a manifest is on
\* it only for a Deployment that has its finalizer, and gone before that is.
THEOREM DeploymentImplementsLifecycle ==
  ASSUME OneDirector
  PROVE  Spec => ImplementsLifecycle
<1>1. Init => Promise!Init
  <2> SUFFICES ASSUME Init PROVE Promise!Init
    OBVIOUS
  <2>1. \A k \in Key : Phase(api[k]) = "none"
    BY AbsentOwned DEF Init, CtrlInit, Phase
  <2>2. \A k \in Key, d \in Director : manifest[d][k] = None
    BY DEF Init
  <2>3. QED
    BY <2>1, <2>2 DEF Promise!Init
<1>2. WorkerInv /\ DataInv /\ WorkInv /\ ConfInv /\ [Next]_vars => [Promise!Next]_(Promise!vars)
  BY PromiseStep
<1>3. QED
  BY <1>1, <1>2, WorkerInvariant, WorkInvariant, ConfInvariant, PTL
     DEF Spec, ImplementsLifecycle, Promise!Spec

-----------------------------------------------------------------------------
(* What is put together while nothing changes is what is dictated: each of  *)
(* its parts is there, or the lookup that brings it is pending.             *)

RoleAt(w, i) == shown[RolesOf[w][i]]
ReleaseAt(w, i) == shown[ReleaseOf[RoleAt(w, i)]]

IsPending(uses, i) == \E l \in Pending : l.use \in uses /\ l.at = i

Faithful(w) ==
    /\ \A l \in Pending : l.use \in {"listed", "released"} => l.ref = ReleaseOf[RoleAt(w, l.at)]
    /\ \A i \in DOMAIN RolesOf[w] :
          /\ ReleaseAt(w, i) \in work.releases \/ IsPending({"list", "listed"}, i)
          /\ work.jobs[i].role = RoleAt(w, i) \/ IsPending({"job"}, i)
          /\ work.jobs[i].release = ReleaseAt(w, i) \/ IsPending({"job", "released"}, i)
    /\ work.image = shown[ImageOf[w]] \/ \E l \in Pending : l.use = "image"
    /\ work.releases \subseteq {ReleaseAt(w, i) : i \in DOMAIN RolesOf[w]}

AtFaith(k) == pc[k] \in {"resolve", "create"} /\ ~ moved[k] => Faithful(mem[k].spec.want)

FaithInv == \A k \in Key : AtFaith(k)

\* There is one worker.
LEMMA OneFaithful ==
  ASSUME WorkerInv, NEW k \in Key, Idle \/ pc[k] # "idle",
         \A j \in Key \ {k} : pc'[j] = pc[j], AtFaith(k)'
  PROVE  FaithInv'
<1>1. ASSUME NEW j \in Key \ {k} PROVE pc'[j] = "idle"
  BY DEF WorkerInv, CtrlInv, Idle
<1>2. QED
  BY <1>1 DEF FaithInv, AtFaith

LEMMA SameFaith ==
  ASSUME FaithInv, NEW k \in Key, pc'[k] = pc[k], mem'[k] = mem[k], UNCHANGED <<work, shown, moved>>
  PROVE  AtFaith(k)'
<1>1. ASSUME NEW v PROVE Faithful(v) => Faithful(v)'
  <2>1. Pending' = Pending
    BY DEF Pending
  <2>2. \A i : RoleAt(v, i)' = RoleAt(v, i) /\ ReleaseAt(v, i)' = ReleaseAt(v, i)
    BY DEF RoleAt, ReleaseAt
  <2>3. QED
    BY <2>1, <2>2 DEF Faithful, IsPending
<1>2. AtFaith(k)
  BY DEF FaithInv
<1>3. QED
  BY <1>1, <1>2 DEF AtFaith

LEMMA FaithOfFinalizer ==
  ASSUME WorkerInv, WorkInv, NEW k \in Key, EnsureFinalizer(k)
  PROVE  FaithInv'
<1> DEFINE w == mem[k].spec.want
<1>1. /\ pc[k] = "finalize" /\ pc'[k] \in {"idle", "resolve"} /\ UNCHANGED shown
      /\ \A j \in Key \ {k} : pc'[j] = pc[j]
  BY EnsureFinalizerStep DEF EnsureFinalizer, external
<1>2. ASSUME pc'[k] = "resolve" PROVE Faithful(mem[k].spec.want)'
  <2>1. work' = Begun(w) /\ mem'[k].spec.want = w
    BY <1>2, WorkOfFinalizer
  <2>2. w \in Want /\ work \in WorkType /\ work.releases = {}
    BY <1>1, WorkWanted, StepNames DEF WorkInv, AtWork
  <2> HIDE DEF w
  <2>3. work'.left = Lookups(w) /\ work'.releases = {}
    BY <2>1, <2>2, BegunWork
  <2>4. /\ \A l \in ToSet(Lookups(w)) : l.use \in {"list", "image", "job", "exists"}
        /\ \E l \in ToSet(Lookups(w)) : l.use = "image"
        /\ \A i \in DOMAIN RolesOf[w] :
              /\ \E l \in ToSet(Lookups(w)) : l.use = "list" /\ l.at = i
              /\ \E l \in ToSet(Lookups(w)) : l.use = "job" /\ l.at = i
    BY <2>2, FirstLookups
  <2>5. Pending' = ToSet(Lookups(w))
    BY <2>3 DEF Pending
  <2>6. QED
    BY <2>1, <2>3, <2>4, <2>5 DEF Faithful, IsPending
<1>3. AtFaith(k)'
  BY <1>1, <1>2 DEF AtFaith
<1>4. QED
  BY <1>1, <1>3, OneFaithful

LEMMA FaithOfResolve ==
  ASSUME WorkerInv, DataInv, WorkInv, FaithInv, NEW k \in Key, Resolve(k)
  PROVE  FaithInv'
<1> DEFINE w == mem[k].spec.want
           h == Head(work.left)
           c == shown[h.ref]
<1>1. /\ pc[k] = "resolve" /\ UNCHANGED <<shown, moved>>
      /\ \A j \in Key \ {k} : pc'[j] = pc[j]
  BY ResolveStep DEF Resolve, external
<1>2. CASE /\ c # None /\ ~ moved[k]
           /\ work' = Found(w, c)
           /\ Goto(k, IF work'.left = <<>> THEN "create" ELSE "resolve", mem[k])
  <2>1. /\ w \in Want /\ WorkOn(w) /\ work \in WorkType /\ work.left # <<>>
        /\ c \in Content /\ h \in Pending /\ Fits(w, h)
        /\ h.use \in {"list", "job"} => ReleaseOf[c] \in Release
    BY <1>1, <1>2, FirstFound
  <2>2. /\ work'.image = IF h.use = "image" THEN c ELSE work.image
        /\ work'.releases = IF h.use = "listed" THEN work.releases \union {c} ELSE work.releases
        /\ \A i \in DOMAIN RolesOf[w] :
              /\ work'.jobs[i].role = IF h.use = "job" /\ h.at = i THEN c ELSE work.jobs[i].role
              /\ h.use # "job" /\ (h.use # "released" \/ h.at # i)
                     => work'.jobs[i].release = work.jobs[i].release
              /\ h.use = "job" /\ h.at # i => work'.jobs[i].release = work.jobs[i].release
              /\ h.use = "released" /\ h.at = i => work'.jobs[i].release = c
        /\ \A l \in Pending' : l \in Pending \/ l.use = "exists" \/ l \in More(h, c)
        /\ \A l \in Pending : l = h \/ l \in Pending'
        /\ More(h, c) \subseteq Pending'
    <3> DEFINE n == Found(w, c)
    <3> HIDE DEF w, c
    <3>1. /\ n.image = IF h.use = "image" THEN c ELSE work.image
          /\ n.releases = IF h.use = "listed" THEN work.releases \union {c} ELSE work.releases
          /\ \A i \in DOMAIN RolesOf[w] :
                /\ n.jobs[i].role = IF h.use = "job" /\ h.at = i THEN c ELSE work.jobs[i].role
                /\ h.use # "job" /\ (h.use # "released" \/ h.at # i)
                       => n.jobs[i].release = work.jobs[i].release
                /\ h.use = "job" /\ h.at # i => n.jobs[i].release = work.jobs[i].release
                /\ h.use = "released" /\ h.at = i => n.jobs[i].release = c
          /\ \A l \in ToSet(n.left) : l \in Pending \/ l.use = "exists" \/ l \in More(h, c)
          /\ \A l \in Pending : l = h \/ l \in ToSet(n.left)
          /\ More(h, c) \subseteq ToSet(n.left)
      BY <2>1, FoundWork
    <3> HIDE DEF n
    <3>2. work' = n
      BY <1>2 DEF n, w, c
    <3>3. Pending' = ToSet(n.left)
      BY <3>2 DEF Pending
    <3>4. QED
      BY <3>1, <3>2, <3>3
  <2>3. mem' = mem
    BY <1>2, Typed DEF Goto
  <2>4. Faithful(w)
    BY <1>1, <1>2 DEF FaithInv, AtFaith
  <2>5. /\ h.use \in {"list", "job"} => h.at \in DOMAIN RolesOf[w] /\ c = RoleAt(w, h.at)
        /\ h.use \in {"listed", "released"} => h.at \in DOMAIN RolesOf[w] /\ c = ReleaseAt(w, h.at)
        /\ h.use = "image" => c = shown[ImageOf[w]]
    BY <2>1, <2>4 DEF Fits, Faithful, RoleAt, ReleaseAt
  <2>6. UNCHANGED shown
    BY <1>1
  <2> HIDE DEF w, h, c
  <2>7. ASSUME NEW l \in Pending', l.use \in {"listed", "released"}
        PROVE  l.ref = ReleaseOf[RoleAt(w, l.at)]
    <3>1. CASE l \in Pending
      BY <2>4, <2>7, <3>1 DEF Faithful
    <3>2. CASE l \in More(h, c)
      BY <2>5, <3>2 DEF More
    <3>3. QED
      BY <2>2, <2>7, <3>1, <3>2
  <2>8. ASSUME NEW i \in DOMAIN RolesOf[w]
        PROVE  /\ \/ ReleaseAt(w, i) \in work'.releases
                  \/ \E l \in Pending' : l.use \in {"list", "listed"} /\ l.at = i
               /\ \/ work'.jobs[i].role = RoleAt(w, i)
                  \/ \E l \in Pending' : l.use \in {"job"} /\ l.at = i
               /\ \/ work'.jobs[i].release = ReleaseAt(w, i)
                  \/ \E l \in Pending' : l.use \in {"job", "released"} /\ l.at = i
    <3>1. /\ ReleaseAt(w, i) \in work.releases \/ IsPending({"list", "listed"}, i)
          /\ work.jobs[i].role = RoleAt(w, i) \/ IsPending({"job"}, i)
          /\ work.jobs[i].release = ReleaseAt(w, i) \/ IsPending({"job", "released"}, i)
      BY <2>4 DEF Faithful
    <3>2. \/ ReleaseAt(w, i) \in work'.releases
          \/ \E l \in Pending' : l.use \in {"list", "listed"} /\ l.at = i
      <4>1. CASE ReleaseAt(w, i) \in work.releases
        BY <2>2, <4>1
      <4>2. CASE h.use = "list" /\ h.at = i
        <5>1. [use |-> "listed", ref |-> ReleaseOf[c], at |-> i] \in Pending'
          BY <2>2, <4>2 DEF More
        <5>2. QED
          BY <5>1
      <4>3. CASE h.use = "listed" /\ h.at = i
        BY <2>2, <2>5, <4>3
      <4>4. CASE \E l \in Pending : l # h /\ l.use \in {"list", "listed"} /\ l.at = i
        BY <2>2, <4>4
      <4>5. QED
        BY <3>1, <4>1, <4>2, <4>3, <4>4 DEF IsPending
    <3>3. \/ work'.jobs[i].role = RoleAt(w, i)
          \/ \E l \in Pending' : l.use \in {"job"} /\ l.at = i
      <4>1. CASE h.use = "job" /\ h.at = i
        BY <2>2, <2>5, <4>1
      <4>2. CASE ~ (h.use = "job" /\ h.at = i)
        <5>1. work'.jobs[i].role = work.jobs[i].role
          BY <2>2, <4>2
        <5>2. QED
          BY <2>2, <3>1, <4>2, <5>1 DEF IsPending
      <4>3. QED
        BY <4>1, <4>2
    <3>4. \/ work'.jobs[i].release = ReleaseAt(w, i)
          \/ \E l \in Pending' : l.use \in {"job", "released"} /\ l.at = i
      <4>1. CASE h.use = "job" /\ h.at = i
        <5>1. [use |-> "released", ref |-> ReleaseOf[c], at |-> i] \in Pending'
          BY <2>2, <4>1 DEF More
        <5>2. QED
          BY <5>1
      <4>2. CASE h.use = "released" /\ h.at = i
        BY <2>2, <2>5, <4>2
      <4>3. CASE ~ (h.use \in {"job", "released"} /\ h.at = i)
        <5>1. work'.jobs[i].release = work.jobs[i].release
          BY <2>2, <4>3
        <5>2. QED
          BY <2>2, <3>1, <4>3, <5>1 DEF IsPending
      <4>4. QED
        BY <4>1, <4>2, <4>3
    <3>5. QED
      BY <3>2, <3>3, <3>4
  <2>9. work'.image = shown[ImageOf[w]] \/ \E l \in Pending' : l.use = "image"
    <3>1. CASE h.use = "image"
      BY <2>2, <2>5, <3>1
    <3>2. CASE h.use # "image"
      BY <2>2, <2>4, <3>2 DEF Faithful
    <3>3. QED
      BY <3>1, <3>2
  <2>10. work'.releases \subseteq {ReleaseAt(w, i) : i \in DOMAIN RolesOf[w]}
    BY <2>2, <2>4, <2>5 DEF Faithful
  <2>11. /\ \A v, i : RoleAt(v, i)' = RoleAt(v, i) /\ ReleaseAt(v, i)' = ReleaseAt(v, i)
         /\ mem[k].spec.want' = w
    BY <2>3, <2>6 DEF RoleAt, ReleaseAt, w
  <2>12. Faithful(mem[k].spec.want)'
    BY <2>6, <2>7, <2>8, <2>9, <2>10, <2>11 DEF Faithful, IsPending
  <2>13. AtFaith(k)'
    BY <2>12 DEF AtFaith
  <2>14. QED
    BY <1>1, <2>13, OneFaithful
<1>3. CASE moved[k] \/ Retry(k)
  <2>1. moved'[k] \/ pc'[k] = "idle"
    BY <1>1, <1>3, Typed DEF Retry, Goto
  <2>2. AtFaith(k)'
    BY <2>1 DEF AtFaith
  <2>3. QED
    BY <1>1, <2>2, OneFaithful
<1>4. QED
  BY <1>2, <1>3 DEF Resolve

LEMMA FaithNext ==
  ASSUME WorkerInv, DataInv, WorkInv, FaithInv, [Next]_vars
  PROVE  FaithInv'
<1>1. ASSUME NEW k \in Key, \/ Get(k) \/ ResetForce(k) \/ Client(k) \/ CreateDeployment(k)
                            \/ DeleteDeployment(k) \/ SaveAvailable(k) \/ EnsureNoFinalizer(k)
      PROVE FaithInv'
  <2>1. Idle \/ pc[k] # "idle"
    BY <1>1 DEF Get, Dequeue, ResetForce, Client, CreateDeployment, DeleteDeployment,
                SaveAvailable, EnsureNoFinalizer
  <2>2. /\ \A j \in Key \ {k} : pc'[j] = pc[j]
        /\ pc'[k] \in {"idle", "reset", "client", "finalize", "delete", "save", "unfinalize"}
    BY <1>1, GetStep, ResetForceStep, ClientStep, ManifestStep, SaveAvailableStep,
       EnsureNoFinalizerStep
  <2>3. AtFaith(k)'
    BY <2>2 DEF AtFaith
  <2>4. QED
    BY <2>1, <2>2, <2>3, OneFaithful
<1>2. ASSUME NEW k \in Key, Environment(k) PROVE FaithInv'
  <2>1. /\ work' = IF Idle' THEN NoWork ELSE work
        /\ UNCHANGED <<shown, moved>>
        /\ \A j \in Key : pc'[j] = "idle" \/ (pc'[j] = pc[j] /\ mem'[j] = mem[j])
    BY <1>2, EnvironmentKeeps DEF Environment, KeepWork, external
  <2>2. ASSUME NEW j \in Key PROVE AtFaith(j)'
    <3>1. CASE pc'[j] = "idle"
      BY <3>1 DEF AtFaith
    <3>2. CASE pc'[j] # "idle"
      <4>1. work' = work /\ pc'[j] = pc[j] /\ mem'[j] = mem[j] /\ shown' = shown /\ moved' = moved
        BY <2>1, <3>2 DEF Idle
      <4>2. QED
        BY <4>1, SameFaith
    <3>3. QED
      BY <3>1, <3>2
  <2>3. QED
    BY <2>2 DEF FaithInv
\* A change makes this void.
<1>3. ASSUME NEW r \in Ref, Change(r) PROVE FaithInv'
  BY <1>3 DEF Change, FaithInv, AtFaith
<1>4. ASSUME UNCHANGED <<pc, mem, work, shown, moved>> PROVE FaithInv'
  <2>1. ASSUME NEW j \in Key PROVE AtFaith(j)'
    BY <1>4, SameFaith
  <2>2. QED
    BY <2>1 DEF FaithInv
<1>5. QED
  BY <1>1, <1>2, <1>3, <1>4, FaithOfFinalizer, FaithOfResolve
     DEF Next, Step, ChangeTeam, vars, ctrlVars, external

\* With no lookup pending, it is all there.
LEMMA PostedIsDictated ==
  ASSUME WorkerInv, WorkInv, FaithInv, NEW k \in Key, pc[k] = "create", ~ moved[k]
  PROVE  Assembled(k) = Dictated(mem[k].spec.want)
<1> DEFINE w == mem[k].spec.want
<1>1. WorkOn(w) /\ work.left = <<>> /\ Faithful(w)
  BY DEF WorkInv, AtWork, FaithInv, AtFaith
<1>2. Pending = {}
  BY <1>1 DEF Pending, ToSet
<1>3. /\ work.image = shown[ImageOf[w]]
      /\ work.releases = {ReleaseAt(w, i) : i \in DOMAIN RolesOf[w]}
      /\ \A i \in DOMAIN RolesOf[w] : /\ work.jobs[i].role = RoleAt(w, i)
                                    /\ work.jobs[i].release = ReleaseAt(w, i)
  BY <1>1, <1>2 DEF Faithful, IsPending
<1>4. work.jobs \in [DOMAIN RolesOf[w] -> Job]
  BY <1>1 DEF WorkOn
<1>5. ASSUME NEW i \in DOMAIN RolesOf[w]
      PROVE  work.jobs[i] = [role |-> RoleAt(w, i), release |-> ReleaseAt(w, i)]
  BY <1>3, <1>4 DEF Job
<1>6. work.jobs = [i \in DOMAIN RolesOf[w] |-> [role |-> RoleAt(w, i), release |-> ReleaseAt(w, i)]]
  BY <1>4, <1>5
<1>7. QED
  BY <1>3, <1>6 DEF Assembled, Dictated, RoleAt, ReleaseAt

LEMMA FaithInvariant == Spec => []FaithInv
<1>1. Init => FaithInv
  BY DEF Init, CtrlInit, FaithInv, AtFaith
<1>2. WorkerInv /\ DataInv /\ WorkInv /\ FaithInv /\ [Next]_vars => FaithInv'
  BY FaithNext
<1>3. QED
  BY <1>1, <1>2, WorkerInvariant, WorkInvariant, PTL DEF Spec

-----------------------------------------------------------------------------
(* No edit is lost and no flag stays up.                                    *)

\* A Director has what w wants, and as it is dictated unless a change since
\* the last Get has made that void.
Done(k, w) ==
    \E d \in Director : /\ manifest[d][k] # None
                        /\ manifest[d][k].want = w
                        /\ ~ moved[k] => manifest[d][k] = Dictated(w)

Kept(k, o) == o.live => ~ o.del /\ o.avail /\ ~ o.spec.force /\ Done(k, o.spec.want)

Tracked(k) ==
    /\ \/ k \in queue
       \/ pc[k] = "idle" /\ (cache[k].rv < api[k].rv \/ Kept(k, cache[k]))
       \/ pc[k] # "idle" /\ (cache[k].rv < mem[k].rv \/ mem[k] = cache[k])
    /\ pc[k] = "save" => Done(k, mem[k].spec.want)

TrackedInv == \A k \in Key : Tracked(k)

\* A change only makes void what was dictated.
LEMMA SameDone ==
  ASSUME NEW k \in Key, \A d \in Director : manifest'[d][k] = manifest[d][k],
         moved'[k] = TRUE \/ (moved'[k] = moved[k] /\ shown' = shown)
  PROVE  \A w : Done(k, w) => Done(k, w)'
<1>1. ASSUME NEW w, shown' = shown PROVE Dictated(w)' = Dictated(w)
  BY <1>1 DEF Dictated
<1>2. QED
  BY <1>1 DEF Done

LEMMA SameTracked ==
  ASSUME TrackedInv, NEW k \in Key, k \in queue => k \in queue',
         cache'[k] = cache[k], api'[k] = api[k], pc'[k] = pc[k], mem'[k] = mem[k],
         \A w : Done(k, w) => Done(k, w)'
  PROVE  Tracked(k)'
<1>1. Kept(k, cache[k]) => Kept(k, cache[k])'
  BY DEF Kept
<1>2. pc[k] = "save" /\ Done(k, mem[k].spec.want) => Done(k, mem[k].spec.want)'
  OBVIOUS
<1>3. QED
  BY <1>1, <1>2 DEF TrackedInv, Tracked

\* A step of the worker for k leaves the others as they are.
LEMMA TrackedOne ==
  ASSUME TrackedInv, NEW k \in Key, UNCHANGED <<cache, shown>>, queue \ {k} \subseteq queue',
         \A j \in Key \ {k} : /\ api'[j] = api[j] /\ pc'[j] = pc[j] /\ mem'[j] = mem[j]
                              /\ moved'[j] = moved[j]
                              /\ \A d \in Director : manifest'[d][j] = manifest[d][j],
         Tracked(k)'
  PROVE  TrackedInv'
<1>1. ASSUME NEW j \in Key \ {k} PROVE Tracked(j)'
  BY SameDone, SameTracked
<1>2. QED
  BY <1>1 DEF TrackedInv

LEMMA TrackedRetry ==
  ASSUME WorkerInv, TrackedInv, NEW k \in Key, Retry(k), UNCHANGED <<api, cache, external, moved>>
  PROVE  TrackedInv'
<1>1. /\ k \in queue' /\ queue \subseteq queue' /\ pc'[k] = "idle"
      /\ \A j \in Key \ {k} : pc'[j] = pc[j] /\ mem'[j] = mem[j]
  BY Typed DEF Retry, Goto
<1>2. QED
  BY <1>1, TrackedOne DEF Tracked, external

\* The steps that write to the API server.
LEMMA TrackedWrite ==
  ASSUME WorkerInv, TrackedInv, NEW k \in Key, pc[k] # "idle", NEW step \in Steps \ {"save"},
         NEW m, NEW new, Write(k, m, new, step), m.rv = mem[k].rv, UNCHANGED <<external, moved>>,
         m.rv = api[k].rv =>
            \/ new.rv > api[k].rv /\ new.rv \in Nat
            \/ new = api[k] /\ (step = "idle" /\ mem[k] = cache[k] => Kept(k, cache[k]))
  PROVE  TrackedInv'
<1>1. /\ UNCHANGED cache /\ queue \subseteq queue'
      /\ \A j \in Key \ {k} : api'[j] = api[j] /\ pc'[j] = pc[j] /\ mem'[j] = mem[j]
      /\ \/ k \in queue'
         \/ pc'[k] = "idle" /\ cache'[k].rv < api'[k].rv
         \/ pc'[k] # "idle" /\ cache'[k].rv < mem'[k].rv
         \/ /\ m.rv = api[k].rv /\ new = api[k] /\ pc'[k] = step /\ api'[k] = api[k]
            /\ step # "idle" => mem'[k] = api[k]
  BY Typed, WriteNoticed
<1>2. pc'[k] # "save"
  <2>1. pc'[k] \in {"idle", step}
    BY Typed DEF Write, Retry, Goto
  <2>2. QED
    BY <2>1
<1>3. UNCHANGED <<manifest, shown, moved>>
  BY DEF external
<1>4. CASE /\ m.rv = api[k].rv /\ new = api[k] /\ pc'[k] = step /\ api'[k] = api[k]
           /\ step # "idle" => mem'[k] = api[k]
  <2>1. mem[k] = api[k]
    BY <1>4, Typed, WrittenIsRead
  <2>2. k \in queue \/ cache[k].rv < api[k].rv \/ mem[k] = cache[k]
    BY <2>1 DEF TrackedInv, Tracked
  <2>3. step = "idle" /\ mem[k] = cache[k] => Kept(k, cache[k])
    <3>1. ~ (api[k].rv > api[k].rv)
      BY Typed DEF Object
    <3>2. QED
      BY <1>4, <3>1
  <2>4. Kept(k, cache[k]) => Kept(k, cache[k])'
    BY <1>1, <1>3, SameDone DEF Kept
  <2>5. Tracked(k)'
    BY <1>1, <1>2, <1>4, <2>1, <2>2, <2>3, <2>4 DEF Tracked
  <2>6. QED
    BY <1>1, <1>3, <2>5, TrackedOne
<1>5. CASE \/ k \in queue'
           \/ pc'[k] = "idle" /\ cache'[k].rv < api'[k].rv
           \/ pc'[k] # "idle" /\ cache'[k].rv < mem'[k].rv
  <2>1. Tracked(k)'
    BY <1>2, <1>5 DEF Tracked
  <2>2. QED
    BY <1>1, <1>3, <2>1, TrackedOne
<1>6. QED
  BY <1>1, <1>4, <1>5

\* Those that move on with an unchanged copy.
LEMMA TrackedGoto ==
  ASSUME WorkerInv, TrackedInv, NEW k \in Key, NEW step \in Steps \ {"idle"},
         pc[k] # "idle", Goto(k, step, mem[k]), UNCHANGED <<api, cache, queue, shown, moved>>,
         step = "save" => Done(k, mem[k].spec.want)',
         \A j \in Key \ {k}, d \in Director : manifest'[d][j] = manifest[d][j]
  PROVE  TrackedInv'
<1>1. /\ pc'[k] = step /\ mem' = mem
      /\ \A j \in Key \ {k} : api'[j] = api[j] /\ pc'[j] = pc[j] /\ mem'[j] = mem[j]
  BY Typed DEF Goto
<1>2. Tracked(k)'
  BY <1>1 DEF Tracked, TrackedInv
<1>3. QED
  BY <1>1, <1>2, TrackedOne

LEMMA TrackedEnvironment ==
  ASSUME WorkerInv, TrackedInv, NEW k \in Key, Environment(k)
  PROVE  TrackedInv'
<1>1. /\ api \in [Key -> Object] /\ mem \in [Key -> Object] /\ pc \in [Key -> Steps]
      /\ cache \in [Key -> Object] /\ UNCHANGED <<external, moved>>
      /\ cache[k].rv <= api[k].rv /\ cache[k].rv \in Nat /\ api[k].rv \in Nat
  BY Typed DEF Copy, Object, Environment
<1>2. UNCHANGED <<manifest, shown, moved>>
  BY <1>1 DEF external
<1>3. \A j \in Key : \A w : Done(j, w) => Done(j, w)'
  BY <1>2, SameDone
<1>4. CASE UserCreate(k) \/ UserEdit(k) \/ UserDelete(k)
  <2>1. /\ UNCHANGED <<cache, queue, pc, mem>> /\ api'[k].rv = api[k].rv + 1
        /\ \A j \in Key \ {k} : api'[j] = api[j]
    BY <1>4, Typed, UserVersion
  <2>2. pc[k] = "save" /\ Done(k, mem[k].spec.want) => Done(k, mem[k].spec.want)'
    BY <1>3, <2>1
  <2>3. Tracked(k)'
    BY <1>1, <2>1, <2>2 DEF TrackedInv, Tracked
  <2>4. QED
    BY <1>2, <2>1, <2>3, TrackedOne
<1>5. CASE Watch(k)
  <2>1. /\ k \in queue' /\ queue \subseteq queue' /\ UNCHANGED <<api, pc, mem>>
        /\ \A j \in Key \ {k} : cache'[j] = cache[j]
    BY <1>1, <1>5 DEF Watch
  <2>2. ASSUME NEW j \in Key \ {k} PROVE Tracked(j)'
    BY <1>3, <2>1, SameTracked
  <2>3. pc[k] = "save" /\ Done(k, mem[k].spec.want) => Done(k, mem[k].spec.want)'
    BY <1>3, <2>1
  <2>4. Tracked(k)'
    BY <2>1, <2>3 DEF TrackedInv, Tracked
  <2>5. QED
    BY <2>2, <2>4 DEF TrackedInv
<1>6. CASE Resync(k)
  <2>1. /\ k \in queue' /\ queue \subseteq queue' /\ UNCHANGED <<api, cache, pc, mem>>
    BY <1>6 DEF Resync
  <2>2. ASSUME NEW j \in Key PROVE Tracked(j)'
    BY <1>3, <2>1, SameTracked
  <2>3. QED
    BY <2>2 DEF TrackedInv
<1>7. CASE Fail(k)
  BY <1>1, <1>7, TrackedRetry DEF Fail
<1>8. CASE Crash
  <2>1. \A j \in Key : pc'[j] = "idle" /\ cache'[j] = api[j] /\ (api[j].live => j \in queue')
    BY <1>8 DEF Crash
  <2>2. QED
    BY <2>1 DEF TrackedInv, Tracked, Kept
<1>9. QED
  BY <1>4, <1>5, <1>6, <1>7, <1>8 DEF Environment

LEMMA TrackedOfGet ==
  ASSUME WorkerInv, TrackedInv, NEW k \in Key, Get(k)
  PROVE  TrackedInv'
<1>1. /\ UNCHANGED <<api, cache, manifest, shown>> /\ queue \ {k} \subseteq queue'
      /\ \A j \in Key \ {k} : moved'[j] = moved[j]
  BY DEF Get, Dequeue, external
<1>2. /\ pc'[k] = IF ~ cache[k].live THEN "idle"
                  ELSE IF cache[k].spec.force THEN "reset" ELSE "client"
      /\ cache[k].live => mem'[k] = cache[k]
      /\ \A j \in Key \ {k} : pc'[j] = pc[j] /\ mem'[j] = mem[j]
  BY GetStep
<1>3. ~ cache[k].live => pc'[k] = "idle"
  BY <1>2
<1>4. cache[k].live => pc'[k] \in {"reset", "client"}
  BY <1>2
<1>5. Tracked(k)'
  BY <1>1, <1>2, <1>3, <1>4 DEF Tracked, Kept
<1>6. QED
  BY <1>1, <1>2, <1>5, TrackedOne

LEMMA TrackedOfReset ==
  ASSUME WorkerInv, TrackedInv, NEW k \in Key, ResetForce(k)
  PROVE  TrackedInv'
<1> DEFINE m == [mem[k] EXCEPT !.spec.force = FALSE]
           w == [api[k] EXCEPT !.spec = m.spec, !.fin = m.fin]
<1>1. /\ Write(k, m, Stored(api[k], w), "client") /\ m.rv = mem[k].rv
      /\ m.rv = api[k].rv => w \in Object
  BY ResetFields
<1>2. pc[k] = "reset" /\ UNCHANGED <<external, moved>>
  BY DEF ResetForce
<1> HIDE DEF m, w
<1>3. m.rv = api[k].rv => \/ Stored(api[k], w) = api[k]
                          \/ Stored(api[k], w).rv > api[k].rv /\ Stored(api[k], w).rv \in Nat
  BY <1>1, Typed, StoredVersion
<1>4. "client" \in Steps \ {"save"} /\ pc[k] # "idle"
  BY <1>2, StepNames
<1>5. QED
  BY <1>1, <1>2, <1>3, <1>4, TrackedWrite

LEMMA TrackedOfFinalizer ==
  ASSUME WorkerInv, TrackedInv, NEW k \in Key, EnsureFinalizer(k)
  PROVE  TrackedInv'
<1> DEFINE m == [mem[k] EXCEPT !.fin = TRUE]
           w == [api[k] EXCEPT !.spec = m.spec, !.fin = m.fin]
<1>1. pc[k] = "finalize" /\ UNCHANGED <<external, moved>>
  BY DEF EnsureFinalizer
<1>2. m \in Object /\ m.rv = mem[k].rv /\ m.fin = TRUE
  BY Typed DEF Object
<1>3. "resolve" \in Steps \ {"idle"} /\ "resolve" \in Steps \ {"save"} /\ pc[k] # "idle"
  BY <1>1, StepNames
<1>4. CASE Update(k, m, "resolve")
  <2>1. w \in Object
    BY <1>2, Typed DEF Object
  <2>2. Write(k, m, Stored(api[k], w), "resolve")
    BY <1>2, <1>4 DEF Update
  <2> HIDE DEF w, m
  <2>3. \/ Stored(api[k], w) = api[k]
        \/ Stored(api[k], w).rv > api[k].rv /\ Stored(api[k], w).rv \in Nat
    BY <2>1, Typed, StoredVersion
  <2>4. QED
    BY <1>1, <1>2, <1>3, <2>2, <2>3, TrackedWrite
<1>5. CASE Goto(k, "resolve", mem[k]) /\ UNCHANGED <<api, cache, queue, faults>>
  BY <1>1, <1>3, <1>5, TrackedGoto DEF external
<1>6. QED
  BY <1>4, <1>5 DEF EnsureFinalizer, UpdateIfFinalizer

\* The last write changes nothing only if everything is in place.
LEMMA TrackedOfSave ==
  ASSUME WorkerInv, TrackedInv, NEW k \in Key, SaveAvailable(k)
  PROVE  TrackedInv'
<1> DEFINE m == [mem[k] EXCEPT !.avail = TRUE]
           w == [api[k] EXCEPT !.orig = m.orig, !.warn = m.warn, !.avail = m.avail]
<1>1. pc[k] = "save" /\ UNCHANGED <<external, moved>> /\ StatusUpdate(k, m, "idle")
  BY DEF SaveAvailable
<1>2. m \in Object /\ m.rv = mem[k].rv /\ m.avail = TRUE
  BY Typed DEF Object
<1>3. w \in Object /\ w.avail = TRUE
  BY <1>2, Typed DEF Object
<1>4. Write(k, m, Stored(api[k], w), "idle")
  BY <1>1 DEF StatusUpdate
<1> HIDE DEF m, w
<1>5. \/ Stored(api[k], w) = api[k] /\ w = api[k]
      \/ Stored(api[k], w).rv > api[k].rv /\ Stored(api[k], w).rv \in Nat
  BY <1>3, Typed, StoredVersion
<1>6. ASSUME m.rv = api[k].rv, w = api[k], mem[k] = cache[k]
      PROVE  Kept(k, cache[k])
  <2>1. mem[k] = api[k]
    BY <1>2, <1>6, Typed, WrittenIsRead
  <2>2. cache[k].avail
    BY <1>3, <1>6, <2>1
  <2>3. ~ mem[k].del /\ ~ mem[k].spec.force
    BY <1>1, Typed, StepNames DEF AtStep
  <2>4. Done(k, mem[k].spec.want)
    BY <1>1 DEF TrackedInv, Tracked
  <2>5. QED
    BY <1>6, <2>2, <2>3, <2>4 DEF Kept
<1>7. "idle" \in Steps \ {"save"} /\ pc[k] # "idle"
  BY <1>1, StepNames
<1>8. m.rv = api[k].rv =>
         \/ Stored(api[k], w).rv > api[k].rv /\ Stored(api[k], w).rv \in Nat
         \/ Stored(api[k], w) = api[k] /\ (mem[k] = cache[k] => Kept(k, cache[k]))
  BY <1>5, <1>6
<1>9. QED
  BY <1>1, <1>2, <1>4, <1>7, <1>8, TrackedWrite

\* The last write of a deletion takes the object away.
LEMMA TrackedOfRelease ==
  ASSUME WorkerInv, TrackedInv, NEW k \in Key, EnsureNoFinalizer(k)
  PROVE  TrackedInv'
<1> DEFINE m == [mem[k] EXCEPT !.fin = FALSE]
           new == IF api[k].del THEN Absent(api[k].rv + 1)
                  ELSE Stored(api[k], [api[k] EXCEPT !.spec = m.spec, !.fin = m.fin])
<1>1. pc[k] = "unfinalize" /\ UNCHANGED <<external, moved>> /\ UpdateIfFinalizer(k, FALSE, "idle")
  BY DEF EnsureNoFinalizer
<1>2. mem[k].del /\ mem[k].fin
  BY <1>1, Typed, StepNames DEF AtStep, Sane
<1>3. m.rv = mem[k].rv /\ m.fin = FALSE
  BY Typed DEF Object
<1>4. Write(k, m, new, "idle")
  BY <1>1, <1>2, <1>3 DEF UpdateIfFinalizer, Update
<1>5. m.rv = api[k].rv => api[k].del
  BY <1>2, <1>3, Typed, WrittenIsRead
<1> HIDE DEF m
<1>6. api[k].del => new.rv > api[k].rv /\ new.rv \in Nat
  <2>1. api[k].rv \in Nat
    BY Typed DEF Object
  <2>2. QED
    BY <2>1 DEF Absent
<1> HIDE DEF new
<1>7. "idle" \in Steps \ {"save"} /\ pc[k] # "idle"
  BY <1>1, StepNames
<1>8. QED
  BY <1>1, <1>3, <1>4, <1>5, <1>6, <1>7, TrackedWrite

\* What is posted is what is wanted, and what is dictated.
LEMMA TrackedOfCreate ==
  ASSUME WorkerInv, DataInv, WorkInv, FaithInv, TrackedInv, NEW k \in Key, CreateDeployment(k)
  PROVE  TrackedInv'
<1>1. /\ pc[k] = "create" /\ Goto(k, "save", mem[k])
      /\ UNCHANGED <<api, cache, queue, shown, moved>>
  BY DEF CreateDeployment
<1>2. /\ manifest'[work.director][k] = Assembled(k) /\ work.director \in Director
      /\ \A j \in Key \ {k}, d \in Director : manifest'[d][j] = manifest[d][j]
      /\ Assembled(k) # None
  BY <1>1, ManifestOfOne, Posted
<1>3. Assembled(k).want = mem[k].spec.want
  BY DEF Assembled
<1>4. ~ moved[k] => Assembled(k) = Dictated(mem[k].spec.want)
  BY <1>1, PostedIsDictated
<1>5. ASSUME NEW w, w = mem[k].spec.want PROVE Done(k, w)'
  <2>1. Dictated(w)' = Dictated(w)
    BY <1>1 DEF Dictated
  <2>2. QED
    BY <1>1, <1>2, <1>3, <1>4, <1>5, <2>1 DEF Done
<1>6. mem' = mem
  BY <1>1, Typed DEF Goto
<1>7. Done(k, mem[k].spec.want)'
  BY <1>5, <1>6
<1>8. "save" \in Steps \ {"idle"} /\ pc[k] # "idle"
  BY <1>1, StepNames
<1>9. QED
  BY <1>1, <1>2, <1>7, <1>8, TrackedGoto

LEMMA TrackedNext ==
  ASSUME WorkerInv, DataInv, WorkInv, FaithInv, TrackedInv, [Next]_vars
  PROVE  TrackedInv'
<1>1. ASSUME NEW k \in Key, Client(k) PROVE TrackedInv'
  <2>1. pc[k] = "client" /\ UNCHANGED <<api, cache, external, moved>>
    BY <1>1 DEF Client
  <2>2. ASSUME NEW step \in {"finalize", "delete"}, Goto(k, step, mem[k]), UNCHANGED queue
        PROVE  TrackedInv'
    BY <2>1, <2>2, TrackedGoto, StepNames DEF external
  <2>3. CASE Goto(k, IF mem[k].del THEN "delete" ELSE "finalize", mem[k]) /\ UNCHANGED queue
    BY <2>2, <2>3
  <2>4. CASE Retry(k)
    BY <2>1, <2>4, TrackedRetry
  <2>5. QED
    BY <1>1, <2>3, <2>4 DEF Client
<1>2. ASSUME NEW k \in Key, Resolve(k) PROVE TrackedInv'
  <2>1. pc[k] = "resolve" /\ UNCHANGED <<api, cache, external, moved>>
    BY <1>2 DEF Resolve
  <2>2. ASSUME NEW step \in {"create", "resolve"}, Goto(k, step, mem[k]), UNCHANGED queue
        PROVE  TrackedInv'
    BY <2>1, <2>2, TrackedGoto, StepNames DEF external
  <2>3. CASE Goto(k, IF work'.left = <<>> THEN "create" ELSE "resolve", mem[k]) /\ UNCHANGED queue
    BY <2>2, <2>3
  <2>4. CASE Retry(k)
    BY <2>1, <2>4, TrackedRetry
  <2>5. QED
    BY <1>2, <2>3, <2>4 DEF Resolve
<1>3. ASSUME NEW k \in Key, DeleteDeployment(k) PROVE TrackedInv'
  <2>1. /\ pc[k] = "delete" /\ Goto(k, "unfinalize", mem[k])
        /\ UNCHANGED <<api, cache, queue, shown, moved>>
    BY <1>3 DEF DeleteDeployment
  <2>2. \A j \in Key \ {k}, d \in Director : manifest'[d][j] = manifest[d][j]
    BY <1>3, ManifestOfOne
  <2>3. QED
    BY <2>1, <2>2, TrackedGoto, StepNames
<1>4. ASSUME UNCHANGED <<ctrlVars, manifest>>,
             \/ UNCHANGED <<shown, moved>>
             \/ \A k \in Key : moved'[k] = TRUE
      PROVE  TrackedInv'
  <2>1. UNCHANGED <<api, cache, queue, pc, mem>>
    BY <1>4 DEF ctrlVars
  <2>2. ASSUME NEW k \in Key PROVE Tracked(k)'
    <3>1. \A w : Done(k, w) => Done(k, w)'
      BY <1>4, SameDone
    <3>2. QED
      BY <2>1, <3>1, SameTracked
  <2>3. QED
    BY <2>2 DEF TrackedInv
<1>5. ASSUME NEW r \in Ref, Change(r) PROVE TrackedInv'
  <2>1. UNCHANGED <<ctrlVars, manifest>> /\ \A k \in Key : moved'[k] = TRUE
    BY <1>5 DEF Change
  <2>2. QED
    BY <1>4, <2>1
<1>6. QED
  BY <1>1, <1>2, <1>3, <1>4, <1>5, TrackedOfGet, TrackedOfReset, TrackedOfFinalizer,
     TrackedOfCreate, TrackedOfSave, TrackedOfRelease, TrackedEnvironment
     DEF Next, Step, ChangeTeam, vars, external

LEMMA TrackedInvariant == Spec => []TrackedInv
<1>1. Init => TrackedInv
  <2> SUFFICES ASSUME Init, NEW k \in Key PROVE Tracked(k)
    BY DEF TrackedInv
  <2>1. pc[k] = "idle" /\ ~ cache[k].live
    BY AbsentType, NothingThere DEF Init, CtrlInit, Absent
  <2>2. QED
    BY <2>1 DEF Tracked, Kept
<1>2. WorkerInv /\ DataInv /\ WorkInv /\ FaithInv /\ TrackedInv /\ [Next]_vars => TrackedInv'
  BY TrackedNext
<1>3. QED
  BY <1>1, <1>2, WorkerInvariant, WorkInvariant, FaithInvariant, PTL DEF Spec

LEMMA SettledIsKept ==
  ASSUME WorkerInv, TrackedInv, NEW k \in Key, Settled(k), api[k].live
  PROVE  ~ api[k].del /\ api[k].avail /\ ~ api[k].spec.force /\ Done(k, api[k].spec.want)
<1>1. pc[k] = "idle" /\ k \notin queue /\ cache[k] = api[k] /\ ~ (cache[k].rv < api[k].rv)
  BY Typed DEF Settled, Object
<1>2. QED
  BY <1>1 DEF TrackedInv, Tracked, Kept

\* Whatever fails and whoever writes what in between, once nothing is queued or
\* running for a Deployment, a Director has what its latest spec wants, and its
\* flag is down.
THEOREM DeploymentSettled == Spec => []SettledIsDeployed
<1>1. WorkerInv /\ TrackedInv => SettledIsDeployed
  BY SettledIsKept DEF SettledIsDeployed, Done
<1>2. QED
  BY <1>1, WorkerInvariant, TrackedInvariant, PTL

\* And what it has is what the resources dictate, unless one of them changed
\* since the reconciliation began: the lookups, made one after the other,
\* neither miss a release nor mix one up, and a forced reconciliation that
\* fails does not rest with the manifest of before the change.
THEOREM DeploymentDictated == Spec => []SettledIsDictated
<1>1. WorkerInv /\ TrackedInv => SettledIsDictated
  BY SettledIsKept DEF SettledIsDictated, Done
<1>2. QED
  BY <1>1, WorkerInvariant, TrackedInvariant, PTL

=============================================================================
