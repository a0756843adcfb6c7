--------------------------- MODULE CompilationProofs ---------------------------
(***************************************************************************)
(* Theorems about the Compilation reconciler, for any number of resources, *)
(* Directors, specs, writes, errors and crashes.                           *)
(***************************************************************************)
EXTENDS CompilationController, ControllerProofs

Steps == {"idle", "prepare", "client"} \union CreateSteps \union DeleteSteps

\* What the running reconciliation knows at each of its steps.  The status of
\* a resource that is being deleted may be saved too, so that its copy is newer
\* than the cache; but the cache shows the deletion then.
AtStep(k) ==
    /\ pc[k] # "idle" => mem[k].live
    /\ pc[k] # "idle" /\ mem[k].del /\ cache[k].fin => cache[k].del
    /\ pc[k] \in {"client"} \union CreateSteps \union DeleteSteps => mem[k].orig # None
    /\ pc[k] \in CreateSteps => ~ mem[k].del
    /\ pc[k] \in {"create", "save"} => mem[k].fin
    /\ pc[k] \in DeleteSteps => mem[k].del

\* The inductive invariant of the worker.
WorkerInv ==
    /\ CtrlInv(Steps)
    /\ PhaseInv(SpecsOf)
    /\ \A k \in Key : AtStep(k)

\* And the one about the configs.
ConfInv ==
    /\ config \in [Directors -> [Key -> SpecOrNone]]
    /\ \A k \in Key :
          /\ \A d \in Directors :
                config[d][k] # None => api[k].fin /\ DirectorOf[api[k].orig] = d
          /\ pc[k] = "unfinalize" => config[DirectorOf[mem[k].orig]][k] = None

-----------------------------------------------------------------------------
LEMMA StepNames ==
  /\ Steps = {"idle", "prepare", "client", "finalize", "create", "save", "delete", "unfinalize"}
  /\ CreateSteps = {"finalize", "create", "save"}
  /\ DeleteSteps = {"delete", "unfinalize"}
  BY DEF Steps, CreateSteps, DeleteSteps

LEMMA Typed ==
  ASSUME WorkerInv, NEW k \in Key
  PROVE  /\ CtrlInv(Steps) /\ PhaseInv(SpecsOf) /\ AtStep(k)
         /\ api[k] \in Object /\ cache[k] \in Object /\ mem[k] \in Object
         /\ Sane(api[k]) /\ Sane(cache[k]) /\ Sane(mem[k])
         /\ Frozen(api[k]) /\ Frozen(cache[k]) /\ Frozen(mem[k])
         /\ Copy(api[k], cache[k]) /\ Copy(api[k], mem[k])
         /\ api \in [Key -> Object] /\ mem \in [Key -> Object] /\ pc \in [Key -> Steps]
         /\ queue \in SUBSET Key
  BY StepNames DEF WorkerInv, CtrlInv, CtrlTypeOK

\* A step of the worker concerns one key.
LEMMA WorkerStep ==
  ASSUME WorkerInv, NEW k \in Key, CtrlInv(Steps)', PhaseInv(SpecsOf)', UNCHANGED cache,
         \A j \in Key \ {k} : pc'[j] = pc[j] /\ mem'[j] = mem[j],
         AtStep(k)'
  PROVE  WorkerInv'
  BY DEF WorkerInv, AtStep

\* One that moves on with an unchanged copy.
LEMMA MoveStep ==
  ASSUME WorkerInv, NEW k \in Key, NEW step \in Steps \ {"idle"}, pc[k] # "idle",
         Goto(k, step, mem[k]), UNCHANGED <<api, cache, queue, faults>>
  PROVE  /\ CtrlInv(Steps)' /\ PhaseInv(SpecsOf)' /\ Phases' = Phases
         /\ mem' = mem /\ pc'[k] = step
         /\ \A j \in Key \ {k} : pc'[j] = pc[j] /\ mem'[j] = mem[j]
<1>1. CtrlInv(Steps)'
  BY Typed, GotoStep
<1>2. PhaseInv(SpecsOf)' /\ Phases' = Phases
  BY Typed, GotoPhase
<1>3. mem' = mem /\ pc'[k] = step /\ \A j \in Key \ {k} : pc'[j] = pc[j]
  BY Typed DEF Goto
<1>4. QED
  BY <1>1, <1>2, <1>3

LEMMA GetStep ==
  ASSUME WorkerInv, NEW k \in Key, Get(k)
  PROVE  /\ WorkerInv' /\ Phases' = Phases
         /\ pc'[k] \in {"idle", "prepare"}
         /\ \A j \in Key \ {k} : pc'[j] = pc[j] /\ mem'[j] = mem[j]
<1>1. PICK step \in Steps :
         /\ Goto(k, step, cache[k])
         /\ step = "idle" \/ (step = "prepare" /\ cache[k].live)
  <2>1. CASE cache[k].live
    BY <2>1, StepNames DEF Get
  <2>2. CASE ~ cache[k].live
    BY <2>2, StepNames DEF Get
  <2>3. QED
    BY <2>1, <2>2
<1>2. UNCHANGED <<api, cache, faults>> /\ Idle /\ queue' \in SUBSET Key
  BY Typed DEF Get, Dequeue
<1>3. CtrlInv(Steps)' /\ PhaseInv(SpecsOf)' /\ Phases' = Phases
  BY <1>1, <1>2, Typed, GotoStep, GotoPhase
<1>4. /\ pc'[k] = step /\ (step # "idle" => mem'[k] = cache[k])
      /\ \A j \in Key \ {k} : pc'[j] = pc[j] /\ mem'[j] = mem[j]
  BY <1>1, Typed DEF Goto
<1>5. AtStep(k)'
  BY <1>1, <1>2, <1>4, StepNames DEF AtStep
<1>6. QED
  BY <1>1, <1>2, <1>3, <1>4, <1>5, WorkerStep

\* PrepareDirector changes the status of a copy only, and never an original
\* that is there.
LEMMA DirectorPrepared ==
  ASSUME NEW o \in Object, Sane(o), o.live
  PROVE  LET m == PrepareDirector(o)
         IN  /\ m \in Object /\ m.rv = o.rv /\ m.orig # None /\ m.avail = o.avail
             /\ o.orig # None => m.orig = o.orig
             /\ m.orig \in {o.orig, o.spec}
<1> DEFINE m == PrepareDirector(o)
           w == DirectorOf[o.spec] # DirectorOf[o.orig]
<1>1. CASE o.orig = None
  <2>1. m = [o EXCEPT !.orig = o.spec]
    BY <1>1 DEF PrepareDirector
  <2>2. m \in Object /\ m.rv = o.rv /\ m.orig = o.spec /\ m.avail = o.avail
    BY <2>1 DEF Object
  <2>3. QED
    BY <1>1, <2>2 DEF Sane, Frozen
<1>2. CASE o.orig # None
  <2>1. m = [o EXCEPT !.warn = w]
    BY <1>2 DEF PrepareDirector
  <2>2. w \in BOOLEAN
    OBVIOUS
  <2> HIDE DEF w
  <2>3. m \in Object /\ m.rv = o.rv /\ m.orig = o.orig /\ m.avail = o.avail
    BY <2>1, <2>2 DEF Object
  <2>4. QED
    BY <1>2, <2>3
<1>3. QED
  BY <1>1, <1>2

\* Storing the original spec leaves what is claimed and shown as it is.
LEMMA SavePreparedStep ==
  ASSUME WorkerInv, NEW k \in Key, SavePrepared(k)
  PROVE  /\ WorkerInv' /\ Phases' = Phases /\ UNCHANGED config
         /\ pc'[k] \in {"idle", "client"}
         /\ api'[k].fin = api[k].fin /\ api'[k].avail = api[k].avail
         /\ api'[k].del = api[k].del /\ (api[k].fin => api'[k].orig = api[k].orig)
         /\ \A j \in Key \ {k} : api'[j] = api[j] /\ pc'[j] = pc[j] /\ mem'[j] = mem[j]
<1> DEFINE m == PrepareDirector(mem[k])
<1>1. /\ pc[k] = "prepare" /\ UNCHANGED config
      /\ \/ m # mem[k] /\ StatusUpdate(k, m, "client")
         \/ m = mem[k] /\ Goto(k, "client", m) /\ UNCHANGED <<api, cache, queue, faults>>
  BY DEF SavePrepared, external, m
<1>2. mem[k].live /\ (mem[k].del /\ cache[k].fin => cache[k].del)
  BY <1>1, Typed, StepNames DEF AtStep
<1>3. /\ m \in Object /\ m.rv = mem[k].rv /\ m.orig # None /\ m.avail = mem[k].avail
      /\ mem[k].fin \/ mem[k].orig # None => m.orig = mem[k].orig
      /\ m.orig \in {mem[k].orig, mem[k].spec}
  BY <1>2, Typed, DirectorPrepared DEF Frozen
<1> HIDE DEF m
<1>4. PhaseInv(SpecsOf)' /\ Phases' = Phases
  <2>1. m.avail => mem[k].fin
    BY <1>3, Typed DEF PhaseInv, Owned
  <2>2. CASE StatusUpdate(k, m, "client")
    BY <1>1, <1>3, <2>1, <2>2, Typed, StatusPhase
  <2>3. CASE m = mem[k] /\ Goto(k, "client", m) /\ UNCHANGED <<api, cache, queue, faults>>
    <3>1. Goto(k, "client", mem[k]) /\ UNCHANGED <<api, cache>> /\ pc[k] # "idle"
      BY <1>1, <2>3
    <3>2. QED
      BY <3>1, Typed, GotoPhase
  <2>4. QED
    BY <1>1, <2>2, <2>3
<1>5. CASE StatusUpdate(k, m, "client")
  <2>0. "client" \in Steps /\ "idle" \in Steps /\ pc[k] # "idle" /\ CtrlInv(Steps)
    BY <1>1, Typed, StepNames
  <2>1. /\ CtrlInv(Steps)'
        /\ pc'[k] = "idle" \/
             /\ pc'[k] = "client"
             /\ mem'[k].live = mem[k].live /\ mem'[k].del = mem[k].del
             /\ mem'[k].fin = mem[k].fin /\ mem'[k].orig = m.orig
    BY <1>2, <1>3, <1>5, <2>0, StatusStep
  <2>2. /\ UNCHANGED cache
        /\ \A j \in Key \ {k} : api'[j] = api[j] /\ pc'[j] = pc[j] /\ mem'[j] = mem[j]
        /\ api'[k].live = api[k].live /\ api'[k].del = api[k].del
        /\ api'[k].fin = api[k].fin
        /\ \/ api'[k] = api[k]
           \/ m.rv = api[k].rv /\ api'[k].orig = m.orig /\ api'[k].avail = m.avail
    BY <1>5, Typed, StatusFields
  <2>3. AtStep(k)'
    BY <1>2, <1>3, <2>1, <2>2, StepNames DEF AtStep
  <2>4. WorkerInv'
    BY <1>4, <2>1, <2>2, <2>3, WorkerStep
  <2>5. m.rv = api[k].rv => mem[k] = api[k]
    BY <1>3, Typed, WrittenIsRead
  <2>6. api[k].fin => api[k].orig # None
    BY Typed DEF Sane, Frozen
  <2>7. QED
    BY <1>1, <1>3, <1>4, <2>1, <2>2, <2>4, <2>5, <2>6
<1>6. CASE m = mem[k] /\ Goto(k, "client", m) /\ UNCHANGED <<api, cache, queue, faults>>
  <2>1. /\ CtrlInv(Steps)' /\ pc'[k] = "client" /\ mem' = mem
        /\ \A j \in Key \ {k} : pc'[j] = pc[j] /\ mem'[j] = mem[j]
    BY <1>1, <1>6, MoveStep, StepNames
  <2>2. AtStep(k)'
    BY <1>2, <1>3, <1>6, <2>1, StepNames DEF AtStep
  <2>3. QED
    BY <1>1, <1>4, <1>6, <2>1, <2>2, WorkerStep
<1>7. QED
  BY <1>1, <1>5, <1>6

\* A reconciliation that finds no Director is put off.
LEMMA ClientStep ==
  ASSUME WorkerInv, NEW k \in Key, Client(k)
  PROVE  /\ WorkerInv' /\ Phases' = Phases /\ UNCHANGED <<api, config>>
         /\ pc'[k] \in {"idle", "finalize", "delete"}
         /\ \A j \in Key \ {k} : pc'[j] = pc[j] /\ mem'[j] = mem[j]
<1>1. /\ pc[k] = "client" /\ mem[k].live /\ mem[k].orig # None
      /\ mem[k].del /\ cache[k].fin => cache[k].del
      /\ UNCHANGED <<api, cache, faults, config>>
  BY Typed DEF Client, AtStep, external
<1>2. CASE /\ Goto(k, IF mem[k].del THEN "delete" ELSE "finalize", mem[k])
           /\ UNCHANGED queue
  <2>1. PICK step \in Steps \ {"idle"} :
           /\ Goto(k, step, mem[k])
           /\ \/ step = "delete" /\ mem[k].del
              \/ step = "finalize" /\ ~ mem[k].del
    <3>1. CASE mem[k].del
      BY <1>2, <3>1, StepNames
    <3>2. CASE ~ mem[k].del
      BY <1>2, <3>2, StepNames
    <3>3. QED
      BY <3>1, <3>2
  <2>2. /\ CtrlInv(Steps)' /\ PhaseInv(SpecsOf)' /\ Phases' = Phases /\ pc'[k] = step /\ mem' = mem
        /\ \A j \in Key \ {k} : pc'[j] = pc[j] /\ mem'[j] = mem[j]
    BY <1>1, <1>2, <2>1, MoveStep
  <2>3. AtStep(k)'
    BY <1>1, <2>1, <2>2, StepNames DEF AtStep
  <2>4. QED
    BY <1>1, <2>1, <2>2, <2>3, WorkerStep
<1>3. CASE Retry(k)
  <2>1. Goto(k, "idle", Absent(0)) /\ queue' \in SUBSET Key
    BY <1>3, Typed DEF Retry
  <2>2. /\ Absent(0) \in Object /\ Sane(Absent(0)) /\ Frozen(Absent(0))
        /\ Copy(api[k], Absent(0)) /\ "idle" \in Steps
    BY Typed, AbsentType, CopyNothing, StepNames
  <2>3. CtrlInv(Steps)'
    BY <1>1, <2>1, <2>2, Typed, GotoStep
  <2>4. Goto(k, "idle", mem[k])
    BY <2>1 DEF Goto
  <2>5. PhaseInv(SpecsOf)' /\ Phases' = Phases
    BY <1>1, <2>4, Typed, GotoPhase
  <2>6. pc'[k] = "idle" /\ \A j \in Key \ {k} : pc'[j] = pc[j] /\ mem'[j] = mem[j]
    BY <2>1, Typed DEF Goto
  <2>7. AtStep(k)'
    BY <2>6, StepNames DEF AtStep
  <2>0. QED
    BY <1>1, <2>3, <2>5, <2>6, <2>7, WorkerStep
<1>4. QED
  BY <1>2, <1>3 DEF Client

LEMMA EnsureFinalizerStep ==
  ASSUME WorkerInv, NEW k \in Key, EnsureFinalizer(k)
  PROVE  /\ WorkerInv' /\ UNCHANGED config
         /\ \/ Phases' = Phases
            \/ Phases[k] = "declared" /\ Phases' = [Phases EXCEPT ![k] = "claimed"]
         /\ pc'[k] \in {"idle", "create"}
         /\ api'[k].avail = api[k].avail /\ api'[k].del = api[k].del
         /\ api'[k].orig = api[k].orig /\ (api[k].fin => api'[k].fin)
         /\ \A j \in Key \ {k} : api'[j] = api[j] /\ pc'[j] = pc[j] /\ mem'[j] = mem[j]
<1>1. pc[k] = "finalize" /\ UpdateIfFinalizer(k, TRUE, "create") /\ UNCHANGED config
  BY DEF EnsureFinalizer, external
<1>2. mem[k].live /\ ~ mem[k].del /\ mem[k].orig # None
  BY <1>1, Typed, StepNames DEF AtStep
<1>3. /\ PhaseInv(SpecsOf)'
      /\ \/ Phases' = Phases
         \/ Phases[k] = "declared" /\ Phases' = [Phases EXCEPT ![k] = "claimed"]
  BY <1>1, <1>2, Typed, ClaimPhase
<1>4. CASE Update(k, [mem[k] EXCEPT !.fin = TRUE], "create")
  <2>1. /\ CtrlInv(Steps)'
        /\ pc'[k] = "idle" \/
             /\ pc'[k] = "create"
             /\ mem'[k].live /\ ~ mem'[k].del /\ mem'[k].fin
             /\ mem'[k].orig = mem[k].orig
    BY <1>1, <1>2, <1>4, Typed, FinalizerStep, StepNames
  <2>2. /\ UNCHANGED cache
        /\ \A j \in Key \ {k} : api'[j] = api[j] /\ pc'[j] = pc[j] /\ mem'[j] = mem[j]
        /\ \/ api'[k] = api[k]
           \/ /\ api'[k].fin /\ api'[k].del = api[k].del
              /\ api'[k].orig = api[k].orig /\ api'[k].avail = api[k].avail
    BY <1>4, Typed, FinalizerFields
  <2>3. AtStep(k)'
    BY <1>2, <2>1, StepNames DEF AtStep
  <2>4. WorkerInv'
    BY <1>3, <2>1, <2>2, <2>3, WorkerStep
  <2>5. QED
    BY <1>1, <1>3, <2>1, <2>2, <2>4
<1>5. CASE mem[k].fin /\ Goto(k, "create", mem[k]) /\ UNCHANGED <<api, cache, queue, faults>>
  <2>1. /\ CtrlInv(Steps)' /\ pc'[k] = "create" /\ mem' = mem
        /\ \A j \in Key \ {k} : pc'[j] = pc[j] /\ mem'[j] = mem[j]
    BY <1>1, <1>5, MoveStep, StepNames
  <2>2. AtStep(k)'
    BY <1>2, <1>5, <2>1, StepNames DEF AtStep
  <2>3. QED
    BY <1>1, <1>3, <1>5, <2>1, <2>2, WorkerStep
<1>6. QED
  BY <1>1, <1>4, <1>5 DEF UpdateIfFinalizer

\* The steps that write to the Director and nowhere else.
LEMMA ConfigStep ==
  ASSUME WorkerInv, NEW k \in Key, CreateConfig(k) \/ DeleteConfig(k)
  PROVE  /\ WorkerInv' /\ Phases' = Phases /\ UNCHANGED api /\ mem' = mem
         /\ CreateConfig(k) => pc'[k] = "save"
         /\ DeleteConfig(k) => pc'[k] = "unfinalize"
         /\ \A j \in Key \ {k} : pc'[j] = pc[j] /\ mem'[j] = mem[j]
<1>1. PICK step \in Steps \ {"idle"} :
         /\ Goto(k, step, mem[k])
         /\ CreateConfig(k) => pc[k] = "create" /\ step = "save"
         /\ DeleteConfig(k) => pc[k] = "delete" /\ step = "unfinalize"
  <2>1. CASE CreateConfig(k)
    <3>1. pc[k] = "create" /\ Goto(k, "save", mem[k])
      BY <2>1 DEF CreateConfig
    <3>2. ~ DeleteConfig(k)
      BY <3>1 DEF DeleteConfig
    <3>3. QED
      BY <3>1, <3>2, StepNames
  <2>2. CASE DeleteConfig(k)
    <3>1. pc[k] = "delete" /\ Goto(k, "unfinalize", mem[k])
      BY <2>2 DEF DeleteConfig
    <3>2. ~ CreateConfig(k)
      BY <3>1 DEF CreateConfig
    <3>3. QED
      BY <3>1, <3>2, StepNames
  <2>3. QED
    BY <2>1, <2>2
<1>2. UNCHANGED <<api, cache, queue, faults>> /\ pc[k] # "idle"
  BY <1>1 DEF CreateConfig, DeleteConfig
<1>3. /\ CtrlInv(Steps)' /\ PhaseInv(SpecsOf)' /\ Phases' = Phases /\ pc'[k] = step /\ mem' = mem
      /\ \A j \in Key \ {k} : pc'[j] = pc[j] /\ mem'[j] = mem[j]
  BY <1>1, <1>2, MoveStep
<1>4. AtStep(k)'
  BY <1>1, <1>2, <1>3, Typed, StepNames DEF AtStep
<1>5. QED
  BY <1>1, <1>2, <1>3, <1>4, WorkerStep

LEMMA SaveAvailableStep ==
  ASSUME WorkerInv, NEW k \in Key, SaveAvailable(k)
  PROVE  /\ WorkerInv' /\ Phases' = Phases /\ UNCHANGED config
         /\ pc[k] = "save" /\ pc'[k] = "idle"
         /\ api'[k].fin = api[k].fin /\ api'[k].del = api[k].del
         /\ api'[k] = api[k] \/ (api'[k].orig = mem[k].orig /\ mem[k] = api[k])
         /\ \A j \in Key \ {k} : api'[j] = api[j] /\ pc'[j] = pc[j] /\ mem'[j] = mem[j]
<1> DEFINE m == [mem[k] EXCEPT !.avail = TRUE]
<1>1. pc[k] = "save" /\ StatusUpdate(k, m, "idle") /\ UNCHANGED config
  BY DEF SaveAvailable, external
<1>2. mem[k].live /\ mem[k].fin /\ mem[k].orig # None
  BY <1>1, Typed, StepNames DEF AtStep
<1>3. m \in Object /\ m.rv = mem[k].rv /\ m.orig = mem[k].orig
  BY Typed DEF Object
<1> HIDE DEF m
<1>4. CtrlInv(Steps)' /\ pc'[k] = "idle"
  BY <1>1, <1>2, <1>3, Typed, StatusStep, StepNames
<1>5. PhaseInv(SpecsOf)' /\ Phases' = Phases
  BY <1>1, <1>2, <1>3, Typed, StatusPhase
<1>6. /\ UNCHANGED cache
      /\ \A j \in Key \ {k} : api'[j] = api[j] /\ pc'[j] = pc[j] /\ mem'[j] = mem[j]
      /\ api'[k].del = api[k].del /\ api'[k].fin = api[k].fin
      /\ api'[k] = api[k] \/ (m.rv = api[k].rv /\ api'[k].orig = m.orig)
  BY <1>1, Typed, StatusFields
<1>7. AtStep(k)'
  BY <1>4, StepNames DEF AtStep
<1>8. WorkerInv'
  BY <1>4, <1>5, <1>6, <1>7, WorkerStep
<1>9. m.rv = api[k].rv => mem[k] = api[k]
  BY <1>3, Typed, WrittenIsRead
<1>10. QED
  BY <1>1, <1>3, <1>4, <1>5, <1>6, <1>8, <1>9

LEMMA EnsureNoFinalizerStep ==
  ASSUME WorkerInv, NEW k \in Key, EnsureNoFinalizer(k)
  PROVE  /\ WorkerInv' /\ UNCHANGED config
         /\ pc[k] = "unfinalize" /\ pc'[k] = "idle"
         /\ \/ UNCHANGED api /\ Phases' = Phases
            \/ /\ mem[k] = api[k] /\ ~ api'[k].fin /\ ~ api'[k].avail
               /\ Phases[k] = "terminating" /\ Phases' = [Phases EXCEPT ![k] = "none"]
         /\ \A j \in Key \ {k} : api'[j] = api[j] /\ pc'[j] = pc[j] /\ mem'[j] = mem[j]
<1>1. pc[k] = "unfinalize" /\ UpdateIfFinalizer(k, FALSE, "idle") /\ UNCHANGED config
  BY DEF EnsureNoFinalizer, external
<1>2. /\ mem[k].live /\ mem[k].del /\ mem[k].fin /\ "idle" \in Steps
      /\ cache[k].fin => cache[k].del
  BY <1>1, Typed, StepNames DEF AtStep, Sane, Frozen
<1>3. Update(k, [mem[k] EXCEPT !.fin = FALSE], "idle")
  BY <1>1, <1>2 DEF UpdateIfFinalizer
<1>4. CtrlInv(Steps)' /\ pc'[k] = "idle"
  BY <1>1, <1>2, <1>3, Typed, NoFinalizerStep
<1>5. /\ PhaseInv(SpecsOf)'
      /\ \/ UNCHANGED api /\ Phases' = Phases
         \/ /\ mem[k] = api[k] /\ ~ api'[k].live
            /\ Phases[k] = "terminating" /\ Phases' = [Phases EXCEPT ![k] = "none"]
  BY <1>1, <1>2, Typed, ReleasePhase
<1>6. /\ UNCHANGED cache
      /\ \A j \in Key \ {k} : api'[j] = api[j] /\ pc'[j] = pc[j] /\ mem'[j] = mem[j]
  BY <1>3, Typed DEF Update, Write, Retry, Goto
<1>7. AtStep(k)'
  BY <1>4, StepNames DEF AtStep
<1>8. WorkerInv'
  BY <1>4, <1>5, <1>6, <1>7, WorkerStep
<1>9. ~ api'[k].live => ~ api'[k].fin /\ ~ api'[k].avail
  <2>1. api'[k] \in Object /\ Sane(api'[k]) /\ Owned(SpecsOf, k, api'[k])
    BY <1>4, <1>5 DEF PhaseInv, CtrlInv, CtrlTypeOK
  <2>2. QED
    BY <2>1, NothingThere DEF Owned
<1>10. QED
  BY <1>1, <1>4, <1>5, <1>6, <1>8, <1>9

LEMMA EnvironmentKeeps ==
  ASSUME WorkerInv, NEW k \in Key, Environment(k)
  PROVE  /\ WorkerInv' /\ UNCHANGED config
         /\ \/ Phases' = Phases
            \/ \E m \in OwnerMoves : Phases[k] = m[1] /\ Phases' = [Phases EXCEPT ![k] = m[2]]
         /\ \A j \in Key : \/ pc'[j] = "idle"
                           \/ pc'[j] = pc[j] /\ mem'[j] = mem[j]
<1>1. CtrlInv(Steps) /\ PhaseInv(SpecsOf) /\ "idle" \in Steps
  BY StepNames DEF WorkerInv
<1>2. CASE UserCreate(k) \/ UserEdit(k) \/ UserDelete(k)
  <2>1. CtrlInv(Steps)'
    BY <1>1, <1>2, UserStep
  <2>2. UNCHANGED <<cache, pc, mem>>
    BY <1>2 DEF UserCreate, UserEdit, UserDelete, UserWrite
  <2>3. /\ PhaseInv(SpecsOf)'
        /\ \/ Phases' = Phases
           \/ \E m \in OwnerMoves : Phases[k] = m[1] /\ Phases' = [Phases EXCEPT ![k] = m[2]]
    BY <1>1, <1>2, UserPhase
  <2>4. WorkerInv'
    BY <2>1, <2>2, <2>3 DEF WorkerInv, AtStep
  <2>5. QED
    BY <2>2, <2>3, <2>4 DEF Environment, external
<1>3. CASE Watch(k) \/ Resync(k) \/ Fail(k) \/ Crash
  <2>1. CtrlInv(Steps)' /\ PhaseInv(SpecsOf)' /\ Phases' = Phases
    BY <1>1, <1>3, EnvironmentStep, EnvironmentPhase
  <2>2. \A j \in Key : /\ \/ pc'[j] = "idle"
                          \/ pc'[j] = pc[j] /\ mem'[j] = mem[j]
                       /\ cache'[j] = cache[j] \/ cache'[j] = api[j]
    BY <1>1, <1>3, ObjectTypes DEF Watch, Resync, Fail, Retry, Goto, Crash
  <2>3. ASSUME NEW j \in Key PROVE AtStep(j)'
    <3>1. AtStep(j) /\ (mem[j].del /\ api[j].fin => api[j].del)
      BY Typed DEF PhaseInv, Deletion
    <3>2. QED
      BY <2>2, <3>1, StepNames DEF AtStep
  <2>4. QED
    BY <2>1, <2>2, <2>3 DEF WorkerInv, Environment, external
<1>4. QED
  BY <1>2, <1>3 DEF Environment

LEMMA WorkerInit == Init => WorkerInv
<1> SUFFICES ASSUME Init PROVE WorkerInv
  OBVIOUS
<1>1. CtrlInv(Steps) /\ PhaseInv(SpecsOf)
  BY CtrlInitInv, PhaseInit, StepNames DEF Init
<1>2. QED
  BY <1>1, StepNames DEF WorkerInv, AtStep, Init, CtrlInit

LEMMA WorkerUntouched ==
  ASSUME WorkerInv, UNCHANGED ctrlVars
  PROVE  WorkerInv' /\ Phases' = Phases
  BY SamePhases DEF ctrlVars, WorkerInv, AtStep, CtrlInv, CtrlTypeOK, PhaseInv, Owned, Deletion

LEMMA WorkerNext == WorkerInv /\ [Next]_vars => WorkerInv'
  BY GetStep, SavePreparedStep, ClientStep, EnsureFinalizerStep, ConfigStep,
     SaveAvailableStep, EnsureNoFinalizerStep, EnvironmentKeeps, WorkerUntouched
     DEF Next, Step, Operate, vars

LEMMA WorkerInvariant == Spec => []WorkerInv
  BY WorkerInit, WorkerNext, PTL DEF Spec

-----------------------------------------------------------------------------
(* What the Directors have.                                                 *)

LEMMA Directed ==
  ASSUME WorkerInv, NEW k \in Key, mem[k].orig # None
  PROVE  DirectorOf[mem[k].orig] \in Directors
  BY Typed, CompilationAssumption DEF Object, SpecOrNone

\* The two writes reach one config of one Director.
LEMMA ConfOfOne ==
  ASSUME WorkerInv, ConfInv, NEW k \in Key
  PROVE  /\ CreateConfig(k) =>
               /\ config'[DirectorOf[mem[k].orig]][k] = mem[k].spec
               /\ api[k].fin /\ api[k].live /\ api[k].orig = mem[k].orig
               /\ mem[k].orig # None /\ mem[k].spec # None
         /\ DeleteConfig(k) => /\ config'[DirectorOf[mem[k].orig]][k] = None
                               /\ api[k].fin => api[k].del
         /\ CreateConfig(k) \/ DeleteConfig(k) =>
               /\ config' \in [Directors -> [Key -> SpecOrNone]]
               /\ \A d \in Directors, j \in Key :
                     d # DirectorOf[mem[k].orig] \/ j # k => config'[d][j] = config[d][j]
<1>1. config \in [Directors -> [Key -> SpecOrNone]]
  BY DEF ConfInv
<1>2. mem[k].spec \in SpecOrNone /\ None \in SpecOrNone
  BY Typed DEF Object, SpecOrNone
<1>3. CASE CreateConfig(k)
  <2>1. pc[k] = "create" /\ ~ DeleteConfig(k)
    BY <1>3 DEF CreateConfig, DeleteConfig
  <2>2. mem[k].fin /\ ~ mem[k].del /\ mem[k].orig # None /\ mem[k].spec # None
    BY <2>1, Typed, StepNames DEF AtStep, Sane, Frozen
  <2>3. api[k].fin /\ api[k].orig = mem[k].orig
    BY <2>2, Typed DEF Copy
  <2>4. api[k].live
    BY <2>3, Typed, NothingThere
  <2>5. DirectorOf[mem[k].orig] \in Directors
    BY <2>2, Directed
  <2>6. config' = [config EXCEPT ![DirectorOf[mem[k].orig]][k] = mem[k].spec]
    BY <1>3 DEF CreateConfig
  <2>7. QED
    BY <1>1, <1>2, <2>1, <2>2, <2>3, <2>4, <2>5, <2>6
<1>4. CASE DeleteConfig(k)
  <2>1. pc[k] = "delete" /\ ~ CreateConfig(k)
    BY <1>4 DEF CreateConfig, DeleteConfig
  <2>2. mem[k].del /\ mem[k].orig # None
    BY <2>1, Typed, StepNames DEF AtStep
  <2>3. api[k].fin => api[k].del
    BY <2>2, Typed DEF PhaseInv, Deletion
  <2>4. DirectorOf[mem[k].orig] \in Directors
    BY <2>2, Directed
  <2>5. config' = [config EXCEPT ![DirectorOf[mem[k].orig]][k] = None]
    BY <1>4 DEF DeleteConfig
  <2>6. QED
    BY <1>1, <1>2, <2>1, <2>3, <2>4, <2>5
<1>5. QED
  BY <1>3, <1>4

\* Whoever is not the controller leaves what is claimed as it is.
LEMMA OwnersKeep ==
  ASSUME WorkerInv, NEW k \in Key, Environment(k)
  PROVE  KeepsClaims
<1>1. CtrlInv(Steps) /\ "idle" \in Steps
  BY StepNames DEF WorkerInv
<1>2. CASE UserCreate(k) \/ UserEdit(k) \/ UserDelete(k)
  BY <1>1, <1>2, UserStep
<1>3. CASE Watch(k) \/ Resync(k) \/ Fail(k) \/ Crash
  BY <1>3 DEF Watch, Resync, Fail, Crash, KeepsClaims
<1>4. QED
  BY <1>2, <1>3 DEF Environment

LEMMA ConfNext ==
  ASSUME WorkerInv, ConfInv, [Next]_vars
  PROVE  ConfInv'
\* A step that leaves the configs alone and keeps what is claimed.
<1>1. ASSUME UNCHANGED config, KeepsClaims,
             \A j \in Key : pc'[j] = "unfinalize" => pc'[j] = pc[j] /\ mem'[j] = mem[j]
      PROVE  ConfInv'
  BY <1>1 DEF ConfInv, KeepsClaims
<1>2. ASSUME NEW k \in Key, Get(k) \/ Client(k)
      PROVE  ConfInv'
  <2>1. UNCHANGED config /\ KeepsClaims
    BY <1>2 DEF Get, Client, external, KeepsClaims
  <2>2. QED
    BY <1>1, <1>2, <2>1, GetStep, ClientStep
<1>3. ASSUME NEW k \in Key, SavePrepared(k)
      PROVE  ConfInv'
  <2>1. KeepsClaims
    BY <1>3, SavePreparedStep DEF KeepsClaims
  <2>2. QED
    BY <1>1, <1>3, <2>1, SavePreparedStep
<1>4. ASSUME NEW k \in Key, EnsureFinalizer(k)
      PROVE  ConfInv'
  <2>1. KeepsClaims
    BY <1>4, EnsureFinalizerStep DEF KeepsClaims
  <2>2. QED
    BY <1>1, <1>4, <2>1, EnsureFinalizerStep
<1>5. ASSUME NEW k \in Key, CreateConfig(k)
      PROVE  ConfInv'
  <2>1. /\ config' \in [Directors -> [Key -> SpecOrNone]]
        /\ \A d \in Directors, j \in Key :
              d # DirectorOf[mem[k].orig] \/ j # k => config'[d][j] = config[d][j]
        /\ api[k].fin /\ api[k].orig = mem[k].orig
    BY <1>5, ConfOfOne
  <2>2. /\ UNCHANGED api /\ pc'[k] = "save" /\ mem' = mem
        /\ \A j \in Key \ {k} : pc'[j] = pc[j]
    BY <1>5, ConfigStep
  <2>3. ASSUME NEW j \in Key, NEW d \in Directors, config'[d][j] # None
        PROVE  api'[j].fin /\ DirectorOf[api'[j].orig] = d
    BY <2>1, <2>2, <2>3 DEF ConfInv
  <2>4. ASSUME NEW j \in Key, pc'[j] = "unfinalize"
        PROVE  config'[DirectorOf[mem'[j].orig]][j] = None
    <3>1. j # k /\ pc[j] = "unfinalize"
      BY <2>2, <2>4
    <3>2. DirectorOf[mem[j].orig] \in Directors
      BY <3>1, Typed, Directed, StepNames DEF AtStep
    <3>3. QED
      BY <2>1, <2>2, <3>1, <3>2 DEF ConfInv
  <2>5. QED
    BY <2>1, <2>3, <2>4 DEF ConfInv
<1>6. ASSUME NEW k \in Key, DeleteConfig(k)
      PROVE  ConfInv'
  <2>1. /\ config' \in [Directors -> [Key -> SpecOrNone]]
        /\ config'[DirectorOf[mem[k].orig]][k] = None
        /\ \A d \in Directors, j \in Key :
              d # DirectorOf[mem[k].orig] \/ j # k => config'[d][j] = config[d][j]
    BY <1>6, ConfOfOne
  <2>2. /\ UNCHANGED api /\ mem' = mem /\ \A j \in Key \ {k} : pc'[j] = pc[j]
    BY <1>6, ConfigStep
  <2>3. ASSUME NEW j \in Key, NEW d \in Directors, config'[d][j] # None
        PROVE  api'[j].fin /\ DirectorOf[api'[j].orig] = d
    BY <2>1, <2>2, <2>3 DEF ConfInv
  <2>4. ASSUME NEW j \in Key, pc'[j] = "unfinalize"
        PROVE  config'[DirectorOf[mem'[j].orig]][j] = None
    <3>1. CASE j = k
      BY <2>1, <2>2, <3>1
    <3>2. CASE j # k
      <4>1. DirectorOf[mem[j].orig] \in Directors
        BY <2>2, <2>4, <3>2, Typed, Directed, StepNames DEF AtStep
      <4>2. QED
        BY <2>1, <2>2, <2>4, <3>2, <4>1 DEF ConfInv
    <3>3. QED
      BY <3>1, <3>2
  <2>5. QED
    BY <2>1, <2>3, <2>4 DEF ConfInv
<1>7. ASSUME NEW k \in Key, SaveAvailable(k)
      PROVE  ConfInv'
  <2>1. KeepsClaims
    BY <1>7, SaveAvailableStep DEF KeepsClaims
  <2>2. QED
    BY <1>1, <1>7, <2>1, SaveAvailableStep
\* What goes has no config left on the Director it named.
<1>8. ASSUME NEW k \in Key, EnsureNoFinalizer(k)
      PROVE  ConfInv'
  <2>1. /\ UNCHANGED config /\ pc[k] = "unfinalize" /\ pc'[k] = "idle"
        /\ \A j \in Key \ {k} : api'[j] = api[j] /\ pc'[j] = pc[j] /\ mem'[j] = mem[j]
        /\ UNCHANGED api \/ mem[k] = api[k]
    BY <1>8, EnsureNoFinalizerStep
  <2>2. CASE UNCHANGED api
    BY <1>1, <2>1, <2>2 DEF KeepsClaims
  <2>3. CASE mem[k] = api[k]
    <3>1. \A d \in Directors : config[d][k] = None
      BY <2>1, <2>3 DEF ConfInv
    <3>2. QED
      BY <2>1, <3>1 DEF ConfInv
  <2>4. QED
    BY <2>1, <2>2, <2>3
<1>9. ASSUME NEW k \in Key, Environment(k)
      PROVE  ConfInv'
  BY <1>1, <1>9, OwnersKeep, EnvironmentKeeps
<1>10. ASSUME UNCHANGED <<ctrlVars, config>>
       PROVE  ConfInv'
  BY <1>1, <1>10 DEF ctrlVars, KeepsClaims
<1>11. QED
  BY <1>2, <1>3, <1>4, <1>5, <1>6, <1>7, <1>8, <1>9, <1>10
     DEF Next, Step, Operate, vars, external

LEMMA ConfInvariant == Spec => []ConfInv
<1>1. Init => ConfInv
  BY DEF Init, CtrlInit, ConfInv, SpecOrNone
<1>2. WorkerInv /\ ConfInv /\ [Next]_vars => ConfInv'
  BY ConfNext
<1>3. QED
  BY <1>1, <1>2, WorkerInvariant, PTL DEF Spec

\* Every variable keeps its type.
THEOREM CompilationTyping == Spec => []TypeOK
<1>1. Init => admin \in SUBSET Directors
  BY DEF Init
<1>2. admin \in SUBSET Directors /\ [Next]_vars => (admin \in SUBSET Directors)'
  BY DEF Next, Operate, Get, Step, SavePrepared, Client, EnsureFinalizer, CreateConfig,
     SaveAvailable, DeleteConfig, EnsureNoFinalizer, Environment, vars, external
<1>3. WorkerInv /\ ConfInv /\ admin \in SUBSET Directors => TypeOK
  BY DEF WorkerInv, CtrlInv, ConfInv, TypeOK, Steps
<1>4. QED
  BY <1>1, <1>2, <1>3, WorkerInvariant, ConfInvariant, PTL DEF Spec

\* A config is only ever on the Director that its resource named first, and
\* the resource is there to delete it, whatever its owner makes of the spec and
\* whichever Directors come and go.
THEOREM ConfigClaimed == Spec => []ConfigIsClaimed
<1>1. WorkerInv /\ ConfInv => ConfigIsClaimed
  BY Typed, NothingThere DEF ConfInv, ConfigIsClaimed
<1>2. QED
  BY <1>1, WorkerInvariant, ConfInvariant, PTL

-----------------------------------------------------------------------------
(* The refinement.                                                          *)

Exts == [k \in Key |-> \E d \in Directors : config[d][k] # None]

LEMMA PromiseMove ==
  ASSUME NEW k \in Key, NEW from, NEW to, Phases[k] = from,
         Phases' = [Phases EXCEPT ![k] = to], UNCHANGED config
  PROVE  Promise!Move(k, from, to)
  BY DEF Promise!Move, Phases

LEMMA PromiseStutter ==
  ASSUME Phases' = Phases, Exts' = Exts
  PROVE  UNCHANGED Promise!vars
  BY DEF Promise!vars, Phases, Exts

LEMMA SameExts ==
  ASSUME UNCHANGED config
  PROVE  Exts' = Exts
  BY DEF Exts

LEMMA PromiseStep ==
  ASSUME WorkerInv, ConfInv, [Next]_vars
  PROVE  [Promise!Next]_(Promise!vars)
<1>1. ASSUME NEW k \in Key, Get(k) \/ SavePrepared(k) \/ Client(k) \/ SaveAvailable(k)
      PROVE  UNCHANGED Promise!vars
  <2>1. UNCHANGED config
    BY <1>1 DEF Get, SavePrepared, Client, SaveAvailable, external
  <2>2. Phases' = Phases
    BY <1>1, GetStep, SavePreparedStep, ClientStep, SaveAvailableStep
  <2>3. QED
    BY <2>1, <2>2, SameExts, PromiseStutter
<1>2. ASSUME NEW k \in Key, EnsureFinalizer(k)
      PROVE  Promise!Next \/ UNCHANGED Promise!vars
  <2>1. Phases' = Phases \/ Promise!Claim(k)
    BY <1>2, EnsureFinalizerStep, PromiseMove DEF Promise!Claim
  <2>2. Exts' = Exts
    BY <1>2, EnsureFinalizerStep, SameExts
  <2>3. QED
    BY <2>1, <2>2, PromiseStutter DEF Promise!Next
<1>3. ASSUME NEW k \in Key, CreateConfig(k)
      PROVE  Promise!Next
  <2>1. Phases[k] \in {"claimed", "terminating"}
    BY <1>3, ConfOfOne DEF Phases, Phase
  <2>2. Exts' = [Exts EXCEPT ![k] = TRUE]
    <3>1. \A j \in Key \ {k}, d \in Directors : config'[d][j] = config[d][j]
      BY <1>3, ConfOfOne
    <3>2. \E d \in Directors : config'[d][k] # None
      BY <1>3, ConfOfOne, Directed
    <3>3. QED
      BY <3>1, <3>2 DEF Exts
  <2>3. Phases' = Phases
    BY <1>3, ConfigStep
  <2>4. Promise!Provision(k)
    BY <2>1, <2>2, <2>3 DEF Promise!Provision, Phases, Exts
  <2>5. QED
    BY <2>4 DEF Promise!Next
<1>4. ASSUME NEW k \in Key, DeleteConfig(k)
      PROVE  Promise!Next \/ UNCHANGED Promise!vars
  <2>1. Phases' = Phases /\ \A j \in Key \ {k} : Exts'[j] = Exts[j]
    <3>1. \A j \in Key \ {k}, d \in Directors : config'[d][j] = config[d][j]
      BY <1>4, ConfOfOne
    <3>2. QED
      BY <1>4, <3>1, ConfigStep DEF Exts
  <2>2. CASE Exts'[k] = Exts[k]
    <3>1. Exts' = Exts
      BY <2>1, <2>2 DEF Exts
    <3>2. QED
      BY <2>1, <3>1, PromiseStutter
  <2>3. CASE Exts'[k] # Exts[k]
    <3>1. Exts[k] /\ ~ Exts'[k]
      <4>1. \A d \in Directors : config'[d][k] # None => config[d][k] # None
        BY <1>4, ConfOfOne
      <4>2. QED
        BY <2>3, <4>1 DEF Exts
    <3>2. api[k].fin /\ api[k].del
      BY <1>4, <3>1, ConfOfOne DEF Exts, ConfInv
    <3>3. api[k].live
      BY <3>2, Typed, NothingThere
    <3>4. Phases[k] = "terminating"
      BY <3>2, <3>3 DEF Phases, Phase
    <3>5. Exts' = [Exts EXCEPT ![k] = FALSE]
      BY <2>1, <3>1 DEF Exts
    <3>6. Promise!Deprovision(k)
      BY <2>1, <3>4, <3>5 DEF Promise!Deprovision, Phases, Exts
    <3>7. QED
      BY <3>6 DEF Promise!Next
  <2>4. QED
    BY <2>2, <2>3
<1>5. ASSUME NEW k \in Key, EnsureNoFinalizer(k)
      PROVE  Promise!Next \/ UNCHANGED Promise!vars
  <2>1. UNCHANGED config /\ pc[k] = "unfinalize" /\ Exts' = Exts
    BY <1>5, EnsureNoFinalizerStep, SameExts
  <2>2. CASE Phases' = Phases
    BY <2>1, <2>2, PromiseStutter
  <2>3. CASE /\ mem[k] = api[k]
             /\ Phases[k] = "terminating" /\ Phases' = [Phases EXCEPT ![k] = "none"]
    <3>1. \A d \in Directors : config[d][k] = None
      BY <2>1, <2>3 DEF ConfInv
    <3>2. Promise!Finish(k)
      BY <2>1, <2>3, <3>1, PromiseMove DEF Promise!Finish
    <3>3. QED
      BY <3>2 DEF Promise!Next
  <2>4. QED
    BY <1>5, <2>2, <2>3, EnsureNoFinalizerStep
<1>6. ASSUME NEW k \in Key, Environment(k)
      PROVE  Promise!Next \/ UNCHANGED Promise!vars
  <2>1. UNCHANGED config
    BY <1>6 DEF Environment, external
  <2>2. CASE Phases' = Phases
    BY <2>1, <2>2, SameExts, PromiseStutter
  <2>3. CASE \E m \in OwnerMoves : Phases[k] = m[1] /\ Phases' = [Phases EXCEPT ![k] = m[2]]
    <3>1. \E m \in OwnerMoves : Promise!Move(k, m[1], m[2])
      BY <2>1, <2>3, PromiseMove
    <3>2. Promise!Declare(k) \/ Promise!Withdraw(k) \/ Promise!Terminate(k)
      BY <3>1 DEF OwnerMoves, Promise!Declare, Promise!Withdraw, Promise!Terminate
    <3>3. QED
      BY <3>2 DEF Promise!Next
  <2>4. QED
    BY <1>6, <2>2, <2>3, EnvironmentKeeps
<1>7. ASSUME UNCHANGED <<ctrlVars, config>>
      PROVE  UNCHANGED Promise!vars
  <2>1. Phases' = Phases
    BY <1>7, WorkerUntouched
  <2>2. QED
    BY <1>7, <2>1, SameExts, PromiseStutter
<1>8. QED
  BY <1>1, <1>2, <1>3, <1>4, <1>5, <1>6, <1>7 DEF Next, Step, Operate, vars, external

\* The reconciler keeps the promise of Lifecycle, and so does a Compilation
\* whose Director has been removed: it waits.
THEOREM CompilationImplementsLifecycle == Spec => ImplementsLifecycle
<1>1. Init => Promise!Init
  <2> SUFFICES ASSUME Init PROVE Promise!Init
    OBVIOUS
  <2>1. \A k \in Key : Phase(api[k]) = "none"
    BY AbsentOwned DEF Init, CtrlInit, Phase
  <2>2. \A k \in Key, d \in Directors : config[d][k] = None
    BY DEF Init
  <2>3. QED
    BY <2>1, <2>2 DEF Promise!Init
<1>2. WorkerInv /\ ConfInv /\ [Next]_vars => [Promise!Next]_(Promise!vars)
  BY PromiseStep
<1>3. QED
  BY <1>1, <1>2, WorkerInvariant, ConfInvariant, PTL
     DEF Spec, ImplementsLifecycle, Promise!Spec

-----------------------------------------------------------------------------
(* No edit is lost: the argument is that of Followed in ControllerProofs,    *)
(* about the settings on the Director too.                                  *)

DirectorWarned(o) == o.warn = (DirectorOf[o.spec] # DirectorOf[o.orig])

\* What the owner of k waits for, as far as the cache shows it.
Current(k) ==
    cache[k].live => /\ ~ cache[k].del /\ cache[k].avail
                     /\ config[DirectorOf[cache[k].orig]][k] = cache[k].spec
                     /\ DirectorWarned(cache[k])

Tracked(k) ==
    \/ k \in queue
    \/ pc[k] = "idle" /\ (cache[k].rv < api[k].rv \/ Current(k))
    \/ /\ pc[k] # "idle"
       /\ \/ cache[k].rv < mem[k].rv
          \/ /\ mem[k] = cache[k]
             /\ pc[k] # "prepare" => DirectorWarned(mem[k])
             /\ pc[k] = "save" => config[DirectorOf[mem[k].orig]][k] = mem[k].spec

TrackedInv == \A k \in Key : Tracked(k)

\* A step of the worker for k leaves the others as they are.
LEMMA TrackedOne ==
  ASSUME WorkerInv, TrackedInv, NEW k \in Key, UNCHANGED cache, queue \ {k} \subseteq queue',
         \A j \in Key \ {k} : /\ api'[j] = api[j] /\ pc'[j] = pc[j] /\ mem'[j] = mem[j]
                              /\ \A d \in Directors : config'[d][j] = config[d][j],
         Tracked(k)'
  PROVE  TrackedInv'
<1>1. ASSUME NEW j \in Key \ {k} PROVE Tracked(j)'
  <2>1. Tracked(j)
    BY DEF TrackedInv
  <2>2. cache[j].orig # None => DirectorOf[cache[j].orig] \in Directors
    BY Typed, CompilationAssumption DEF Object, SpecOrNone
  <2>3. cache[j].avail => cache[j].orig # None
    BY Typed DEF PhaseInv, Owned, Sane, Frozen
  <2>4. Current(j)' <=> Current(j)
    BY <2>2, <2>3 DEF Current
  <2>5. pc[j] = "save" => mem[j].orig # None
    BY Typed, StepNames DEF AtStep
  <2>6. pc[j] = "save" => DirectorOf[mem[j].orig] \in Directors
    BY <2>5, Directed
  <2>7. QED
    BY <2>1, <2>4, <2>6 DEF Tracked
<1>2. QED
  BY <1>1 DEF TrackedInv

\* The steps that write to the API server, when they change something.
LEMMA TrackedWrite ==
  ASSUME WorkerInv, TrackedInv, NEW k \in Key, NEW step, NEW m, NEW new,
         Write(k, m, new, step), UNCHANGED config,
         m.rv = api[k].rv => \/ new.rv > api[k].rv /\ new.rv \in Nat
                             \/ new = api[k] /\ step = "idle"
                                /\ (k \in queue \/ cache[k].rv < api[k].rv \/ Current(k))
  PROVE  TrackedInv'
<1>1. /\ UNCHANGED cache /\ queue \subseteq queue'
      /\ \A j \in Key \ {k} : api'[j] = api[j] /\ pc'[j] = pc[j] /\ mem'[j] = mem[j]
      /\ \/ k \in queue'
         \/ pc'[k] = "idle" /\ cache'[k].rv < api'[k].rv
         \/ pc'[k] # "idle" /\ cache'[k].rv < mem'[k].rv
         \/ m.rv = api[k].rv /\ new = api[k] /\ pc'[k] = step /\ api'[k] = api[k]
  BY Typed, WriteNoticed
<1>2. ASSUME m.rv = api[k].rv, new = api[k]
      PROVE  step = "idle" /\ (k \in queue \/ cache[k].rv < api[k].rv \/ Current(k))
  <2>1. ~ (api[k].rv > api[k].rv)
    BY Typed DEF Object
  <2>2. QED
    BY <1>2, <2>1
<1>3. Current(k)' <=> Current(k)
  BY <1>1 DEF Current
<1>4. Tracked(k)'
  BY <1>1, <1>2, <1>3 DEF Tracked
<1>5. QED
  BY <1>1, <1>4, TrackedOne

LEMMA TrackedGoto ==
  ASSUME WorkerInv, TrackedInv, NEW k \in Key, NEW step \in Steps \ {"idle", "prepare"},
         pc[k] # "idle", Goto(k, step, mem[k]), UNCHANGED <<api, cache, queue>>,
         pc[k] # "prepare" \/ DirectorWarned(mem[k]),
         step = "save" => config'[DirectorOf[mem[k].orig]][k] = mem[k].spec,
         \A j \in Key \ {k}, d \in Directors : config'[d][j] = config[d][j]
  PROVE  TrackedInv'
<1>1. /\ pc'[k] = step /\ mem'[k] = mem[k]
      /\ \A j \in Key \ {k} : api'[j] = api[j] /\ pc'[j] = pc[j] /\ mem'[j] = mem[j]
  BY Typed DEF Goto
<1>2. Tracked(k)'
  BY <1>1 DEF Tracked, TrackedInv, DirectorWarned
<1>3. QED
  BY <1>1, <1>2, TrackedOne

LEMMA TrackedEnvironment ==
  ASSUME WorkerInv, TrackedInv, NEW k \in Key, Environment(k)
  PROVE  TrackedInv'
<1>1. /\ api \in [Key -> Object] /\ mem \in [Key -> Object] /\ pc \in [Key -> Steps]
      /\ cache \in [Key -> Object] /\ UNCHANGED config
      /\ cache[k].rv <= api[k].rv /\ cache[k].rv \in Nat /\ api[k].rv \in Nat
  BY Typed DEF Copy, Object, WorkerInv, CtrlInv, CtrlTypeOK, Environment, external
<1>2. CASE UserCreate(k) \/ UserEdit(k) \/ UserDelete(k)
  <2>1. /\ UNCHANGED <<cache, queue, pc, mem>> /\ api'[k].rv = api[k].rv + 1
        /\ \A j \in Key \ {k} : api'[j] = api[j]
    BY <1>2, Typed, UserVersion
  <2>2. Tracked(k)'
    BY <1>1, <2>1 DEF TrackedInv, Tracked
  <2>3. QED
    BY <1>1, <2>1, <2>2, TrackedOne
<1>3. CASE Watch(k)
  <2>1. /\ k \in queue' /\ queue \subseteq queue' /\ UNCHANGED <<api, pc, mem>>
        /\ \A j \in Key \ {k} : cache'[j] = cache[j]
    BY <1>1, <1>3 DEF Watch
  <2>2. \A j \in Key \ {k} : Current(j)' <=> Current(j)
    BY <1>1, <2>1 DEF Current
  <2>3. QED
    BY <1>1, <2>1, <2>2 DEF TrackedInv, Tracked
<1>4. CASE Resync(k) \/ Fail(k)
  <2>1. /\ k \in queue' /\ queue \subseteq queue' /\ UNCHANGED <<api, cache>>
        /\ \A j \in Key \ {k} : pc'[j] = pc[j] /\ mem'[j] = mem[j]
    BY <1>1, <1>4 DEF Resync, Fail, Retry, Goto
  <2>2. QED
    BY <1>1, <2>1, TrackedOne DEF Tracked
<1>5. CASE Crash
  <2>1. \A j \in Key : pc'[j] = "idle" /\ cache'[j] = api[j] /\ (api[j].live => j \in queue')
    BY <1>5 DEF Crash
  <2>2. QED
    BY <2>1 DEF TrackedInv, Tracked, Current
<1>6. QED
  BY <1>2, <1>3, <1>4, <1>5 DEF Environment

LEMMA TrackedNext ==
  ASSUME WorkerInv, ConfInv, TrackedInv, [Next]_vars
  PROVE  TrackedInv'
<1>1. ASSUME NEW k \in Key, Get(k)
      PROVE  TrackedInv'
  <2>1. /\ UNCHANGED <<api, cache, config>> /\ queue \ {k} \subseteq queue'
        /\ \A j \in Key \ {k} : pc'[j] = pc[j] /\ mem'[j] = mem[j]
        /\ pc'[k] = IF cache[k].live THEN "prepare" ELSE "idle"
        /\ cache[k].live => mem'[k] = cache[k]
    BY <1>1, Typed DEF Get, Dequeue, Goto, external
  <2>2. Tracked(k)'
    BY <2>1 DEF Tracked, Current
  <2>3. QED
    BY <2>1, <2>2, TrackedOne
<1>2. ASSUME NEW k \in Key, SavePrepared(k)
      PROVE  TrackedInv'
  <2> DEFINE m == PrepareDirector(mem[k])
             w == [api[k] EXCEPT !.orig = m.orig, !.warn = m.warn, !.avail = m.avail]
  <2>1. /\ pc[k] = "prepare" /\ mem[k].live /\ UNCHANGED config
        /\ \/ m # mem[k] /\ StatusUpdate(k, m, "client")
           \/ m = mem[k] /\ Goto(k, "client", m) /\ UNCHANGED <<api, cache, queue, faults>>
    BY <1>2, Typed DEF SavePrepared, external, AtStep
  <2>2. m \in Object /\ m.rv = mem[k].rv /\ m.orig # None
    BY <2>1, Typed, DirectorPrepared
  <2>3. m = mem[k] => DirectorWarned(mem[k])
    BY <2>2, Typed DEF PrepareDirector, DirectorWarned, Object
  <2>4. m = [mem[k] EXCEPT !.orig = m.orig, !.warn = m.warn, !.avail = m.avail]
    BY Typed DEF PrepareDirector, Object
  <2> HIDE DEF m
  <2>5. CASE m # mem[k] /\ StatusUpdate(k, m, "client")
    <3>1. w \in Object /\ api[k] \in Object
      BY <2>2, Typed DEF Object
    <3>2. m.rv = api[k].rv => w # api[k]
      BY <2>2, <2>4, <2>5, Typed, WrittenIsRead
    <3>3. Write(k, m, Stored(api[k], w), "client")
      BY <2>5 DEF StatusUpdate
    <3> HIDE DEF w
    <3>4. QED
      BY <2>1, <3>1, <3>2, <3>3, StoredVersion, TrackedWrite
  <2>6. CASE m = mem[k] /\ Goto(k, "client", m) /\ UNCHANGED <<api, cache, queue, faults>>
    <3>1. Goto(k, "client", mem[k]) /\ DirectorWarned(mem[k]) /\ UNCHANGED <<api, cache, queue>>
      BY <2>3, <2>6
    <3>2. "client" \in Steps \ {"idle", "prepare"}
      BY StepNames
    <3>3. QED
      BY <2>1, <3>1, <3>2, TrackedGoto
  <2>7. QED
    BY <2>1, <2>5, <2>6
<1>3. ASSUME NEW k \in Key, Client(k)
      PROVE  TrackedInv'
  <2>1. pc[k] = "client" /\ UNCHANGED <<api, cache, config>>
    BY <1>3 DEF Client, external
  <2>2. CASE Goto(k, IF mem[k].del THEN "delete" ELSE "finalize", mem[k]) /\ UNCHANGED queue
    BY <2>1, <2>2, TrackedGoto, StepNames
  <2>3. CASE Retry(k)
    <3>1. /\ k \in queue' /\ queue \subseteq queue'
          /\ \A j \in Key \ {k} : pc'[j] = pc[j] /\ mem'[j] = mem[j]
      BY <2>3, Typed DEF Retry, Goto
    <3>2. QED
      BY <2>1, <3>1, TrackedOne DEF Tracked
  <2>4. QED
    BY <1>3, <2>2, <2>3 DEF Client
<1>4. ASSUME NEW k \in Key, EnsureFinalizer(k)
      PROVE  TrackedInv'
  <2> DEFINE m == [mem[k] EXCEPT !.fin = TRUE]
             w == [api[k] EXCEPT !.spec = m.spec, !.fin = m.fin]
  <2>1. pc[k] = "finalize" /\ UNCHANGED config
    BY <1>4 DEF EnsureFinalizer, external
  <2>2. m \in Object /\ m.rv = mem[k].rv /\ m.fin = TRUE
    BY Typed DEF Object
  <2>3. CASE mem[k].fin # TRUE /\ Update(k, m, "create")
    <3>1. w \in Object /\ w.fin = TRUE /\ api[k] \in Object
      BY <2>2, Typed DEF Object
    <3>2. m.rv = api[k].rv => w # api[k]
      BY <2>2, <2>3, <3>1, Typed, WrittenIsRead
    <3>3. Write(k, m, Stored(api[k], w), "create")
      BY <2>2, <2>3 DEF Update
    <3> HIDE DEF w, m
    <3>4. QED
      BY <2>1, <3>1, <3>2, <3>3, StoredVersion, TrackedWrite
  <2>4. CASE Goto(k, "create", mem[k]) /\ UNCHANGED <<api, cache, queue, faults>>
    <3>1. "create" \in Steps \ {"idle", "prepare"}
      BY StepNames
    <3>2. QED
      BY <2>1, <2>4, <3>1, TrackedGoto
  <2>5. QED
    BY <1>4, <2>3, <2>4 DEF EnsureFinalizer, UpdateIfFinalizer
<1>5. ASSUME NEW k \in Key, CreateConfig(k)
      PROVE  TrackedInv'
  <2>1. pc[k] = "create" /\ Goto(k, "save", mem[k]) /\ UNCHANGED <<api, cache, queue>>
    BY <1>5 DEF CreateConfig
  <2>2. /\ config'[DirectorOf[mem[k].orig]][k] = mem[k].spec
        /\ \A j \in Key \ {k}, d \in Directors : config'[d][j] = config[d][j]
    BY <1>5, ConfOfOne
  <2>3. "save" \in Steps \ {"idle", "prepare"}
    BY StepNames
  <2>4. QED
    BY <2>1, <2>2, <2>3, TrackedGoto
<1>6. ASSUME NEW k \in Key, DeleteConfig(k)
      PROVE  TrackedInv'
  <2>1. pc[k] = "delete" /\ Goto(k, "unfinalize", mem[k]) /\ UNCHANGED <<api, cache, queue>>
    BY <1>6 DEF DeleteConfig
  <2>2. \A j \in Key \ {k}, d \in Directors : config'[d][j] = config[d][j]
    BY <1>6, ConfOfOne
  <2>3. "unfinalize" \in Steps \ {"idle", "prepare"}
    BY StepNames
  <2>4. QED
    BY <2>1, <2>2, <2>3, TrackedGoto
\* The last write changes nothing only if everything is in place.
<1>7. ASSUME NEW k \in Key, SaveAvailable(k)
      PROVE  TrackedInv'
  <2> DEFINE m == [mem[k] EXCEPT !.avail = TRUE]
             w == [api[k] EXCEPT !.orig = m.orig, !.warn = m.warn, !.avail = m.avail]
  <2>1. /\ pc[k] = "save" /\ UNCHANGED config /\ StatusUpdate(k, m, "idle")
        /\ mem[k].live /\ ~ mem[k].del
    BY <1>7, Typed, StepNames DEF SaveAvailable, external, AtStep
  <2>2. m \in Object /\ m.rv = mem[k].rv /\ m.avail = TRUE
    BY Typed DEF Object
  <2>3. w \in Object /\ w.avail = TRUE /\ api[k] \in Object
    BY <2>2, Typed DEF Object
  <2>4. Write(k, m, Stored(api[k], w), "idle")
    BY <2>1 DEF StatusUpdate
  <2>5. m.rv = api[k].rv => mem[k] = api[k]
    BY <2>2, Typed, WrittenIsRead
  <2> HIDE DEF m, w
  <2>6. ASSUME m.rv = api[k].rv, w = api[k]
        PROVE  k \in queue \/ cache[k].rv < api[k].rv \/ Current(k)
    BY <2>1, <2>3, <2>5, <2>6 DEF TrackedInv, Tracked, Current
  <2>7. QED
    BY <2>1, <2>3, <2>4, <2>6, StoredVersion, TrackedWrite
<1>8. ASSUME NEW k \in Key, EnsureNoFinalizer(k)
      PROVE  TrackedInv'
  <2> DEFINE m == [mem[k] EXCEPT !.fin = FALSE]
             w == [api[k] EXCEPT !.spec = m.spec, !.fin = m.fin]
             new == IF api[k].del /\ ~ m.fin THEN Absent(api[k].rv + 1)
                                             ELSE Stored(api[k], w)
  <2>1. /\ pc[k] = "unfinalize" /\ UNCHANGED config /\ mem[k].del /\ mem[k].fin
    BY <1>8, Typed, StepNames DEF EnsureNoFinalizer, external, AtStep, Sane, Frozen
  <2>2. m.rv = mem[k].rv /\ m.fin = FALSE
    BY Typed DEF Object
  <2>3. Write(k, m, new, "idle")
    BY <1>8, <2>1 DEF EnsureNoFinalizer, UpdateIfFinalizer, Update
  <2>4. m.rv = api[k].rv => new.rv > api[k].rv /\ new.rv \in Nat
    <3>1. api[k].rv \in Nat /\ Absent(api[k].rv + 1).rv = api[k].rv + 1
      BY Typed DEF Object, Absent
    <3>2. m.rv = api[k].rv => mem[k] = api[k]
      BY <2>2, Typed, WrittenIsRead
    <3>3. m.rv = api[k].rv => new = Absent(api[k].rv + 1)
      BY <2>1, <2>2, <3>2
    <3> HIDE DEF new, m
    <3>4. QED
      BY <3>1, <3>3
  <2> HIDE DEF new, m
  <2>5. QED
    BY <2>1, <2>3, <2>4, TrackedWrite
<1>9. ASSUME NEW k \in Key, Environment(k)
      PROVE  TrackedInv'
  BY <1>9, TrackedEnvironment
<1>10. ASSUME UNCHANGED <<ctrlVars, config>>
       PROVE  TrackedInv'
  BY <1>10 DEF TrackedInv, Tracked, Current, ctrlVars
<1>11. QED
  BY <1>1, <1>2, <1>3, <1>4, <1>5, <1>6, <1>7, <1>8, <1>9, <1>10
     DEF Next, Step, Operate, vars, external

\* Once nothing is queued or running for a Compilation that is there, its
\* Director has the settings of the latest spec, however the edits fell
\* between the steps of the reconciliations, and whatever failed.
THEOREM CompilationSettled == Spec => []SettledIsCurrent
<1>1. Init => TrackedInv
  <2> SUFFICES ASSUME Init PROVE TrackedInv
    OBVIOUS
  <2>1. \A k \in Key : pc[k] = "idle" /\ ~ cache[k].live
    BY DEF Init, CtrlInit, Absent
  <2>2. QED
    BY <2>1 DEF TrackedInv, Tracked, Current
<1>2. WorkerInv /\ ConfInv /\ TrackedInv /\ [Next]_vars => TrackedInv'
  BY TrackedNext
<1>3. WorkerInv /\ TrackedInv => SettledIsCurrent
  <2> SUFFICES ASSUME WorkerInv, TrackedInv, NEW k \in Key, Settled(k), api[k].live
               PROVE  /\ ~ api[k].del /\ api[k].avail
                      /\ config[DirectorOf[api[k].orig]][k] = api[k].spec
                      /\ api[k].warn = (DirectorOf[api[k].spec] # DirectorOf[api[k].orig])
    BY DEF SettledIsCurrent
  <2>1. ~ (api[k].rv < api[k].rv)
    BY Typed DEF Object
  <2>2. QED
    BY <2>1 DEF TrackedInv, Tracked, Settled, Current, DirectorWarned
<1>4. QED
  BY <1>1, <1>2, <1>3, WorkerInvariant, ConfInvariant, PTL DEF Spec

=============================================================================
