--------------------------- MODULE CloudConfigProofs ---------------------------
(***************************************************************************)
(* Theorems about the AZ and Extension reconcilers, for any number of      *)
(* resources, specs, writes, errors and crashes.  Those about the configs  *)
(* need that no two resources share the name of a config, which the        *)
(* hyphens in the names of the code do not guarantee.                      *)
(***************************************************************************)
EXTENDS CloudConfigController, ControllerProofs

Distinct == \A j, k \in Key : InternalName(j) = InternalName(k) => j = k

Steps == {"idle"} \union CreateSteps \union DeleteSteps

\* What the running reconciliation knows at each of its steps.
AtStep(k) ==
    /\ pc[k] # "idle" => mem[k].live
    /\ pc[k] \in CreateSteps => ~ mem[k].del
    /\ pc[k] \in CreateSteps \ {"prepare"} => mem[k].orig # None
    /\ pc[k] \in {"create", "save"} => mem[k].fin
    /\ pc[k] \in DeleteSteps => mem[k].del /\ mem[k].rv <= cache[k].rv

\* The inductive invariant of the worker.
WorkerInv ==
    /\ CtrlInv(Steps)
    /\ PhaseInv(SpecsOf)
    /\ \A k \in Key : AtStep(k)

\* The config of k, and the inductive invariant about it: who has one has
\* claimed it, and it is what the status tells.
Conf(k) == config[InternalName(k)]

ConfInv ==
    /\ config \in [Names -> SpecOrNone]
    /\ \A k \in Key :
          /\ Conf(k) # None => api[k].fin /\ Conf(k) = api[k].orig
          /\ api[k].avail /\ ~ api[k].del => Conf(k) = api[k].orig
          /\ pc[k] = "save" => Conf(k) = mem[k].orig
          /\ pc[k] = "unfinalize" => Conf(k) = None

-----------------------------------------------------------------------------
LEMMA StepNames ==
  /\ Steps = {"idle", "prepare", "finalize", "create", "save", "delete", "unfinalize"}
  /\ CreateSteps = {"prepare", "finalize", "create", "save"}
  /\ DeleteSteps = {"delete", "unfinalize"}
  BY DEF Steps, CreateSteps, DeleteSteps

LEMMA Typed ==
  ASSUME WorkerInv, NEW k \in Key
  PROVE  /\ CtrlInv(Steps) /\ PhaseInv(SpecsOf) /\ AtStep(k)
         /\ api[k] \in Object /\ cache[k] \in Object /\ mem[k] \in Object
         /\ Sane(api[k]) /\ Sane(cache[k]) /\ Sane(mem[k])
         /\ Frozen(api[k]) /\ Frozen(cache[k]) /\ Frozen(mem[k])
         /\ Copy(api[k], cache[k]) /\ Copy(api[k], mem[k])
         /\ api \in [Key -> Object] /\ mem \in [Key -> Object] /\ pc \in [Key -> Steps]
         /\ queue \in SUBSET Key
  BY StepNames DEF WorkerInv, CtrlInv, CtrlTypeOK

\* A step of the worker concerns one key.
LEMMA WorkerStep ==
  ASSUME WorkerInv, NEW k \in Key, CtrlInv(Steps)', PhaseInv(SpecsOf)', UNCHANGED cache,
         \A j \in Key \ {k} : pc'[j] = pc[j] /\ mem'[j] = mem[j],
         AtStep(k)'
  PROVE  WorkerInv'
  BY DEF WorkerInv, AtStep

\* One that moves on with an unchanged copy.
LEMMA MoveStep ==
  ASSUME WorkerInv, NEW k \in Key, NEW step \in Steps \ {"idle"}, pc[k] # "idle",
         Goto(k, step, mem[k]), UNCHANGED <<api, cache, queue, faults>>
  PROVE  /\ CtrlInv(Steps)' /\ PhaseInv(SpecsOf)' /\ Phases' = Phases
         /\ mem' = mem /\ pc'[k] = step
         /\ \A j \in Key \ {k} : pc'[j] = pc[j] /\ mem'[j] = mem[j]
<1>1. CtrlInv(Steps)'
  BY Typed, GotoStep
<1>2. PhaseInv(SpecsOf)' /\ Phases' = Phases
  BY Typed, GotoPhase
<1>3. mem' = mem /\ pc'[k] = step /\ \A j \in Key \ {k} : pc'[j] = pc[j]
  BY Typed DEF Goto
<1>4. QED
  BY <1>1, <1>2, <1>3

LEMMA GetStep ==
  ASSUME WorkerInv, NEW k \in Key, Get(k)
  PROVE  /\ WorkerInv' /\ Phases' = Phases
         /\ pc'[k] \in {"idle", "delete", "prepare"}
         /\ \A j \in Key \ {k} : pc'[j] = pc[j] /\ mem'[j] = mem[j]
<1>1. PICK step \in Steps :
         /\ Goto(k, step, cache[k])
         /\ \/ step = "idle"
            \/ step = "delete" /\ cache[k].live /\ cache[k].del
            \/ step = "prepare" /\ cache[k].live /\ ~ cache[k].del
  <2>1. CASE ~ cache[k].live /\ Goto(k, "idle", cache[k])
    BY <2>1, StepNames
  <2>2. CASE cache[k].live /\ cache[k].del /\ Goto(k, "delete", cache[k])
    BY <2>2, StepNames
  <2>3. CASE cache[k].live /\ ~ cache[k].del /\ Goto(k, "prepare", cache[k])
    BY <2>3, StepNames
  <2>4. QED
    BY <2>1, <2>2, <2>3 DEF Get
<1>2. UNCHANGED <<api, cache, faults>> /\ Idle /\ queue' \in SUBSET Key
  BY Typed DEF Get, Dequeue
<1>3. CtrlInv(Steps)' /\ PhaseInv(SpecsOf)' /\ Phases' = Phases
  BY <1>1, <1>2, Typed, GotoStep, GotoPhase
<1>4. /\ pc'[k] = step /\ (step # "idle" => mem'[k] = cache[k])
      /\ \A j \in Key \ {k} : pc'[j] = pc[j] /\ mem'[j] = mem[j]
  BY <1>1, Typed DEF Goto
<1>5. cache[k].rv <= cache[k].rv
  BY Typed DEF Object
<1>6. AtStep(k)'
  BY <1>1, <1>2, <1>4, <1>5, StepNames DEF AtStep
<1>7. QED
  BY <1>1, <1>2, <1>3, <1>4, <1>6, WorkerStep

\* Storing the original spec leaves what is claimed and shown as it is.
LEMMA SavePreparedStep ==
  ASSUME WorkerInv, NEW k \in Key, SavePrepared(k)
  PROVE  /\ WorkerInv' /\ Phases' = Phases /\ UNCHANGED config
         /\ pc'[k] \in {"idle", "finalize"}
         /\ api'[k].fin = api[k].fin /\ api'[k].avail = api[k].avail
         /\ api'[k].del = api[k].del /\ (api[k].fin => api'[k].orig = api[k].orig)
         /\ \A j \in Key \ {k} : api'[j] = api[j] /\ pc'[j] = pc[j] /\ mem'[j] = mem[j]
<1> DEFINE m == PrepareToSave(mem[k])
<1>1. pc[k] = "prepare" /\ SaveIfPrepared(k, "finalize") /\ UNCHANGED config
  BY DEF SavePrepared
<1>2. mem[k].live /\ ~ mem[k].del
  BY <1>1, Typed, StepNames DEF AtStep
<1>3. /\ m \in Object /\ m.rv = mem[k].rv /\ m.orig # None /\ m.avail = mem[k].avail
      /\ mem[k].fin \/ mem[k].orig # None => m.orig = mem[k].orig
  <2>1. m.avail = mem[k].avail
    BY Typed DEF PrepareToSave, Object
  <2>2. QED
    BY <1>2, <2>1, Typed, Prepared DEF Frozen
<1> HIDE DEF m
<1>4. PhaseInv(SpecsOf)' /\ Phases' = Phases
  BY <1>1, Typed, PreparedPhase
<1>5. CASE StatusUpdate(k, m, "finalize")
  <2>1. /\ CtrlInv(Steps)'
        /\ pc'[k] = "idle" \/
             /\ pc'[k] = "finalize"
             /\ mem'[k].live = mem[k].live /\ mem'[k].del = mem[k].del
             /\ mem'[k].fin = mem[k].fin /\ mem'[k].orig = m.orig
    BY <1>1, <1>2, <1>3, <1>5, Typed, StatusStep, StepNames
  <2>2. /\ UNCHANGED cache
        /\ \A j \in Key \ {k} : api'[j] = api[j] /\ pc'[j] = pc[j] /\ mem'[j] = mem[j]
        /\ api'[k].live = api[k].live /\ api'[k].del = api[k].del
        /\ api'[k].fin = api[k].fin
        /\ \/ api'[k] = api[k]
           \/ m.rv = api[k].rv /\ api'[k].orig = m.orig /\ api'[k].avail = m.avail
    BY <1>5, Typed, StatusFields
  <2>3. AtStep(k)'
    BY <1>2, <1>3, <2>1, StepNames DEF AtStep
  <2>4. WorkerInv'
    BY <1>4, <2>1, <2>2, <2>3, WorkerStep
  <2>5. m.rv = api[k].rv => mem[k] = api[k]
    BY <1>3, Typed, WrittenIsRead
  <2>6. api[k].fin => api[k].orig # None
    BY Typed DEF Sane, Frozen
  <2>7. QED
    BY <1>1, <1>3, <1>4, <2>1, <2>2, <2>4, <2>5, <2>6
<1>6. CASE m = mem[k] /\ Goto(k, "finalize", m) /\ UNCHANGED <<api, cache, queue, faults>>
  <2>1. /\ CtrlInv(Steps)' /\ pc'[k] = "finalize" /\ mem' = mem
        /\ \A j \in Key \ {k} : pc'[j] = pc[j] /\ mem'[j] = mem[j]
    BY <1>1, <1>6, MoveStep, StepNames
  <2>2. AtStep(k)'
    BY <1>2, <1>3, <1>6, <2>1, StepNames DEF AtStep
  <2>3. QED
    BY <1>1, <1>4, <1>6, <2>1, <2>2, WorkerStep
<1>7. QED
  BY <1>1, <1>5, <1>6 DEF SaveIfPrepared, m

LEMMA EnsureFinalizerStep ==
  ASSUME WorkerInv, NEW k \in Key, EnsureFinalizer(k)
  PROVE  /\ WorkerInv' /\ UNCHANGED config
         /\ \/ Phases' = Phases
            \/ Phases[k] = "declared" /\ Phases' = [Phases EXCEPT ![k] = "claimed"]
         /\ pc'[k] \in {"idle", "create"}
         /\ api'[k].avail = api[k].avail /\ api'[k].del = api[k].del
         /\ api'[k].orig = api[k].orig /\ (api[k].fin => api'[k].fin)
         /\ \A j \in Key \ {k} : api'[j] = api[j] /\ pc'[j] = pc[j] /\ mem'[j] = mem[j]
<1>1. pc[k] = "finalize" /\ UpdateIfFinalizer(k, TRUE, "create") /\ UNCHANGED config
  BY DEF EnsureFinalizer
<1>2. mem[k].live /\ ~ mem[k].del /\ mem[k].orig # None
  BY <1>1, Typed, StepNames DEF AtStep
<1>3. /\ PhaseInv(SpecsOf)'
      /\ \/ Phases' = Phases
         \/ Phases[k] = "declared" /\ Phases' = [Phases EXCEPT ![k] = "claimed"]
  BY <1>1, <1>2, Typed, ClaimPhase
<1>4. CASE Update(k, [mem[k] EXCEPT !.fin = TRUE], "create")
  <2>1. /\ CtrlInv(Steps)'
        /\ pc'[k] = "idle" \/
             /\ pc'[k] = "create"
             /\ mem'[k].live /\ ~ mem'[k].del /\ mem'[k].fin
             /\ mem'[k].orig = mem[k].orig
    BY <1>1, <1>2, <1>4, Typed, FinalizerStep, StepNames
  <2>2. /\ UNCHANGED cache
        /\ \A j \in Key \ {k} : api'[j] = api[j] /\ pc'[j] = pc[j] /\ mem'[j] = mem[j]
        /\ \/ api'[k] = api[k]
           \/ /\ api'[k].fin /\ api'[k].del = api[k].del
              /\ api'[k].orig = api[k].orig /\ api'[k].avail = api[k].avail
    BY <1>4, Typed, FinalizerFields
  <2>3. AtStep(k)'
    BY <1>2, <2>1, StepNames DEF AtStep
  <2>4. WorkerInv'
    BY <1>3, <2>1, <2>2, <2>3, WorkerStep
  <2>5. QED
    BY <1>1, <1>3, <2>1, <2>2, <2>4
<1>5. CASE mem[k].fin /\ Goto(k, "create", mem[k]) /\ UNCHANGED <<api, cache, queue, faults>>
  <2>1. /\ CtrlInv(Steps)' /\ pc'[k] = "create" /\ mem' = mem
        /\ \A j \in Key \ {k} : pc'[j] = pc[j] /\ mem'[j] = mem[j]
    BY <1>1, <1>5, MoveStep, StepNames
  <2>2. AtStep(k)'
    BY <1>2, <1>5, <2>1, StepNames DEF AtStep
  <2>3. QED
    BY <1>1, <1>3, <1>5, <2>1, <2>2, WorkerStep
<1>6. QED
  BY <1>1, <1>4, <1>5 DEF UpdateIfFinalizer

\* The steps that write to the Director and nowhere else.
LEMMA ConfigStep ==
  ASSUME WorkerInv, NEW k \in Key, CreateConfig(k) \/ DeleteConfig(k)
  PROVE  /\ WorkerInv' /\ Phases' = Phases /\ UNCHANGED api /\ mem' = mem
         /\ CreateConfig(k) => pc'[k] = "save"
         /\ DeleteConfig(k) => pc'[k] = "unfinalize"
         /\ \A j \in Key \ {k} : pc'[j] = pc[j] /\ mem'[j] = mem[j]
<1>1. PICK step \in Steps \ {"idle"} :
         /\ Goto(k, step, mem[k])
         /\ CreateConfig(k) => pc[k] = "create" /\ step = "save"
         /\ DeleteConfig(k) => pc[k] = "delete" /\ step = "unfinalize"
  <2>1. CASE CreateConfig(k)
    <3>1. pc[k] = "create" /\ Goto(k, "save", mem[k])
      BY <2>1 DEF CreateConfig
    <3>2. ~ DeleteConfig(k)
      BY <3>1 DEF DeleteConfig
    <3>3. QED
      BY <3>1, <3>2, StepNames
  <2>2. CASE DeleteConfig(k)
    <3>1. pc[k] = "delete" /\ Goto(k, "unfinalize", mem[k])
      BY <2>2 DEF DeleteConfig
    <3>2. ~ CreateConfig(k)
      BY <3>1 DEF CreateConfig
    <3>3. QED
      BY <3>1, <3>2, StepNames
  <2>3. QED
    BY <2>1, <2>2
<1>2. UNCHANGED <<api, cache, queue, faults>> /\ pc[k] # "idle"
  BY <1>1 DEF CreateConfig, DeleteConfig
<1>3. /\ CtrlInv(Steps)' /\ PhaseInv(SpecsOf)' /\ Phases' = Phases /\ pc'[k] = step /\ mem' = mem
      /\ \A j \in Key \ {k} : pc'[j] = pc[j] /\ mem'[j] = mem[j]
  BY <1>1, <1>2, MoveStep
<1>4. AtStep(k)'
  BY <1>1, <1>2, <1>3, Typed, StepNames DEF AtStep
<1>5. QED
  BY <1>1, <1>2, <1>3, <1>4, WorkerStep

LEMMA SaveAvailableStep ==
  ASSUME WorkerInv, NEW k \in Key, SaveAvailable(k)
  PROVE  /\ WorkerInv' /\ Phases' = Phases /\ UNCHANGED config
         /\ pc[k] = "save" /\ pc'[k] = "idle"
         /\ api'[k].fin = api[k].fin /\ api'[k].del = api[k].del
         /\ api'[k] = api[k] \/ (api'[k].orig = mem[k].orig /\ mem[k] = api[k])
         /\ \A j \in Key \ {k} : api'[j] = api[j] /\ pc'[j] = pc[j] /\ mem'[j] = mem[j]
<1> DEFINE m == [mem[k] EXCEPT !.avail = TRUE]
<1>1. pc[k] = "save" /\ StatusUpdate(k, m, "idle") /\ UNCHANGED config
  BY DEF SaveAvailable
<1>2. mem[k].live /\ mem[k].fin /\ mem[k].orig # None
  BY <1>1, Typed, StepNames DEF AtStep
<1>3. m \in Object /\ m.rv = mem[k].rv /\ m.orig = mem[k].orig
  BY Typed DEF Object
<1> HIDE DEF m
<1>4. CtrlInv(Steps)' /\ pc'[k] = "idle"
  BY <1>1, <1>2, <1>3, Typed, StatusStep, StepNames
<1>5. PhaseInv(SpecsOf)' /\ Phases' = Phases
  BY <1>1, <1>2, <1>3, Typed, StatusPhase
<1>6. /\ UNCHANGED cache
      /\ \A j \in Key \ {k} : api'[j] = api[j] /\ pc'[j] = pc[j] /\ mem'[j] = mem[j]
      /\ api'[k].del = api[k].del /\ api'[k].fin = api[k].fin
      /\ api'[k] = api[k] \/ (m.rv = api[k].rv /\ api'[k].orig = m.orig)
  BY <1>1, Typed, StatusFields
<1>7. AtStep(k)'
  BY <1>4, StepNames DEF AtStep
<1>8. WorkerInv'
  BY <1>4, <1>5, <1>6, <1>7, WorkerStep
<1>9. m.rv = api[k].rv => mem[k] = api[k]
  BY <1>3, Typed, WrittenIsRead
<1>10. QED
  BY <1>1, <1>3, <1>4, <1>5, <1>6, <1>8, <1>9

LEMMA EnsureNoFinalizerStep ==
  ASSUME WorkerInv, NEW k \in Key, EnsureNoFinalizer(k)
  PROVE  /\ WorkerInv' /\ UNCHANGED config
         /\ pc[k] = "unfinalize" /\ pc'[k] = "idle"
         /\ \/ UNCHANGED api /\ Phases' = Phases
            \/ /\ ~ api'[k].fin /\ ~ api'[k].avail
               /\ Phases[k] = "terminating" /\ Phases' = [Phases EXCEPT ![k] = "none"]
         /\ \A j \in Key \ {k} : api'[j] = api[j] /\ pc'[j] = pc[j] /\ mem'[j] = mem[j]
<1>1. pc[k] = "unfinalize" /\ UpdateIfFinalizer(k, FALSE, "idle") /\ UNCHANGED config
  BY DEF EnsureNoFinalizer
<1>2. /\ mem[k].live /\ mem[k].del /\ mem[k].fin /\ "idle" \in Steps
      /\ mem[k].rv = api[k].rv => cache[k].del
  BY <1>1, Typed, ReadDeletion, StepNames DEF AtStep, Sane, Frozen
<1>3. Update(k, [mem[k] EXCEPT !.fin = FALSE], "idle")
  BY <1>1, <1>2 DEF UpdateIfFinalizer
<1>4. CtrlInv(Steps)' /\ pc'[k] = "idle"
  BY <1>1, <1>2, <1>3, Typed, NoFinalizerStep
<1>5. /\ PhaseInv(SpecsOf)'
      /\ \/ UNCHANGED api /\ Phases' = Phases
         \/ /\ mem[k] = api[k] /\ ~ api'[k].live
            /\ Phases[k] = "terminating" /\ Phases' = [Phases EXCEPT ![k] = "none"]
  BY <1>1, <1>2, Typed, ReleasePhase
<1>6. /\ UNCHANGED cache
      /\ \A j \in Key \ {k} : api'[j] = api[j] /\ pc'[j] = pc[j] /\ mem'[j] = mem[j]
  BY <1>3, Typed DEF Update, Write, Retry, Goto
<1>7. AtStep(k)'
  BY <1>4, StepNames DEF AtStep
<1>8. WorkerInv'
  BY <1>4, <1>5, <1>6, <1>7, WorkerStep
<1>9. ~ api'[k].live => ~ api'[k].fin /\ ~ api'[k].avail
  <2>1. api'[k] \in Object /\ Sane(api'[k]) /\ Owned(SpecsOf, k, api'[k])
    BY <1>4, <1>5 DEF PhaseInv, CtrlInv, CtrlTypeOK
  <2>2. QED
    BY <2>1, NothingThere DEF Owned
<1>10. QED
  BY <1>1, <1>4, <1>5, <1>6, <1>8, <1>9

LEMMA EnvironmentKeeps ==
  ASSUME WorkerInv, NEW k \in Key, Environment(k)
  PROVE  /\ WorkerInv' /\ UNCHANGED config
         /\ \/ Phases' = Phases
            \/ \E m \in OwnerMoves : Phases[k] = m[1] /\ Phases' = [Phases EXCEPT ![k] = m[2]]
         /\ \A j \in Key : \/ pc'[j] = "idle"
                           \/ pc'[j] = pc[j] /\ mem'[j] = mem[j]
<1>1. CtrlInv(Steps) /\ PhaseInv(SpecsOf) /\ "idle" \in Steps
  BY StepNames DEF WorkerInv
<1>2. CASE UserCreate(k) \/ UserEdit(k) \/ UserDelete(k)
  <2>1. CtrlInv(Steps)'
    BY <1>1, <1>2, UserStep
  <2>2. UNCHANGED <<cache, pc, mem>>
    BY <1>2 DEF UserCreate, UserEdit, UserDelete, UserWrite
  <2>3. /\ PhaseInv(SpecsOf)'
        /\ \/ Phases' = Phases
           \/ \E m \in OwnerMoves : Phases[k] = m[1] /\ Phases' = [Phases EXCEPT ![k] = m[2]]
    BY <1>1, <1>2, UserPhase
  <2>4. WorkerInv'
    BY <2>1, <2>2, <2>3 DEF WorkerInv, AtStep
  <2>5. QED
    BY <2>2, <2>3, <2>4 DEF Environment
<1>3. CASE Watch(k) \/ Resync(k) \/ Fail(k) \/ Crash
  <2>1. CtrlInv(Steps)' /\ PhaseInv(SpecsOf)' /\ Phases' = Phases
    BY <1>1, <1>3, EnvironmentStep, EnvironmentPhase
  <2>2. \A j \in Key : /\ \/ pc'[j] = "idle"
                          \/ pc'[j] = pc[j] /\ mem'[j] = mem[j]
                       /\ cache'[j] = cache[j] \/ cache'[j] = api[j]
    BY <1>1, <1>3, ObjectTypes DEF Watch, Resync, Fail, Retry, Goto, Crash
  <2>3. ASSUME NEW j \in Key PROVE AtStep(j)'
    <3>1. AtStep(j) /\ mem[j].rv <= api[j].rv
      BY Typed DEF Copy
    <3>2. QED
      BY <2>2, <3>1, StepNames DEF AtStep
  <2>4. QED
    BY <2>1, <2>2, <2>3 DEF WorkerInv, Environment
<1>4. QED
  BY <1>2, <1>3 DEF Environment

LEMMA WorkerInit == Init => WorkerInv
<1> SUFFICES ASSUME Init PROVE WorkerInv
  OBVIOUS
<1>1. CtrlInv(Steps) /\ PhaseInv(SpecsOf)
  BY CtrlInitInv, PhaseInit, StepNames DEF Init
<1>2. QED
  BY <1>1, StepNames DEF WorkerInv, AtStep, Init, CtrlInit

LEMMA WorkerUntouched ==
  ASSUME WorkerInv, UNCHANGED ctrlVars
  PROVE  WorkerInv' /\ Phases' = Phases
  BY SamePhases DEF ctrlVars, WorkerInv, AtStep, CtrlInv, CtrlTypeOK, PhaseInv, Owned, Deletion

LEMMA WorkerNext == WorkerInv /\ [Next]_vars => WorkerInv'
  BY GetStep, SavePreparedStep, EnsureFinalizerStep, ConfigStep, SaveAvailableStep,
     EnsureNoFinalizerStep, EnvironmentKeeps, WorkerUntouched DEF Next, Step, vars

LEMMA WorkerInvariant == Spec => []WorkerInv
  BY WorkerInit, WorkerNext, PTL DEF Spec

\* Every variable of the worker keeps its type, and every config is that of a
\* spec or there is none.
THEOREM CloudConfigTyping == Spec => []TypeOK
<1> DEFINE ConfType == config \in [Names -> SpecOrNone]
<1>1. Init => ConfType
  BY DEF Init, SpecOrNone
<1>2. WorkerInv /\ ConfType /\ [Next]_vars => ConfType'
  <2> SUFFICES ASSUME WorkerInv, ConfType, [Next]_vars PROVE ConfType'
    OBVIOUS
  <2>1. ASSUME NEW k \in Key, CreateConfig(k) \/ DeleteConfig(k) PROVE ConfType'
    BY <2>1, Typed DEF CreateConfig, DeleteConfig, Object, SpecOrNone
  <2>2. ASSUME NEW k \in Key, Get(k) \/ Environment(k) \/ Step(k),
               ~ CreateConfig(k), ~ DeleteConfig(k)
        PROVE  UNCHANGED config
    BY <2>2 DEF Get, Environment, Step, SavePrepared, EnsureFinalizer, SaveAvailable,
       EnsureNoFinalizer
  <2>3. QED
    BY <2>1, <2>2 DEF Next, vars
<1>3. WorkerInv /\ ConfType => TypeOK
  BY DEF WorkerInv, CtrlInv, TypeOK, Steps
<1>4. QED
  BY <1>1, <1>2, <1>3, WorkerInvariant, PTL DEF Spec

-----------------------------------------------------------------------------
(* No change is lost.                                                       *)

Late == CreateSteps \ {"prepare"}

LEMMA FollowedNext ==
  ASSUME WorkerInv, FollowedInv(Late), [Next]_vars
  PROVE  FollowedInv(Late)'
<1>1. CtrlInv(Steps) /\ Late = {"finalize", "create", "save"}
  BY StepNames DEF WorkerInv, Late
<1> HIDE DEF Late
<1>2. ASSUME NEW k \in Key, Get(k)
      PROVE  FollowedInv(Late)'
  <2>1. PICK step \in {"idle", "delete", "prepare"} :
           Goto(k, step, cache[k]) /\ (step = "idle" => ~ cache[k].live)
    BY <1>2 DEF Get
  <2>2. QED
    BY <1>1, <1>2, <2>1, FollowedGet DEF Get
<1>3. ASSUME NEW k \in Key, SavePrepared(k)
      PROVE  FollowedInv(Late)'
  <2>1. pc[k] = "prepare" /\ mem[k].live /\ SaveIfPrepared(k, "finalize")
    BY <1>3, Typed DEF SavePrepared, AtStep
  <2>2. QED
    BY <1>1, <2>1, FollowedPrepared
<1>4. ASSUME NEW k \in Key, EnsureFinalizer(k)
      PROVE  FollowedInv(Late)'
  BY <1>1, <1>4, FollowedClaim DEF EnsureFinalizer
<1>5. ASSUME NEW k \in Key, CreateConfig(k) \/ DeleteConfig(k)
      PROVE  FollowedInv(Late)'
  <2>1. CASE CreateConfig(k)
    BY <1>1, <2>1, FollowedGoto DEF CreateConfig
  <2>2. CASE DeleteConfig(k)
    BY <1>1, <2>2, FollowedGoto DEF DeleteConfig
  <2>3. QED
    BY <1>5, <2>1, <2>2
<1>6. ASSUME NEW k \in Key, SaveAvailable(k)
      PROVE  FollowedInv(Late)'
  <2>1. pc[k] = "save" /\ mem[k].live /\ ~ mem[k].del /\ mem[k].fin
    BY <1>6, Typed, StepNames DEF SaveAvailable, AtStep
  <2>2. QED
    BY <1>1, <1>6, <2>1, FollowedAvailable DEF SaveAvailable
<1>7. ASSUME NEW k \in Key, EnsureNoFinalizer(k)
      PROVE  FollowedInv(Late)'
  <2>1. pc[k] = "unfinalize" /\ mem[k].live /\ mem[k].del
    BY <1>7, Typed, StepNames DEF EnsureNoFinalizer, AtStep
  <2>2. QED
    BY <1>1, <1>7, <2>1, FollowedRelease DEF EnsureNoFinalizer
<1>8. ASSUME NEW k \in Key, Environment(k)
      PROVE  FollowedInv(Late)'
  BY <1>1, <1>8, FollowedEnvironment DEF Environment
<1>9. CASE UNCHANGED vars
  BY <1>9, FollowedUntouched DEF vars
<1>10. QED
  BY <1>2, <1>3, <1>4, <1>5, <1>6, <1>7, <1>8, <1>9 DEF Next, Step

\* Once nothing is queued or running for a resource and the cache has seen
\* its last change, it is as its owner waits for, whatever went wrong before
\* and whatever edits came while it was being reconciled.
THEOREM CloudConfigSettled == Spec => []SettledIsConverged
<1>1. Init => FollowedInv(Late)
  BY FollowedInit DEF Init
<1>2. WorkerInv /\ FollowedInv(Late) /\ [Next]_vars => FollowedInv(Late)'
  BY FollowedNext
<1>3. WorkerInv /\ FollowedInv(Late) => SettledIsConverged
  BY FollowedSettled DEF WorkerInv, SettledIsConverged
<1>4. QED
  BY <1>1, <1>2, <1>3, WorkerInvariant, PTL DEF Spec

-----------------------------------------------------------------------------
(* What the Director has.                                                   *)

\* The two writes to the Director reach the config of one resource.
LEMMA ConfOfOne ==
  ASSUME Distinct, WorkerInv, ConfInv, NEW k \in Key
  PROVE  /\ CreateConfig(k) => Conf(k)' = mem[k].orig
         /\ DeleteConfig(k) => Conf(k)' = None
         /\ CreateConfig(k) \/ DeleteConfig(k) => \A j \in Key \ {k} : Conf(j)' = Conf(j)
         /\ CreateConfig(k) \/ DeleteConfig(k) => config' \in [Names -> SpecOrNone]
<1>1. \A j \in Key : InternalName(j) \in Names
  BY DEF Names
<1>2. \A j \in Key \ {k} : InternalName(j) # InternalName(k)
  BY DEF Distinct
<1>3. mem[k].orig \in SpecOrNone /\ None \in SpecOrNone
  BY Typed DEF Object, SpecOrNone
<1>4. config \in [Names -> SpecOrNone]
  BY DEF ConfInv
<1>5. CreateConfig(k) => config' = [config EXCEPT ![InternalName(k)] = mem[k].orig]
  BY DEF CreateConfig
<1>6. DeleteConfig(k) => config' = [config EXCEPT ![InternalName(k)] = None]
  BY DEF DeleteConfig
<1> HIDE DEF InternalName, Names
<1>7. QED
  BY <1>1, <1>2, <1>3, <1>4, <1>5, <1>6 DEF Conf

\* What the copy says of the claim still holds when the config is written.
LEMMA WrittenFor ==
  ASSUME WorkerInv, NEW k \in Key
  PROVE  /\ CreateConfig(k) => /\ api[k].fin /\ api[k].live /\ api[k].orig = mem[k].orig
                               /\ mem[k].orig # None
         /\ DeleteConfig(k) => (api[k].fin => api[k].del)
<1>1. CASE CreateConfig(k)
  <2>1. pc[k] = "create"
    BY <1>1 DEF CreateConfig
  <2>2. mem[k].fin /\ ~ mem[k].del /\ mem[k].orig # None
    BY <2>1, Typed, StepNames DEF AtStep
  <2>3. api[k].fin /\ api[k].orig = mem[k].orig
    BY <2>2, Typed DEF Copy
  <2>4. api[k].live
    BY <2>3, Typed, NothingThere
  <2>5. ~ DeleteConfig(k)
    BY <2>1 DEF DeleteConfig
  <2>6. QED
    BY <2>2, <2>3, <2>4, <2>5
<1>2. CASE DeleteConfig(k)
  <2>1. pc[k] = "delete"
    BY <1>2 DEF DeleteConfig
  <2>2. mem[k].del
    BY <2>1, Typed, StepNames DEF AtStep
  <2>3. ~ CreateConfig(k)
    BY <2>1 DEF CreateConfig
  <2>4. QED
    BY <2>2, <2>3, Typed DEF PhaseInv, Deletion
<1>3. QED
  BY <1>1, <1>2

\* The owners take no finalizer and no availability, and give none.
LEMMA OwnersKeep ==
  ASSUME WorkerInv, NEW k \in Key, Environment(k), NEW j \in Key
  PROVE  /\ api[j].fin => api'[j].fin /\ api'[j].orig = api[j].orig
         /\ api'[j].avail /\ ~ api'[j].del =>
               api[j].avail /\ ~ api[j].del /\ api'[j].orig = api[j].orig
<1>1. api \in [Key -> Object] /\ api[j] \in Object /\ api[k] \in Object /\ Sane(api[k])
  BY Typed
<1>2. CASE Watch(k) \/ Resync(k) \/ Fail(k) \/ Crash
  BY <1>2 DEF Watch, Resync, Fail, Crash
<1>3. CASE j # k /\ (UserCreate(k) \/ UserEdit(k) \/ UserDelete(k))
  BY <1>1, <1>3 DEF UserCreate, UserEdit, UserDelete, UserWrite
<1>4. CASE UserCreate(k)
  <2>1. ~ api[k].fin
    BY <1>1, <1>4, NothingThere DEF UserCreate
  <2>2. ~ api'[k].avail
    BY <1>1, <1>4 DEF UserCreate, UserWrite, Absent
  <2>3. QED
    BY <1>3, <1>4, <2>1, <2>2
<1>5. CASE UserEdit(k)
  <2>1. /\ api'[k].fin = api[k].fin /\ api'[k].del = api[k].del
        /\ api'[k].avail = api[k].avail /\ api'[k].orig = api[k].orig
    BY <1>1, <1>5 DEF UserEdit, UserWrite, Object
  <2>2. QED
    BY <1>3, <1>5, <2>1
<1>6. CASE UserDelete(k) /\ api[k].fin
  <2>1. api' = [api EXCEPT ![k] = [api[k] EXCEPT !.rv = @ + 1, !.del = TRUE]]
    BY <1>6 DEF UserDelete, UserWrite
  <2>2. api'[k].fin /\ api'[k].del /\ api'[k].orig = api[k].orig
    BY <1>1, <1>6, <2>1 DEF Object
  <2>3. QED
    BY <1>3, <1>6, <2>2
<1>7. CASE UserDelete(k) /\ ~ api[k].fin
  <2>1. api'[k] = Absent(api[k].rv + 1)
    BY <1>1, <1>7 DEF UserDelete, UserWrite
  <2>2. ~ api'[k].avail
    BY <2>1 DEF Absent
  <2>3. QED
    BY <1>3, <1>7, <2>2
<1>8. QED
  BY <1>2, <1>3, <1>4, <1>5, <1>6, <1>7 DEF Environment

LEMMA ConfNext ==
  ASSUME Distinct, WorkerInv, ConfInv, [Next]_vars
  PROVE  ConfInv'
\* A step that leaves the configs alone and keeps what is claimed.
<1>1. ASSUME UNCHANGED config,
             \A j \in Key :
                /\ api[j].fin => api'[j].fin /\ api'[j].orig = api[j].orig
                /\ api'[j].avail /\ ~ api'[j].del =>
                      api[j].avail /\ ~ api[j].del /\ api'[j].orig = api[j].orig
                /\ pc'[j] \in {"save", "unfinalize"} => pc'[j] = pc[j] /\ mem'[j] = mem[j]
      PROVE  ConfInv'
  <2>1. \A j \in Key : Conf(j)' = Conf(j)
    BY <1>1 DEF Conf
  <2>2. QED
    BY <1>1, <2>1 DEF ConfInv
<1>2. ASSUME NEW k \in Key, Get(k)
      PROVE  ConfInv'
  <2>1. UNCHANGED <<api, config>>
    BY <1>2 DEF Get
  <2>2. QED
    BY <1>1, <1>2, <2>1, GetStep
<1>3. ASSUME NEW k \in Key, SavePrepared(k)
      PROVE  ConfInv'
  <2>1. api[k].avail => api[k].fin
    BY Typed DEF PhaseInv, Owned
  <2>2. QED
    BY <1>1, <1>3, <2>1, SavePreparedStep
<1>4. ASSUME NEW k \in Key, EnsureFinalizer(k)
      PROVE  ConfInv'
  BY <1>1, <1>4, EnsureFinalizerStep
<1>5. ASSUME NEW k \in Key, CreateConfig(k)
      PROVE  ConfInv'
  BY <1>5, ConfOfOne, ConfigStep, WrittenFor DEF ConfInv
<1>6. ASSUME NEW k \in Key, DeleteConfig(k)
      PROVE  ConfInv'
  <2>1. api[k].avail => api[k].fin
    BY Typed DEF PhaseInv, Owned
  <2>2. QED
    BY <1>6, <2>1, ConfOfOne, ConfigStep, WrittenFor DEF ConfInv
<1>7. ASSUME NEW k \in Key, SaveAvailable(k)
      PROVE  ConfInv'
  <2>1. \A j \in Key : Conf(j)' = Conf(j)
    BY <1>7, SaveAvailableStep DEF Conf
  <2>2. UNCHANGED config
    BY <1>7, SaveAvailableStep
  <2>3. QED
    BY <1>7, <2>1, <2>2, SaveAvailableStep DEF ConfInv
<1>8. ASSUME NEW k \in Key, EnsureNoFinalizer(k)
      PROVE  ConfInv'
  <2>1. \A j \in Key : Conf(j)' = Conf(j)
    BY <1>8, EnsureNoFinalizerStep DEF Conf
  <2>2. UNCHANGED config
    BY <1>8, EnsureNoFinalizerStep
  <2>3. QED
    BY <1>8, <2>1, <2>2, EnsureNoFinalizerStep DEF ConfInv
<1>9. ASSUME NEW k \in Key, Environment(k)
      PROVE  ConfInv'
  BY <1>1, <1>9, OwnersKeep, EnvironmentKeeps
<1>10. CASE UNCHANGED vars
  BY <1>1, <1>10 DEF vars, ctrlVars
<1>11. QED
  BY <1>2, <1>3, <1>4, <1>5, <1>6, <1>7, <1>8, <1>9, <1>10 DEF Next, Step

LEMMA ConfInit == Init => ConfInv
<1> SUFFICES ASSUME Init PROVE ConfInv
  OBVIOUS
<1>1. \A k \in Key : Conf(k) = None
  BY DEF Init, Conf, Names
<1>2. QED
  BY <1>1, AbsentOwned DEF Init, CtrlInit, ConfInv, SpecOrNone, Owned, Absent

\* Every config is that of a resource that carries its finalizer, and as this
\* resource had it at first, whatever edits, errors and crashes there are.
THEOREM ConfigOriginal ==
  ASSUME Distinct
  PROVE  Spec => []ConfigIsOriginal
<1>1. WorkerInv /\ ConfInv /\ [Next]_vars => ConfInv'
  BY ConfNext
<1>2. WorkerInv /\ ConfInv => ConfigIsOriginal
  <2> SUFFICES ASSUME WorkerInv, ConfInv, NEW n \in Names, config[n] # None
               PROVE  \E k \in Key : /\ InternalName(k) = n
                                     /\ api[k].live /\ api[k].fin
                                     /\ config[n] = api[k].orig
    BY DEF ConfigIsOriginal
  <2>1. PICK k \in Key : InternalName(k) = n
    BY DEF Names
  <2>2. api[k].fin /\ config[n] = api[k].orig
    BY <2>1 DEF ConfInv, Conf
  <2>3. api[k].live
    BY <2>2, Typed, NothingThere
  <2>4. QED
    BY <2>1, <2>2, <2>3
<1>3. QED
  BY <1>1, <1>2, ConfInit, WorkerInvariant, PTL DEF Spec

\* What shows available and is not being deleted has its config.
THEOREM AvailableConfigured ==
  ASSUME Distinct
  PROVE  Spec => []AvailableIsConfigured
<1>1. WorkerInv /\ ConfInv /\ [Next]_vars => ConfInv'
  BY ConfNext
<1>2. ConfInv => AvailableIsConfigured
  BY DEF ConfInv, AvailableIsConfigured, Conf
<1>3. QED
  BY <1>1, <1>2, ConfInit, WorkerInvariant, PTL DEF Spec

-----------------------------------------------------------------------------
(* The refinement.                                                          *)

Exts == [k \in Key |-> Conf(k) # None]

LEMMA PromiseMove ==
  ASSUME NEW k \in Key, NEW from, NEW to, Phases[k] = from,
         Phases' = [Phases EXCEPT ![k] = to], UNCHANGED config
  PROVE  Promise!Move(k, from, to)
  BY DEF Promise!Move, Phases

LEMMA PromiseStutter ==
  ASSUME Phases' = Phases, Exts' = Exts
  PROVE  UNCHANGED Promise!vars
  BY DEF Promise!vars, Phases, Exts, Conf

LEMMA SameExts ==
  ASSUME UNCHANGED config
  PROVE  Exts' = Exts
  BY DEF Exts, Conf

LEMMA PromiseStep ==
  ASSUME Distinct, WorkerInv, ConfInv, [Next]_vars
  PROVE  [Promise!Next]_(Promise!vars)
<1>1. ASSUME NEW k \in Key, Get(k) \/ SavePrepared(k) \/ SaveAvailable(k)
      PROVE  UNCHANGED Promise!vars
  <2>1. UNCHANGED config
    BY <1>1 DEF Get, SavePrepared, SaveAvailable
  <2>2. Phases' = Phases
    BY <1>1, GetStep, SavePreparedStep, SaveAvailableStep
  <2>3. QED
    BY <2>1, <2>2, SameExts, PromiseStutter
<1>2. ASSUME NEW k \in Key, EnsureFinalizer(k)
      PROVE  Promise!Next \/ UNCHANGED Promise!vars
  <2>1. Phases' = Phases \/ Promise!Claim(k)
    BY <1>2, EnsureFinalizerStep, PromiseMove DEF Promise!Claim
  <2>2. Exts' = Exts
    BY <1>2, EnsureFinalizerStep, SameExts
  <2>3. QED
    BY <2>1, <2>2, PromiseStutter DEF Promise!Next
<1>3. ASSUME NEW k \in Key, CreateConfig(k)
      PROVE  Promise!Next
  <2>1. Phases[k] \in {"claimed", "terminating"}
    BY <1>3, WrittenFor DEF Phases, Phase
  <2>2. Exts' = [Exts EXCEPT ![k] = TRUE]
    BY <1>3, ConfOfOne, WrittenFor DEF Exts
  <2>3. Phases' = Phases
    BY <1>3, ConfigStep
  <2>4. Promise!Provision(k)
    BY <2>1, <2>2, <2>3 DEF Promise!Provision, Phases, Exts, Conf
  <2>5. QED
    BY <2>4 DEF Promise!Next
<1>4. ASSUME NEW k \in Key, DeleteConfig(k)
      PROVE  Promise!Next \/ UNCHANGED Promise!vars
  <2>1. Phases' = Phases /\ \A j \in Key \ {k} : Exts'[j] = Exts[j]
    BY <1>4, ConfigStep, ConfOfOne DEF Exts
  <2>2. ~ Exts'[k]
    BY <1>4, ConfOfOne DEF Exts
  <2>3. CASE ~ Exts[k]
    <3>1. Exts' = Exts
      BY <2>1, <2>2, <2>3 DEF Exts
    <3>2. QED
      BY <2>1, <3>1, PromiseStutter
  <2>4. CASE Exts[k]
    <3>1. api[k].fin /\ api[k].del /\ api[k].live
      BY <1>4, <2>4, WrittenFor, Typed, NothingThere DEF Exts, ConfInv
    <3>2. Phases[k] = "terminating"
      BY <3>1 DEF Phases, Phase
    <3>3. Exts' = [Exts EXCEPT ![k] = FALSE]
      BY <2>1, <2>2 DEF Exts
    <3>4. Promise!Deprovision(k)
      BY <2>1, <3>2, <3>3 DEF Promise!Deprovision, Phases, Exts, Conf
    <3>5. QED
      BY <3>4 DEF Promise!Next
  <2>5. QED
    BY <2>3, <2>4
<1>5. ASSUME NEW k \in Key, EnsureNoFinalizer(k)
      PROVE  Promise!Next \/ UNCHANGED Promise!vars
  <2>1. Exts' = Exts /\ ~ Exts[k]
    BY <1>5, EnsureNoFinalizerStep, SameExts DEF Exts, ConfInv
  <2>2. Phases' = Phases \/ Promise!Finish(k)
    BY <1>5, <2>1, EnsureNoFinalizerStep, PromiseMove DEF Promise!Finish, Exts, Conf
  <2>3. QED
    BY <2>1, <2>2, PromiseStutter DEF Promise!Next
<1>6. ASSUME NEW k \in Key, Environment(k)
      PROVE  Promise!Next \/ UNCHANGED Promise!vars
  <2>1. UNCHANGED config
    BY <1>6 DEF Environment
  <2>2. CASE Phases' = Phases
    BY <2>1, <2>2, SameExts, PromiseStutter
  <2>3. CASE \E m \in OwnerMoves : Phases[k] = m[1] /\ Phases' = [Phases EXCEPT ![k] = m[2]]
    <3>1. \E m \in OwnerMoves : Promise!Move(k, m[1], m[2])
      BY <2>1, <2>3, PromiseMove
    <3>2. Promise!Declare(k) \/ Promise!Withdraw(k) \/ Promise!Terminate(k)
      BY <3>1 DEF OwnerMoves, Promise!Declare, Promise!Withdraw, Promise!Terminate
    <3>3. QED
      BY <3>2 DEF Promise!Next
  <2>4. QED
    BY <1>6, <2>2, <2>3, EnvironmentKeeps
<1>7. CASE UNCHANGED vars
  <2>1. Phases' = Phases /\ UNCHANGED config
    BY <1>7, WorkerUntouched DEF vars
  <2>2. QED
    BY <2>1, SameExts, PromiseStutter
<1>8. QED
  BY <1>1, <1>2, <1>3, <1>4, <1>5, <1>6, <1>7 DEF Next, Step

\* The reconcilers keep the promise of Lifecycle.
THEOREM CloudConfigImplementsLifecycle ==
  ASSUME Distinct
  PROVE  Spec => ImplementsLifecycle
<1>1. WorkerInv /\ ConfInv /\ [Next]_vars => ConfInv'
  BY ConfNext
<1>2. Init => Promise!Init
  <2> SUFFICES ASSUME Init PROVE Promise!Init
    OBVIOUS
  <2>1. \A k \in Key : Phase(api[k]) = "none"
    BY AbsentOwned DEF Init, CtrlInit, Phase
  <2>2. \A k \in Key : config[InternalName(k)] = None
    BY DEF Init, Names
  <2>3. QED
    BY <2>1, <2>2 DEF Promise!Init
<1>3. WorkerInv /\ ConfInv /\ [Next]_vars => [Promise!Next]_(Promise!vars)
  BY PromiseStep
<1>4. QED
  BY <1>1, <1>2, <1>3, ConfInit, WorkerInvariant, PTL
     DEF Spec, ImplementsLifecycle, Promise!Spec

=============================================================================
