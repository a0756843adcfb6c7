------------------------------ MODULE TeamProofs ------------------------------
(***************************************************************************)
(* Theorems about the Team reconciler, for any number of Teams, Directors, *)
(* UAAs, passwords, writes, errors and crashes.  Those about clients       *)
(* suppose that no Director resource is pointed to another UAA.            *)
(***************************************************************************)
EXTENDS TeamController, ControllerProofs

Steps == {"idle", "prepare", "lookup"} \union CreateSteps \union DeleteSteps

\* A Director resource that is there points to one UAA.
OneUAA == \A d \in Specs : \A u, v \in UAAsOf[d] : u = v

\* What the running reconciliation knows of the Team at each of its steps.
AtStep(k) ==
    /\ pc[k] # "idle" => mem[k].live
    /\ pc[k] # "idle" /\ mem[k].del /\ cache[k].fin => cache[k].del
    /\ pc[k] \in {"lookup"} \union CreateSteps \union DeleteSteps => mem[k].orig # None
    /\ pc[k] \in CreateSteps => ~ mem[k].del
    /\ pc[k] \in {"secret", "client", "save"} => mem[k].fin
    /\ pc[k] \in DeleteSteps => mem[k].del

\* The part of the inductive invariant that is about the worker.
WorkerInv ==
    /\ CtrlInv(Steps)
    /\ PhaseInv(SpecsOf)
    /\ \A k \in Key : AtStep(k)

-----------------------------------------------------------------------------
LEMMA StepNames ==
  /\ Steps = {"idle", "prepare", "lookup", "finalize", "secret", "client", "save",
               "deleteClient", "deleteSecret", "unfinalize"}
  /\ CreateSteps = {"finalize", "secret", "client", "save"}
  /\ DeleteSteps = {"deleteClient", "deleteSecret", "unfinalize"}
  BY DEF Steps, CreateSteps, DeleteSteps

LEMMA Typed ==
  ASSUME WorkerInv, NEW k \in Key
  PROVE  /\ CtrlInv(Steps) /\ PhaseInv(SpecsOf) /\ AtStep(k)
         /\ api[k] \in Object /\ cache[k] \in Object /\ mem[k] \in Object
         /\ Sane(api[k]) /\ Sane(cache[k]) /\ Sane(mem[k])
         /\ Frozen(api[k]) /\ Frozen(cache[k]) /\ Frozen(mem[k])
         /\ Copy(api[k], cache[k]) /\ Copy(api[k], mem[k])
         /\ api \in [Key -> Object] /\ mem \in [Key -> Object] /\ pc \in [Key -> Steps]
         /\ queue \in SUBSET Key
  BY StepNames DEF WorkerInv, CtrlInv, CtrlTypeOK

\* A step of the worker concerns one key.
LEMMA WorkerStep ==
  ASSUME WorkerInv, NEW k \in Key, CtrlInv(Steps)', PhaseInv(SpecsOf)', UNCHANGED cache,
         \A j \in Key \ {k} : pc'[j] = pc[j] /\ mem'[j] = mem[j],
         AtStep(k)'
  PROVE  WorkerInv'
  BY DEF WorkerInv, AtStep

\* One that moves on with an unchanged copy.
LEMMA MoveStep ==
  ASSUME WorkerInv, NEW k \in Key, NEW step \in Steps \ {"idle"}, pc[k] # "idle",
         Goto(k, step, mem[k]), UNCHANGED <<api, cache, queue, faults>>
  PROVE  /\ CtrlInv(Steps)' /\ PhaseInv(SpecsOf)' /\ Phases' = Phases
         /\ mem' = mem /\ pc'[k] = step
         /\ \A j \in Key \ {k} : pc'[j] = pc[j] /\ mem'[j] = mem[j]
<1>1. CtrlInv(Steps)'
  BY Typed, GotoStep
<1>2. PhaseInv(SpecsOf)' /\ Phases' = Phases
  BY Typed, GotoPhase
<1>3. mem' = mem /\ pc'[k] = step /\ \A j \in Key \ {k} : pc'[j] = pc[j]
  BY Typed DEF Goto
<1>4. QED
  BY <1>1, <1>2, <1>3

LEMMA GetStep ==
  ASSUME WorkerInv, NEW k \in Key, Get(k)
  PROVE  /\ WorkerInv' /\ Phases' = Phases
         /\ pc'[k] \in {"idle", "prepare"}
         /\ \A j \in Key \ {k} : pc'[j] = pc[j] /\ mem'[j] = mem[j]
<1>1. PICK step \in Steps :
         /\ Goto(k, step, cache[k])
         /\ step = "idle" \/ (step = "prepare" /\ cache[k].live)
  <2>1. CASE cache[k].live
    BY <2>1, StepNames DEF Get
  <2>2. CASE ~ cache[k].live
    BY <2>2, StepNames DEF Get
  <2>3. QED
    BY <2>1, <2>2
<1>2. UNCHANGED <<api, cache, faults>> /\ Idle /\ queue' \in SUBSET Key
  BY Typed DEF Get, Dequeue
<1>3. CtrlInv(Steps)' /\ PhaseInv(SpecsOf)' /\ Phases' = Phases
  BY <1>1, <1>2, Typed, GotoStep, GotoPhase
<1>4. /\ pc'[k] = step /\ (step # "idle" => mem'[k] = cache[k])
      /\ \A j \in Key \ {k} : pc'[j] = pc[j] /\ mem'[j] = mem[j]
  BY <1>1, Typed DEF Goto
<1>5. AtStep(k)'
  BY <1>1, <1>2, <1>4, StepNames DEF AtStep
<1>6. QED
  BY <1>1, <1>2, <1>3, <1>4, <1>5, WorkerStep

\* Storing the original spec leaves what is claimed and shown as it is.
LEMMA SavePreparedStep ==
  ASSUME WorkerInv, NEW k \in Key, SavePrepared(k)
  PROVE  /\ WorkerInv' /\ Phases' = Phases /\ UNCHANGED <<uaa, secret>>
         /\ pc[k] = "prepare" /\ pc'[k] \in {"idle", "lookup"}
         /\ api'[k].fin = api[k].fin /\ api'[k].avail = api[k].avail
         /\ api'[k].del = api[k].del /\ (api[k].fin => api'[k].orig = api[k].orig)
         /\ \A j \in Key \ {k} : api'[j] = api[j] /\ pc'[j] = pc[j] /\ mem'[j] = mem[j]
<1> DEFINE m == PrepareToSave(mem[k])
<1>1. pc[k] = "prepare" /\ SaveIfPrepared(k, "lookup") /\ UNCHANGED <<uaa, secret>>
  BY DEF SavePrepared, external
<1>2. mem[k].live /\ (mem[k].del /\ cache[k].fin => cache[k].del)
  BY <1>1, Typed, StepNames DEF AtStep
<1>3. /\ m \in Object /\ m.rv = mem[k].rv /\ m.orig # None /\ m.avail = mem[k].avail
      /\ mem[k].fin \/ mem[k].orig # None => m.orig = mem[k].orig
  <2>1. m.avail = mem[k].avail
    BY Typed DEF PrepareToSave, Object
  <2>2. QED
    BY <1>2, <2>1, Typed, Prepared DEF Frozen
<1> HIDE DEF m
<1>4. PhaseInv(SpecsOf)' /\ Phases' = Phases
  BY <1>1, Typed, PreparedPhase
<1>5. CASE StatusUpdate(k, m, "lookup")
  <2>0. "lookup" \in Steps /\ "idle" \in Steps /\ pc[k] # "idle" /\ CtrlInv(Steps)
    BY <1>1, Typed, StepNames
  <2>1. /\ CtrlInv(Steps)'
        /\ pc'[k] = "idle" \/
             /\ pc'[k] = "lookup"
             /\ mem'[k].live = mem[k].live /\ mem'[k].del = mem[k].del
             /\ mem'[k].fin = mem[k].fin /\ mem'[k].orig = m.orig
    BY <1>2, <1>3, <1>5, <2>0, StatusStep
  <2>2. /\ UNCHANGED cache
        /\ \A j \in Key \ {k} : api'[j] = api[j] /\ pc'[j] = pc[j] /\ mem'[j] = mem[j]
        /\ api'[k].live = api[k].live /\ api'[k].del = api[k].del
        /\ api'[k].fin = api[k].fin
        /\ \/ api'[k] = api[k]
           \/ m.rv = api[k].rv /\ api'[k].orig = m.orig /\ api'[k].avail = m.avail
    BY <1>5, Typed, StatusFields
  <2>3. AtStep(k)'
    BY <1>2, <1>3, <2>1, <2>2, StepNames DEF AtStep
  <2>4. WorkerInv'
    BY <1>4, <2>1, <2>2, <2>3, WorkerStep
  <2>5. m.rv = api[k].rv => mem[k] = api[k]
    BY <1>3, Typed, WrittenIsRead
  <2>6. api[k].fin => api[k].orig # None
    BY Typed DEF Sane, Frozen
  <2>7. QED
    BY <1>1, <1>3, <1>4, <2>1, <2>2, <2>4, <2>5, <2>6
<1>6. CASE m = mem[k] /\ Goto(k, "lookup", m) /\ UNCHANGED <<api, cache, queue, faults>>
  <2>1. /\ CtrlInv(Steps)' /\ pc'[k] = "lookup" /\ mem' = mem
        /\ \A j \in Key \ {k} : pc'[j] = pc[j] /\ mem'[j] = mem[j]
    BY <1>1, <1>6, MoveStep, StepNames
  <2>2. AtStep(k)'
    BY <1>2, <1>3, <1>6, <2>1, StepNames DEF AtStep
  <2>3. QED
    BY <1>1, <1>4, <1>6, <2>1, <2>2, WorkerStep
<1>7. QED
  BY <1>1, <1>5, <1>6 DEF SaveIfPrepared, m

\* A reconciliation that finds no Director is put off.
LEMMA LookupStep ==
  ASSUME WorkerInv, NEW k \in Key, Lookup(k)
  PROVE  /\ WorkerInv' /\ Phases' = Phases /\ UNCHANGED <<api, uaa, secret>>
         /\ pc'[k] \in {"idle", "finalize", "deleteClient"}
         /\ \A j \in Key \ {k} : pc'[j] = pc[j] /\ mem'[j] = mem[j]
<1>1. /\ pc[k] = "lookup" /\ mem[k].live /\ mem[k].orig # None
      /\ mem[k].del /\ cache[k].fin => cache[k].del
      /\ UNCHANGED <<api, cache, faults, uaa, secret>>
  BY Typed DEF Lookup, AtStep, external
<1>2. CASE /\ Goto(k, IF mem[k].del THEN "deleteClient" ELSE "finalize", mem[k])
           /\ UNCHANGED queue
  <2>1. PICK step \in Steps \ {"idle"} :
           /\ Goto(k, step, mem[k])
           /\ \/ step = "deleteClient" /\ mem[k].del
              \/ step = "finalize" /\ ~ mem[k].del
    <3>1. CASE mem[k].del
      BY <1>2, <3>1, StepNames
    <3>2. CASE ~ mem[k].del
      BY <1>2, <3>2, StepNames
    <3>3. QED
      BY <3>1, <3>2
  <2>2. /\ CtrlInv(Steps)' /\ PhaseInv(SpecsOf)' /\ Phases' = Phases /\ pc'[k] = step /\ mem' = mem
        /\ \A j \in Key \ {k} : pc'[j] = pc[j] /\ mem'[j] = mem[j]
    BY <1>1, <1>2, <2>1, MoveStep
  <2>3. AtStep(k)'
    BY <1>1, <2>1, <2>2, StepNames DEF AtStep
  <2>4. QED
    BY <1>1, <2>1, <2>2, <2>3, WorkerStep
<1>3. CASE Retry(k)
  <2>1. Goto(k, "idle", Absent(0)) /\ queue' \in SUBSET Key
    BY <1>3, Typed DEF Retry
  <2>2. /\ Absent(0) \in Object /\ Sane(Absent(0)) /\ Frozen(Absent(0))
        /\ Copy(api[k], Absent(0)) /\ "idle" \in Steps
    BY Typed, AbsentType, CopyNothing, StepNames
  <2>3. CtrlInv(Steps)'
    BY <1>1, <2>1, <2>2, Typed, GotoStep
  <2>4. Goto(k, "idle", mem[k])
    BY <2>1 DEF Goto
  <2>5. PhaseInv(SpecsOf)' /\ Phases' = Phases
    BY <1>1, <2>4, Typed, GotoPhase
  <2>6. pc'[k] = "idle" /\ \A j \in Key \ {k} : pc'[j] = pc[j] /\ mem'[j] = mem[j]
    BY <2>1, Typed DEF Goto
  <2>7. AtStep(k)'
    BY <2>6, StepNames DEF AtStep
  <2>0. QED
    BY <1>1, <2>3, <2>5, <2>6, <2>7, WorkerStep
<1>4. QED
  BY <1>2, <1>3 DEF Lookup

LEMMA EnsureFinalizerStep ==
  ASSUME WorkerInv, NEW k \in Key, EnsureFinalizer(k)
  PROVE  /\ WorkerInv' /\ UNCHANGED <<uaa, secret>>
         /\ \/ Phases' = Phases
            \/ Phases[k] = "declared" /\ Phases' = [Phases EXCEPT ![k] = "claimed"]
         /\ pc[k] = "finalize" /\ pc'[k] \in {"idle", "secret"}
         /\ pc'[k] = "secret" => mem'[k].orig = mem[k].orig
         /\ api'[k].avail = api[k].avail /\ api'[k].del = api[k].del
         /\ api'[k].orig = api[k].orig /\ (api[k].fin => api'[k].fin)
         /\ \A j \in Key \ {k} : api'[j] = api[j] /\ pc'[j] = pc[j] /\ mem'[j] = mem[j]
<1>1. pc[k] = "finalize" /\ UpdateIfFinalizer(k, TRUE, "secret") /\ UNCHANGED <<uaa, secret>>
  BY DEF EnsureFinalizer, external
<1>2. mem[k].live /\ ~ mem[k].del /\ mem[k].orig # None
  BY <1>1, Typed, StepNames DEF AtStep
<1>3. /\ PhaseInv(SpecsOf)'
      /\ \/ Phases' = Phases
         \/ Phases[k] = "declared" /\ Phases' = [Phases EXCEPT ![k] = "claimed"]
  BY <1>1, <1>2, Typed, ClaimPhase
<1>4. CASE Update(k, [mem[k] EXCEPT !.fin = TRUE], "secret")
  <2>1. /\ CtrlInv(Steps)'
        /\ pc'[k] = "idle" \/
             /\ pc'[k] = "secret"
             /\ mem'[k].live /\ ~ mem'[k].del /\ mem'[k].fin
             /\ mem'[k].orig = mem[k].orig
    BY <1>1, <1>2, <1>4, Typed, FinalizerStep, StepNames
  <2>2. /\ UNCHANGED cache
        /\ \A j \in Key \ {k} : api'[j] = api[j] /\ pc'[j] = pc[j] /\ mem'[j] = mem[j]
        /\ \/ api'[k] = api[k]
           \/ /\ api'[k].fin /\ api'[k].del = api[k].del
              /\ api'[k].orig = api[k].orig /\ api'[k].avail = api[k].avail
    BY <1>4, Typed, FinalizerFields
  <2>3. AtStep(k)'
    BY <1>2, <2>1, StepNames DEF AtStep
  <2>4. WorkerInv'
    BY <1>3, <2>1, <2>2, <2>3, WorkerStep
  <2>5. QED
    BY <1>1, <1>3, <2>1, <2>2, <2>4
<1>5. CASE mem[k].fin /\ Goto(k, "secret", mem[k]) /\ UNCHANGED <<api, cache, queue, faults>>
  <2>1. /\ CtrlInv(Steps)' /\ pc'[k] = "secret" /\ mem' = mem
        /\ \A j \in Key \ {k} : pc'[j] = pc[j] /\ mem'[j] = mem[j]
    BY <1>1, <1>5, MoveStep, StepNames
  <2>2. AtStep(k)'
    BY <1>2, <1>5, <2>1, StepNames DEF AtStep
  <2>3. QED
    BY <1>1, <1>3, <1>5, <2>1, <2>2, WorkerStep
<1>6. QED
  BY <1>1, <1>4, <1>5 DEF UpdateIfFinalizer

\* The steps that write to the UAA or to a Secret, and not to the Team.
Remote(k) == CreateSecret(k) \/ CreateClient(k) \/ DeleteClient(k) \/ DeleteSecret(k)

LEMMA RemoteStep ==
  ASSUME WorkerInv, NEW k \in Key, Remote(k)
  PROVE  /\ WorkerInv' /\ Phases' = Phases /\ UNCHANGED <<api, director>> /\ mem' = mem
         /\ CreateSecret(k) => pc[k] = "secret" /\ pc'[k] = "client"
         /\ CreateClient(k) => pc[k] = "client" /\ pc'[k] = "save"
         /\ DeleteClient(k) => pc[k] = "deleteClient" /\ pc'[k] = "deleteSecret"
         /\ DeleteSecret(k) => pc[k] = "deleteSecret" /\ pc'[k] = "unfinalize"
         /\ \A j \in Key \ {k} : pc'[j] = pc[j] /\ mem'[j] = mem[j]
<1>1. PICK step \in Steps \ {"idle"} :
         /\ Goto(k, step, mem[k])
         /\ CreateSecret(k) => pc[k] = "secret" /\ step = "client"
         /\ CreateClient(k) => pc[k] = "client" /\ step = "save"
         /\ DeleteClient(k) => pc[k] = "deleteClient" /\ step = "deleteSecret"
         /\ DeleteSecret(k) => pc[k] = "deleteSecret" /\ step = "unfinalize"
  <2>1. CASE CreateSecret(k)
    <3>1. pc[k] = "secret" /\ Goto(k, "client", mem[k])
      BY <2>1 DEF CreateSecret
    <3>2. ~ CreateClient(k) /\ ~ DeleteClient(k) /\ ~ DeleteSecret(k)
      BY <3>1 DEF CreateClient, DeleteClient, DeleteSecret
    <3>3. QED
      BY <3>1, <3>2, StepNames
  <2>2. CASE CreateClient(k)
    <3>1. pc[k] = "client" /\ Goto(k, "save", mem[k])
      BY <2>2 DEF CreateClient
    <3>2. ~ CreateSecret(k) /\ ~ DeleteClient(k) /\ ~ DeleteSecret(k)
      BY <3>1 DEF CreateSecret, DeleteClient, DeleteSecret
    <3>3. QED
      BY <3>1, <3>2, StepNames
  <2>3. CASE DeleteClient(k)
    <3>1. pc[k] = "deleteClient" /\ Goto(k, "deleteSecret", mem[k])
      BY <2>3 DEF DeleteClient
    <3>2. ~ CreateSecret(k) /\ ~ CreateClient(k) /\ ~ DeleteSecret(k)
      BY <3>1 DEF CreateSecret, CreateClient, DeleteSecret
    <3>3. QED
      BY <3>1, <3>2, StepNames
  <2>4. CASE DeleteSecret(k)
    <3>1. pc[k] = "deleteSecret" /\ Goto(k, "unfinalize", mem[k])
      BY <2>4 DEF DeleteSecret
    <3>2. ~ CreateSecret(k) /\ ~ CreateClient(k) /\ ~ DeleteClient(k)
      BY <3>1 DEF CreateSecret, CreateClient, DeleteClient
    <3>3. QED
      BY <3>1, <3>2, StepNames
  <2>5. QED
    BY <2>1, <2>2, <2>3, <2>4 DEF Remote
<1>2. UNCHANGED <<api, cache, queue, faults, director>> /\ pc[k] # "idle"
  BY <1>1 DEF Remote, CreateSecret, CreateClient, DeleteClient, DeleteSecret
<1>3. /\ CtrlInv(Steps)' /\ PhaseInv(SpecsOf)' /\ Phases' = Phases /\ pc'[k] = step /\ mem' = mem
      /\ \A j \in Key \ {k} : pc'[j] = pc[j] /\ mem'[j] = mem[j]
  BY <1>1, <1>2, MoveStep
<1>4. AtStep(k)'
  BY <1>1, <1>2, <1>3, Typed, StepNames DEF AtStep, Remote
<1>5. QED
  BY <1>1, <1>2, <1>3, <1>4, WorkerStep

LEMMA SaveAvailableStep ==
  ASSUME WorkerInv, NEW k \in Key, SaveAvailable(k)
  PROVE  /\ WorkerInv' /\ Phases' = Phases /\ UNCHANGED <<uaa, secret>>
         /\ pc[k] = "save" /\ pc'[k] = "idle"
         /\ api'[k].fin = api[k].fin /\ api'[k].del = api[k].del
         /\ api'[k] = api[k] \/ (api'[k].orig = mem[k].orig /\ mem[k] = api[k])
         /\ \A j \in Key \ {k} : api'[j] = api[j] /\ pc'[j] = pc[j] /\ mem'[j] = mem[j]
<1> DEFINE m == [mem[k] EXCEPT !.avail = TRUE]
<1>1. pc[k] = "save" /\ StatusUpdate(k, m, "idle") /\ UNCHANGED <<uaa, secret>>
  BY DEF SaveAvailable, external
<1>2. mem[k].live /\ mem[k].fin /\ mem[k].orig # None
  BY <1>1, Typed, StepNames DEF AtStep
<1>3. m \in Object /\ m.rv = mem[k].rv /\ m.orig = mem[k].orig
  BY Typed DEF Object
<1> HIDE DEF m
<1>4. CtrlInv(Steps)' /\ pc'[k] = "idle"
  BY <1>1, <1>2, <1>3, Typed, StatusStep, StepNames
<1>5. PhaseInv(SpecsOf)' /\ Phases' = Phases
  BY <1>1, <1>2, <1>3, Typed, StatusPhase
<1>6. /\ UNCHANGED cache
      /\ \A j \in Key \ {k} : api'[j] = api[j] /\ pc'[j] = pc[j] /\ mem'[j] = mem[j]
      /\ api'[k].del = api[k].del /\ api'[k].fin = api[k].fin
      /\ api'[k] = api[k] \/ (m.rv = api[k].rv /\ api'[k].orig = m.orig)
  BY <1>1, Typed, StatusFields
<1>7. AtStep(k)'
  BY <1>4, StepNames DEF AtStep
<1>8. WorkerInv'
  BY <1>4, <1>5, <1>6, <1>7, WorkerStep
<1>9. m.rv = api[k].rv => mem[k] = api[k]
  BY <1>3, Typed, WrittenIsRead
<1>10. QED
  BY <1>1, <1>3, <1>4, <1>5, <1>6, <1>8, <1>9

LEMMA EnsureNoFinalizerStep ==
  ASSUME WorkerInv, NEW k \in Key, EnsureNoFinalizer(k)
  PROVE  /\ WorkerInv' /\ UNCHANGED <<uaa, secret>>
         /\ pc[k] = "unfinalize" /\ pc'[k] = "idle"
         /\ \/ UNCHANGED api /\ Phases' = Phases
            \/ /\ mem[k] = api[k] /\ ~ api'[k].fin /\ ~ api'[k].avail
               /\ Phases[k] = "terminating" /\ Phases' = [Phases EXCEPT ![k] = "none"]
         /\ \A j \in Key \ {k} : api'[j] = api[j] /\ pc'[j] = pc[j] /\ mem'[j] = mem[j]
<1>1. pc[k] = "unfinalize" /\ UpdateIfFinalizer(k, FALSE, "idle") /\ UNCHANGED <<uaa, secret>>
  BY DEF EnsureNoFinalizer, external
<1>2. /\ mem[k].live /\ mem[k].del /\ mem[k].fin /\ "idle" \in Steps
      /\ cache[k].fin => cache[k].del
  BY <1>1, Typed, StepNames DEF AtStep, Sane, Frozen
<1>3. Update(k, [mem[k] EXCEPT !.fin = FALSE], "idle")
  BY <1>1, <1>2 DEF UpdateIfFinalizer
<1>4. CtrlInv(Steps)' /\ pc'[k] = "idle"
  BY <1>1, <1>2, <1>3, Typed, NoFinalizerStep
<1>5. /\ PhaseInv(SpecsOf)'
      /\ \/ UNCHANGED api /\ Phases' = Phases
         \/ /\ mem[k] = api[k] /\ ~ api'[k].live
            /\ Phases[k] = "terminating" /\ Phases' = [Phases EXCEPT ![k] = "none"]
  BY <1>1, <1>2, Typed, ReleasePhase
<1>6. /\ UNCHANGED cache
      /\ \A j \in Key \ {k} : api'[j] = api[j] /\ pc'[j] = pc[j] /\ mem'[j] = mem[j]
  BY <1>3, Typed DEF Update, Write, Retry, Goto
<1>7. AtStep(k)'
  BY <1>4, StepNames DEF AtStep
<1>8. WorkerInv'
  BY <1>4, <1>5, <1>6, <1>7, WorkerStep
<1>9. ~ api'[k].live => ~ api'[k].fin /\ ~ api'[k].avail
  <2>1. api'[k] \in Object /\ Sane(api'[k]) /\ Owned(SpecsOf, k, api'[k])
    BY <1>4, <1>5 DEF PhaseInv, CtrlInv, CtrlTypeOK
  <2>2. QED
    BY <2>1, NothingThere DEF Owned
<1>10. QED
  BY <1>1, <1>4, <1>5, <1>6, <1>8, <1>9

\* What loses memory, or brings the cache up to date, keeps the invariant.
LEMMA RuntimeStep ==
  ASSUME WorkerInv, NEW k \in Key, Watch(k) \/ Resync(k) \/ Fail(k) \/ Crash
  PROVE  /\ WorkerInv' /\ Phases' = Phases /\ UNCHANGED api
         /\ \A j \in Key : \/ pc'[j] = "idle"
                           \/ pc'[j] = pc[j] /\ mem'[j] = mem[j]
<1>1. CtrlInv(Steps) /\ PhaseInv(SpecsOf) /\ "idle" \in Steps
  BY StepNames DEF WorkerInv
<1>2. CtrlInv(Steps)' /\ PhaseInv(SpecsOf)' /\ Phases' = Phases /\ UNCHANGED api
  BY <1>1, EnvironmentStep, EnvironmentPhase
<1>3. \A j \in Key : /\ \/ pc'[j] = "idle"
                        \/ pc'[j] = pc[j] /\ mem'[j] = mem[j]
                     /\ cache'[j] = cache[j] \/ cache'[j] = api[j]
  BY <1>1, ObjectTypes DEF Watch, Resync, Fail, Retry, Goto, Crash
<1>4. ASSUME NEW j \in Key PROVE AtStep(j)'
  <2>1. AtStep(j) /\ (mem[j].del /\ api[j].fin => api[j].del)
    BY Typed DEF PhaseInv, Deletion
  <2>2. QED
    BY <1>3, <2>1, StepNames DEF AtStep
<1>5. QED
  BY <1>2, <1>3, <1>4 DEF WorkerInv

LEMMA EnvironmentKeeps ==
  ASSUME WorkerInv, NEW k \in Key, Environment(k)
  PROVE  /\ WorkerInv' /\ UNCHANGED <<director, uaa, secret>>
         /\ \/ Phases' = Phases
            \/ \E m \in OwnerMoves : Phases[k] = m[1] /\ Phases' = [Phases EXCEPT ![k] = m[2]]
         /\ \A j \in Key : \/ pc'[j] = "idle"
                           \/ pc'[j] = pc[j] /\ mem'[j] = mem[j]
<1>1. CtrlInv(Steps) /\ PhaseInv(SpecsOf) /\ UNCHANGED <<director, uaa, secret>>
  BY DEF WorkerInv, Environment, external
<1>2. CASE UserCreate(k) \/ UserEdit(k) \/ UserDelete(k)
  <2>1. CtrlInv(Steps)'
    BY <1>1, <1>2, UserStep
  <2>2. UNCHANGED <<cache, pc, mem>>
    BY <1>2 DEF UserCreate, UserEdit, UserDelete, UserWrite
  <2>3. /\ PhaseInv(SpecsOf)'
        /\ \/ Phases' = Phases
           \/ \E m \in OwnerMoves : Phases[k] = m[1] /\ Phases' = [Phases EXCEPT ![k] = m[2]]
    BY <1>1, <1>2, UserPhase
  <2>4. WorkerInv'
    BY <2>1, <2>2, <2>3 DEF WorkerInv, AtStep
  <2>5. QED
    BY <1>1, <2>2, <2>3, <2>4
<1>3. CASE Watch(k) \/ Resync(k) \/ Fail(k)
  BY <1>1, <1>3, RuntimeStep
<1>4. QED
  BY <1>2, <1>3 DEF Environment

\* A restart, with whatever Directors there are then.
LEMMA RestartStep ==
  ASSUME WorkerInv, Restart
  PROVE  /\ WorkerInv' /\ Phases' = Phases /\ UNCHANGED <<api, uaa, secret>>
         /\ \A j \in Key : pc'[j] = "idle"
<1>1. /\ Crash /\ UNCHANGED <<api, uaa, secret>> /\ \A j \in Key : pc'[j] = "idle"
  BY DEF Restart, Crash
<1>2. CASE Key = {}
  <2>1. /\ cache' = api /\ mem' = [k \in Key |-> Absent(0)]
        /\ pc' = [k \in Key |-> "idle"] /\ queue' = {k \in Key : api[k].live}
        /\ faults < MaxFaults /\ faults' = faults + 1
    BY <1>1 DEF Crash
  <2>2. CtrlTypeOK(Steps)'
    BY <1>1, <1>2, <2>1, ControllerAssumption DEF WorkerInv, CtrlInv, CtrlTypeOK
  <2>3. QED
    BY <1>1, <1>2, <2>2, SamePhases DEF WorkerInv, CtrlInv, PhaseInv
<1>3. CASE Key # {}
  BY <1>1, <1>3, RuntimeStep
<1>4. QED
  BY <1>2, <1>3

LEMMA WorkerInit == Init => WorkerInv
<1> SUFFICES ASSUME Init PROVE WorkerInv
  OBVIOUS
<1>1. CtrlInv(Steps) /\ PhaseInv(SpecsOf)
  BY CtrlInitInv, PhaseInit, StepNames DEF Init
<1>2. QED
  BY <1>1, StepNames DEF WorkerInv, AtStep, Init, CtrlInit

LEMMA WorkerUntouched ==
  ASSUME WorkerInv, UNCHANGED ctrlVars
  PROVE  WorkerInv' /\ Phases' = Phases
  BY SamePhases DEF ctrlVars, WorkerInv, AtStep, CtrlInv, CtrlTypeOK, PhaseInv, Owned, Deletion

LEMMA WorkerNext == WorkerInv /\ [Next]_vars => WorkerInv'
  BY GetStep, SavePreparedStep, LookupStep, EnsureFinalizerStep, RemoteStep,
     SaveAvailableStep, EnsureNoFinalizerStep, EnvironmentKeeps, RestartStep, WorkerUntouched
     DEF Next, Step, Remote, Operate, vars

LEMMA WorkerInvariant == Spec => []WorkerInv
  BY WorkerInit, WorkerNext, PTL DEF Spec

\* Whoever is not the controller leaves what is claimed as it is, and makes no
\* Team available.
LEMMA OwnersKeep ==
  ASSUME WorkerInv, NEW k \in Key, Environment(k)
  PROVE  /\ KeepsClaims
         /\ \A j \in Key : api'[j].avail /\ ~ api'[j].del => api[j].avail /\ ~ api[j].del
<1>1. CtrlInv(Steps) /\ "idle" \in Steps
  BY StepNames DEF WorkerInv
<1>2. CASE UserCreate(k) \/ UserEdit(k) \/ UserDelete(k)
  <2>1. KeepsClaims
    BY <1>1, <1>2, UserStep
  <2>2. api \in [Key -> Object] /\ api[k] \in Object
    BY Typed
  <2>3. CASE UserCreate(k)
    <3>1. PICK s \in SpecsOf[k] :
             api' = [api EXCEPT ![k] = [Absent(api[k].rv + 1) EXCEPT !.live = TRUE, !.spec = s]]
      BY <2>3 DEF UserCreate, UserWrite
    <3>2. ~ api'[k].avail
      BY <2>2, <3>1 DEF Absent
    <3>3. QED
      BY <2>1, <2>2, <3>1, <3>2
  <2>4. CASE UserEdit(k)
    <3>1. PICK s \in SpecsOf[k] : api' = [api EXCEPT ![k] = [api[k] EXCEPT !.rv = @ + 1, !.spec = s]]
      BY <2>4 DEF UserEdit, UserWrite
    <3>2. api'[k].avail = api[k].avail /\ api'[k].del = api[k].del
      BY <2>2, <3>1 DEF Object
    <3>3. QED
      BY <2>1, <2>2, <3>1, <3>2
  <2>5. CASE UserDelete(k)
    <3>1. api' = [api EXCEPT ![k] = IF api[k].fin THEN [api[k] EXCEPT !.rv = @ + 1, !.del = TRUE]
                                                  ELSE Absent(api[k].rv + 1)]
      BY <2>5 DEF UserDelete, UserWrite
    <3>2. api'[k].del \/ ~ api'[k].avail
      BY <2>2, <3>1 DEF Object, Absent
    <3>3. QED
      BY <2>1, <2>2, <3>1, <3>2
  <2>6. QED
    BY <1>2, <2>3, <2>4, <2>5
<1>3. CASE Watch(k) \/ Resync(k) \/ Fail(k)
  BY <1>3 DEF Watch, Resync, Fail, KeepsClaims
<1>4. QED
  BY <1>2, <1>3 DEF Environment

-----------------------------------------------------------------------------
(* Clients, Secrets and the Director resources.                             *)

Password == Passwords \union {None}

ExtType ==
    /\ director \in [Specs -> UAA \union {None}]
    /\ \A d \in Specs : director[d] \in UAAsOf[d] \union {None}
    /\ uaa \in [UAA -> [Key -> Password]]
    /\ secret \in [Key -> Password]
    /\ work \in [uaa : UAA \union {None}, password : Password]
    /\ \A k \in Key : pc[k] \in CreateSteps \union DeleteSteps => work.uaa \in UAAsOf[mem[k].orig]

\* A password that is not in use can be drawn.
LEMMA Drawn ==
  ASSUME uaa \in [UAA -> [Key -> Password]], secret \in [Key -> Password]
  PROVE  Fresh \in Passwords /\ Fresh # None
<1> DEFINE Places == Key \X (UAA \union {None})
           used == [x \in Places |-> IF x[2] = None THEN secret[x[1]] ELSE uaa[x[2]][x[1]]]
<1>1. used \in [Places -> Password]
  <2>1. ASSUME NEW x \in Places
        PROVE  (IF x[2] = None THEN secret[x[1]] ELSE uaa[x[2]][x[1]]) \in Password
    <3>1. x[1] \in Key /\ x[2] \in UAA \union {None}
      OBVIOUS
    <3>2. CASE x[2] = None
      BY <3>1, <3>2
    <3>3. CASE x[2] # None
      <4>1. x[2] \in UAA
        BY <3>1, <3>3
      <4>2. uaa[x[2]] \in [Key -> Password]
        BY <4>1
      <4>3. QED
        BY <3>1, <3>3, <4>2
    <3>4. QED
      BY <3>2, <3>3
  <2>2. QED
    BY <2>1
<1>2. PICK p \in Passwords : p \notin {used[x] : x \in Places}
  BY <1>1, TeamAssumption DEF Password
<1>3. \A k \in Key : secret[k] # p
  <2> TAKE k \in Key
  <2>1. <<k, None>> \in Places /\ used[<<k, None>>] = secret[k]
    OBVIOUS
  <2> HIDE DEF used, Places
  <2>2. QED
    BY <1>2, <2>1
<1>4. \A u \in UAA, k \in Key : uaa[u][k] # p
  <2> TAKE u \in UAA, k \in Key
  <2>1. <<k, u>> \in Places /\ u # None
    BY TeamAssumption
  <2>2. used[<<k, u>>] = uaa[u][k]
    BY <2>1
  <2> HIDE DEF used, Places
  <2>3. QED
    BY <1>2, <2>1, <2>2
<1>5. p \notin InUse
  BY <1>3, <1>4 DEF InUse
<1> HIDE DEF Places, used
<1>6. Fresh \in Passwords
  BY <1>5 DEF Fresh
<1>7. QED
  BY <1>6, TeamAssumption

\* What each remote call reaches.
LEMMA RemoteFields ==
  ASSUME WorkerInv, ExtType, NEW k \in Key
  PROVE  /\ CreateSecret(k) =>
               /\ uaa' = uaa /\ work'.uaa = work.uaa /\ work'.password = Fresh
               /\ secret'[k] = (IF secret[k] = None THEN Fresh ELSE secret[k])
               /\ \A j \in Key \ {k} : secret'[j] = secret[j]
               /\ Fresh \in Passwords /\ Fresh # None
               /\ api[k].live /\ api[k].fin /\ api[k].orig = mem[k].orig
         /\ CreateClient(k) =>
               /\ secret' = secret /\ work' = work /\ work.uaa \in UAA
               /\ uaa'[work.uaa][k] = (IF uaa[work.uaa][k] = None THEN work.password
                                                                ELSE uaa[work.uaa][k])
               /\ \A u \in UAA, j \in Key : u # work.uaa \/ j # k => uaa'[u][j] = uaa[u][j]
               /\ api[k].live /\ api[k].fin /\ api[k].orig = mem[k].orig
               /\ work.uaa \in UAAsOf[mem[k].orig]
         /\ DeleteClient(k) =>
               /\ secret' = secret /\ work' = work
               /\ work.uaa \in UAA /\ work.uaa \in UAAsOf[mem[k].orig]
               /\ uaa'[work.uaa][k] = None
               /\ \A u \in UAA, j \in Key : u # work.uaa \/ j # k => uaa'[u][j] = uaa[u][j]
               /\ api[k].fin => api[k].del
         /\ DeleteSecret(k) =>
               /\ uaa' = uaa /\ work' = work
               /\ secret'[k] = None /\ \A j \in Key \ {k} : secret'[j] = secret[j]
               /\ api[k].fin => api[k].del
         /\ Remote(k) =>
               /\ uaa' \in [UAA -> [Key -> Password]] /\ secret' \in [Key -> Password]
               /\ work' \in [uaa : UAA \union {None}, password : Password]
               /\ work'.uaa = work.uaa
<1>1. /\ uaa \in [UAA -> [Key -> Password]] /\ secret \in [Key -> Password]
      /\ work \in [uaa : UAA \union {None}, password : Password]
      /\ None \in Password
  BY DEF ExtType, Password
<1>2. ASSUME pc[k] \in CreateSteps \union DeleteSteps
      PROVE  work.uaa \in UAA /\ work.uaa \in UAAsOf[mem[k].orig]
  <2>1. mem[k].orig \in Specs
    BY <1>2, Typed DEF AtStep, Object, SpecOrNone
  <2>2. UAAsOf[mem[k].orig] \subseteq UAA
    BY <2>1, TeamAssumption
  <2>3. QED
    BY <1>2, <2>2 DEF ExtType
<1>3. ASSUME pc[k] \in {"secret", "client"}
      PROVE  api[k].live /\ api[k].fin /\ api[k].orig = mem[k].orig
  <2>1. mem[k].fin /\ ~ mem[k].del
    BY <1>3, Typed, StepNames DEF AtStep
  <2>2. api[k].fin /\ api[k].orig = mem[k].orig
    BY <2>1, Typed DEF Copy
  <2>3. QED
    BY <2>2, Typed, NothingThere
<1>4. ASSUME pc[k] \in DeleteSteps
      PROVE  api[k].fin => api[k].del
  BY <1>4, Typed DEF AtStep, PhaseInv, Deletion
<1>5. Fresh \in Passwords /\ Fresh # None
  BY <1>1, Drawn
<1>6. CASE CreateSecret(k)
  <2>1. /\ pc[k] = "secret" /\ uaa' = uaa /\ work' = [work EXCEPT !.password = Fresh]
        /\ secret' = [secret EXCEPT ![k] = IF @ = None THEN Fresh ELSE @]
    BY <1>6 DEF CreateSecret
  <2>2. ~ CreateClient(k) /\ ~ DeleteClient(k) /\ ~ DeleteSecret(k)
    BY <2>1 DEF CreateClient, DeleteClient, DeleteSecret
  <2>3. work' \in [uaa : UAA \union {None}, password : Password]
        /\ work'.uaa = work.uaa /\ work'.password = Fresh
    BY <1>1, <1>5, <2>1 DEF Password
  <2>4. /\ secret' \in [Key -> Password]
        /\ secret'[k] = (IF secret[k] = None THEN Fresh ELSE secret[k])
        /\ \A j \in Key \ {k} : secret'[j] = secret[j]
    BY <1>1, <1>5, <2>1 DEF Password
  <2>5. QED
    BY <1>1, <1>3, <1>5, <2>1, <2>2, <2>3, <2>4
<1>7. CASE CreateClient(k)
  <2>1. /\ pc[k] = "client" /\ secret' = secret /\ work' = work
        /\ uaa' = [uaa EXCEPT ![work.uaa][k] = IF @ = None THEN work.password ELSE @]
    BY <1>7 DEF CreateClient
  <2>2. ~ CreateSecret(k) /\ ~ DeleteClient(k) /\ ~ DeleteSecret(k)
    BY <2>1 DEF CreateSecret, DeleteClient, DeleteSecret
  <2>3. work.uaa \in UAA /\ work.uaa \in UAAsOf[mem[k].orig] /\ work.password \in Password
    BY <1>1, <1>2, <2>1, StepNames
  <2>4. /\ uaa' \in [UAA -> [Key -> Password]]
        /\ uaa'[work.uaa][k] = (IF uaa[work.uaa][k] = None THEN work.password
                                                         ELSE uaa[work.uaa][k])
        /\ \A u \in UAA, j \in Key : u # work.uaa \/ j # k => uaa'[u][j] = uaa[u][j]
    BY <1>1, <2>1, <2>3
  <2>5. QED
    BY <1>1, <1>3, <2>1, <2>2, <2>3, <2>4
<1>8. CASE DeleteClient(k)
  <2>1. /\ pc[k] = "deleteClient" /\ secret' = secret /\ work' = work
        /\ uaa' = [uaa EXCEPT ![work.uaa][k] = None]
    BY <1>8 DEF DeleteClient
  <2>2. ~ CreateSecret(k) /\ ~ CreateClient(k) /\ ~ DeleteSecret(k)
    BY <2>1 DEF CreateSecret, CreateClient, DeleteSecret
  <2>3. work.uaa \in UAA /\ work.uaa \in UAAsOf[mem[k].orig]
    BY <1>2, <2>1, StepNames
  <2>4. /\ uaa' \in [UAA -> [Key -> Password]] /\ uaa'[work.uaa][k] = None
        /\ \A u \in UAA, j \in Key : u # work.uaa \/ j # k => uaa'[u][j] = uaa[u][j]
    BY <1>1, <2>1, <2>3
  <2>5. QED
    BY <1>1, <1>4, <2>1, <2>2, <2>3, <2>4, StepNames
<1>9. CASE DeleteSecret(k)
  <2>1. /\ pc[k] = "deleteSecret" /\ uaa' = uaa /\ work' = work
        /\ secret' = [secret EXCEPT ![k] = None]
    BY <1>9 DEF DeleteSecret
  <2>2. ~ CreateSecret(k) /\ ~ CreateClient(k) /\ ~ DeleteClient(k)
    BY <2>1 DEF CreateSecret, CreateClient, DeleteClient
  <2>3. QED
    BY <1>1, <1>4, <2>1, <2>2, StepNames
<1>10. QED
  BY <1>6, <1>7, <1>8, <1>9 DEF Remote

\* A step that leaves the UAAs and the Secrets alone: what the work is for the
\* steps that are reached with it.
LEMMA WorkKept ==
  ASSUME ExtType, UNCHANGED <<director, uaa, secret>>,
         work' \in {work, NoWork},
         \A j \in Key : pc'[j] \in CreateSteps \union DeleteSteps =>
            pc[j] \in CreateSteps \union DeleteSteps /\ mem'[j].orig = mem[j].orig /\ work' = work
  PROVE  ExtType'
<1>1. NoWork \in [uaa : UAA \union {None}, password : Password]
  BY DEF NoWork, Password
<1>2. QED
  BY <1>1 DEF ExtType

LEMMA KeptWork ==
  ASSUME KeepWork
  PROVE  /\ work' \in {work, NoWork}
         /\ \A j \in Key : pc'[j] # "idle" => work' = work
  BY DEF KeepWork, Idle

\* The work of one key is kept as long as its reconciliation runs, and no
\* other one does.
LEMMA AloneAtWork ==
  ASSUME WorkerInv, NEW k \in Key, pc[k] # "idle"
  PROVE  \A j \in Key \ {k} : pc[j] = "idle"
  BY DEF WorkerInv, CtrlInv

LEMMA ExtNext ==
  ASSUME WorkerInv, ExtType, [Next]_vars
  PROVE  ExtType'
<1>1. ASSUME NEW k \in Key, Get(k)
      PROVE  ExtType'
  BY <1>1, GetStep, WorkKept, StepNames DEF Get, external
<1>2. ASSUME NEW k \in Key, SavePrepared(k)
      PROVE  ExtType'
  <2>1. KeepWork /\ UNCHANGED <<director, uaa, secret>>
    BY <1>2 DEF SavePrepared, external
  <2>2. QED
    BY <1>2, <2>1, KeptWork, SavePreparedStep, WorkKept, StepNames
<1>3. ASSUME NEW k \in Key, Lookup(k)
      PROVE  ExtType'
  <2>1. pc[k] = "lookup" /\ UNCHANGED <<director, uaa, secret>>
    BY <1>3 DEF Lookup, external
  <2>2. mem[k].orig \in Specs
    BY <2>1, Typed DEF AtStep, Object, SpecOrNone
  <2>3. \A j \in Key \ {k} : pc'[j] = "idle"
    BY <1>3, <2>1, AloneAtWork, LookupStep
  <2>4. CASE /\ director[mem[k].orig] # None
             /\ work' = [NoWork EXCEPT !.uaa = director[mem[k].orig]]
             /\ Goto(k, IF mem[k].del THEN "deleteClient" ELSE "finalize", mem[k])
    <3>1. /\ work'.uaa = director[mem[k].orig]
          /\ work' \in [uaa : UAA \union {None}, password : Password]
      BY <2>2, <2>4 DEF NoWork, ExtType, Password
    <3>2. work'.uaa \in UAAsOf[mem[k].orig]
      BY <2>2, <2>4, <3>1 DEF ExtType
    <3>3. mem'[k] = mem[k]
      BY <2>4, Typed DEF Goto
    <3>4. QED
      BY <2>1, <2>3, <3>1, <3>2, <3>3, StepNames DEF ExtType
  <2>5. CASE work' = NoWork /\ Retry(k)
    <3>1. pc'[k] = "idle"
      BY <2>5, Typed DEF Retry, Goto
    <3>2. QED
      BY <2>1, <2>3, <2>5, <3>1, WorkKept, StepNames
  <2>6. QED
    BY <1>3, <2>4, <2>5 DEF Lookup
<1>4. ASSUME NEW k \in Key, EnsureFinalizer(k)
      PROVE  ExtType'
  <2>1. KeepWork /\ UNCHANGED <<director, uaa, secret>>
    BY <1>4 DEF EnsureFinalizer, external
  <2>2. QED
    BY <1>4, <2>1, KeptWork, EnsureFinalizerStep, WorkKept, StepNames
<1>5. ASSUME NEW k \in Key, Remote(k)
      PROVE  ExtType'
  <2>1. /\ uaa' \in [UAA -> [Key -> Password]] /\ secret' \in [Key -> Password]
        /\ work' \in [uaa : UAA \union {None}, password : Password]
        /\ work'.uaa = work.uaa
    BY <1>5, RemoteFields
  <2>2. /\ UNCHANGED director /\ mem' = mem /\ pc[k] \in CreateSteps \union DeleteSteps
        /\ \A j \in Key \ {k} : pc'[j] = pc[j]
    BY <1>5, RemoteStep, StepNames DEF Remote
  <2>3. QED
    BY <2>1, <2>2 DEF ExtType
<1>6. ASSUME NEW k \in Key, SaveAvailable(k) \/ EnsureNoFinalizer(k)
      PROVE  ExtType'
  <2>1. pc[k] # "idle" /\ work' = NoWork /\ UNCHANGED <<director, uaa, secret>>
    BY <1>6 DEF SaveAvailable, EnsureNoFinalizer, external
  <2>2. \A j \in Key : pc'[j] = "idle"
    BY <1>6, <2>1, AloneAtWork, SaveAvailableStep, EnsureNoFinalizerStep
  <2>3. QED
    BY <2>1, <2>2, WorkKept, StepNames
<1>7. ASSUME NEW k \in Key, Environment(k)
      PROVE  ExtType'
  <2>1. KeepWork /\ UNCHANGED <<director, uaa, secret>>
    BY <1>7 DEF Environment, external
  <2>2. QED
    BY <1>7, <2>1, KeptWork, EnvironmentKeeps, WorkKept, StepNames
<1>8. ASSUME NEW d \in Specs, Operate(d)
      PROVE  ExtType'
  <2>1. /\ director' \in [Specs -> UAA \union {None}]
        /\ \A e \in Specs : director'[e] \in UAAsOf[e] \union {None}
    BY <1>8, TeamAssumption DEF Operate, ExtType
  <2>2. UNCHANGED <<pc, mem, uaa, secret, work>>
    BY <1>8 DEF Operate, ctrlVars
  <2>3. QED
    BY <2>1, <2>2 DEF ExtType
<1>9. ASSUME Restart
      PROVE  ExtType'
  <2>1. work' \in {work, NoWork}
    BY <1>9 DEF Restart, KeepWork
  <2>2. NoWork \in [uaa : UAA \union {None}, password : Password]
    BY DEF NoWork, Password
  <2>3. QED
    BY <1>9, <2>1, <2>2, RestartStep, StepNames DEF ExtType, Restart
<1>10. ASSUME UNCHANGED vars
       PROVE  ExtType'
  BY <1>10 DEF ExtType, vars, ctrlVars, external
<1>11. QED
  BY <1>1, <1>2, <1>3, <1>4, <1>5, <1>6, <1>7, <1>8, <1>9, <1>10 DEF Next, Step, Remote

LEMMA ExtInvariant == Spec => []ExtType
<1>1. Init => ExtType
  BY StepNames DEF Init, CtrlInit, ExtType, NoWork, Password
<1>2. WorkerInv /\ ExtType /\ [Next]_vars => ExtType'
  BY ExtNext
<1>3. QED
  BY <1>1, <1>2, WorkerInvariant, PTL DEF Spec

\* Every variable keeps its type; a reconciliation that needs a UAA has one.
THEOREM TeamTyping == Spec => []TypeOK
<1>1. WorkerInv /\ ExtType => TypeOK
  BY DEF WorkerInv, CtrlInv, ExtType, TypeOK, Steps, Password
<1>2. QED
  BY <1>1, WorkerInvariant, ExtInvariant, PTL

-----------------------------------------------------------------------------
(* Nothing is left behind.                                                  *)

SecretInv ==
    \A k \in Key : /\ secret[k] # None => api[k].fin
                   /\ pc[k] = "unfinalize" => secret[k] = None

ClientInv ==
    \A k \in Key, u \in UAA :
        /\ uaa[u][k] # None => api[k].fin /\ u \in UAAsOf[api[k].orig]
        /\ pc[k] \in {"deleteSecret", "unfinalize"} /\ u \in UAAsOf[mem[k].orig]
              => uaa[u][k] = None

\* The steps that leave the UAAs and the Secrets alone.
LEMMA LocalStep ==
  ASSUME WorkerInv, [Next]_vars, \A k \in Key : ~ Remote(k)
  PROVE  /\ UNCHANGED <<uaa, secret>>
         /\ \/ KeepsClaims
            \/ \E k \in Key : /\ pc[k] = "unfinalize" /\ mem[k] = api[k]
                              /\ ~ api'[k].fin /\ ~ api'[k].avail
                              /\ \A j \in Key \ {k} : api'[j] = api[j]
         /\ \A j \in Key : pc'[j] \in {"deleteSecret", "unfinalize"} =>
                              pc'[j] = pc[j] /\ mem'[j] = mem[j]
<1>1. ASSUME NEW k \in Key, Get(k) \/ Lookup(k)
      PROVE  /\ UNCHANGED <<uaa, secret>> /\ KeepsClaims
             /\ \A j \in Key : pc'[j] \in {"deleteSecret", "unfinalize"} =>
                                  pc'[j] = pc[j] /\ mem'[j] = mem[j]
  <2>1. UNCHANGED <<uaa, secret>> /\ KeepsClaims
    BY <1>1 DEF Get, Lookup, external, KeepsClaims
  <2>2. QED
    BY <1>1, <2>1, GetStep, LookupStep
<1>2. ASSUME NEW k \in Key, SavePrepared(k) \/ EnsureFinalizer(k) \/ SaveAvailable(k)
      PROVE  /\ UNCHANGED <<uaa, secret>> /\ KeepsClaims
             /\ \A j \in Key : pc'[j] \in {"deleteSecret", "unfinalize"} =>
                                  pc'[j] = pc[j] /\ mem'[j] = mem[j]
  <2>1. KeepsClaims
    BY <1>2, SavePreparedStep, EnsureFinalizerStep, SaveAvailableStep DEF KeepsClaims
  <2>2. QED
    BY <1>2, <2>1, SavePreparedStep, EnsureFinalizerStep, SaveAvailableStep
<1>3. ASSUME NEW k \in Key, EnsureNoFinalizer(k)
      PROVE  /\ UNCHANGED <<uaa, secret>>
             /\ \/ KeepsClaims
                \/ /\ pc[k] = "unfinalize" /\ mem[k] = api[k]
                   /\ ~ api'[k].fin /\ ~ api'[k].avail
                   /\ \A j \in Key \ {k} : api'[j] = api[j]
             /\ \A j \in Key : pc'[j] \in {"deleteSecret", "unfinalize"} =>
                                  pc'[j] = pc[j] /\ mem'[j] = mem[j]
  BY <1>3, EnsureNoFinalizerStep DEF KeepsClaims
<1>4. ASSUME NEW k \in Key, Environment(k)
      PROVE  /\ UNCHANGED <<uaa, secret>> /\ KeepsClaims
             /\ \A j \in Key : pc'[j] \in {"deleteSecret", "unfinalize"} =>
                                  pc'[j] = pc[j] /\ mem'[j] = mem[j]
  BY <1>4, EnvironmentKeeps, OwnersKeep
<1>5. ASSUME Restart \/ UNCHANGED vars \/ \E d \in Specs : Operate(d)
      PROVE  /\ UNCHANGED <<uaa, secret>> /\ KeepsClaims
             /\ \A j \in Key : pc'[j] \in {"deleteSecret", "unfinalize"} =>
                                  pc'[j] = pc[j] /\ mem'[j] = mem[j]
  BY <1>5, RestartStep DEF Operate, vars, ctrlVars, external, KeepsClaims
<1>6. QED
  BY <1>1, <1>2, <1>3, <1>4, <1>5 DEF Next, Step, Remote

LEMMA SecretNext ==
  ASSUME WorkerInv, ExtType, SecretInv, [Next]_vars
  PROVE  SecretInv'
<1>1. ASSUME NEW k \in Key, Remote(k)
      PROVE  SecretInv'
  <2>1. /\ UNCHANGED api /\ \A j \in Key \ {k} : pc'[j] = pc[j] /\ secret'[j] = secret[j]
    BY <1>1, RemoteStep, RemoteFields DEF Remote
  <2>2. secret'[k] # None => api'[k].fin
    BY <1>1, <2>1, RemoteFields DEF Remote, SecretInv
  <2>3. pc'[k] = "unfinalize" => secret'[k] = None
    BY <1>1, RemoteStep, RemoteFields DEF Remote
  <2>4. QED
    BY <2>1, <2>2, <2>3 DEF SecretInv
<1>2. CASE \A k \in Key : ~ Remote(k)
  BY <1>2, LocalStep DEF SecretInv, KeepsClaims
<1>3. QED
  BY <1>1, <1>2

LEMMA SecretInvariant == Spec => []SecretInv
<1>1. Init => SecretInv
  BY DEF Init, CtrlInit, SecretInv
<1>2. WorkerInv /\ ExtType /\ SecretInv /\ [Next]_vars => SecretInv'
  BY SecretNext
<1>3. QED
  BY <1>1, <1>2, WorkerInvariant, ExtInvariant, PTL DEF Spec

\* No Secret outlives its Team, or exists before the Team's finalizer does.
THEOREM NoOrphanedSecret == Spec => []NoOrphanSecret
<1>1. WorkerInv /\ SecretInv => NoOrphanSecret
  BY Typed, NothingThere DEF SecretInv, NoOrphanSecret
<1>2. QED
  BY <1>1, WorkerInvariant, SecretInvariant, PTL

LEMMA ClientNext ==
  ASSUME OneUAA, WorkerInv, ExtType, ClientInv, [Next]_vars
  PROVE  ClientInv'
<1>1. ASSUME NEW k \in Key, Remote(k)
      PROVE  ClientInv'
  <2>1. /\ UNCHANGED api /\ mem' = mem
        /\ \A j \in Key \ {k} : pc'[j] = pc[j] /\ \A u \in UAA : uaa'[u][j] = uaa[u][j]
    BY <1>1, RemoteStep, RemoteFields DEF Remote
  <2>2. \A u \in UAA : uaa'[u][k] # None => api'[k].fin /\ u \in UAAsOf[api'[k].orig]
    <3>1. CASE CreateSecret(k) \/ DeleteSecret(k)
      <4>1. uaa' = uaa
        BY <3>1, RemoteFields
      <4>2. QED
        BY <2>1, <4>1 DEF ClientInv
    <3>2. CASE CreateClient(k)
      <4>1. /\ \A u \in UAA : u # work.uaa => uaa'[u][k] = uaa[u][k]
            /\ api[k].fin /\ work.uaa \in UAAsOf[api[k].orig]
        BY <3>2, RemoteFields
      <4>2. QED
        BY <2>1, <4>1 DEF ClientInv
    <3>3. CASE DeleteClient(k)
      <4>1. /\ \A u \in UAA : u # work.uaa => uaa'[u][k] = uaa[u][k]
            /\ uaa'[work.uaa][k] = None
        BY <3>3, RemoteFields
      <4>2. QED
        BY <2>1, <4>1 DEF ClientInv
    <3>4. QED
      BY <1>1, <3>1, <3>2, <3>3 DEF Remote
  <2>3. ASSUME pc'[k] \in {"deleteSecret", "unfinalize"},
               NEW u \in UAA, u \in UAAsOf[mem[k].orig]
        PROVE  uaa'[u][k] = None
    <3>1. CASE DeleteClient(k)
      <4>1. mem[k].orig \in Specs
        BY <3>1, Typed, StepNames DEF DeleteClient, AtStep, Object, SpecOrNone
      <4>2. u = work.uaa /\ uaa'[work.uaa][k] = None
        BY <2>3, <3>1, <4>1, RemoteFields DEF OneUAA
      <4>3. QED
        BY <4>2
    <3>2. CASE DeleteSecret(k)
      BY <2>3, <3>2, RemoteStep, RemoteFields DEF ClientInv, Remote
    <3>3. QED
      BY <1>1, <2>3, <3>1, <3>2, RemoteStep DEF Remote
  <2>4. QED
    BY <2>1, <2>2, <2>3 DEF ClientInv
<1>2. CASE \A k \in Key : ~ Remote(k)
  BY <1>2, LocalStep DEF ClientInv, KeepsClaims
<1>3. QED
  BY <1>1, <1>2

LEMMA ClientInvariant == ASSUME OneUAA PROVE Spec => []ClientInv
<1>1. Init => ClientInv
  BY DEF Init, CtrlInit, ClientInv
<1>2. WorkerInv /\ ExtType /\ ClientInv /\ [Next]_vars => ClientInv'
  BY ClientNext
<1>3. QED
  BY <1>1, <1>2, WorkerInvariant, ExtInvariant, PTL DEF Spec

\* If no Director resource is pointed to another UAA, every client in a UAA is
\* of a Team that is there to delete it.
THEOREM NoOrphanedClient == ASSUME OneUAA PROVE Spec => []NoOrphanClient
<1>1. WorkerInv /\ ClientInv => NoOrphanClient
  BY Typed, NothingThere DEF ClientInv, NoOrphanClient, Claims, Sane, Frozen
<1>2. QED
  BY <1>1, WorkerInvariant, ClientInvariant, PTL

-----------------------------------------------------------------------------
(* As long as nothing fails, client and Secret do not part.                 *)

\* Whether anything fails or not: a Team that is available has a Secret.
ShownInv ==
    \A k \in Key : /\ api[k].avail /\ ~ api[k].del => secret[k] # None
                   /\ pc[k] \in {"client", "save"} => secret[k] # None

Paired(k) ==
    \/ secret[k] = None /\ \A u \in UAA : uaa[u][k] = None
    \/ secret[k] # None /\ \E u \in UAA : u \in UAAsOf[api[k].orig] /\ uaa[u][k] = secret[k]

\* A copy that shows a deletion is of the Team that is there, if that one has
\* a finalizer.
OriginInv ==
    \A k \in Key : /\ cache[k].del /\ api[k].fin => cache[k].orig = api[k].orig
                   /\ mem[k].del /\ api[k].fin => mem[k].orig = api[k].orig

\* Between the two creations, the password drawn for the Secret is the one
\* that the client will get; between the two deletions there is no client.
PairInv ==
    faults = 0 =>
        \A k \in Key :
           /\ pc[k] = "client" => \/ Paired(k)
                                  \/ /\ secret[k] = work.password
                                     /\ \A u \in UAA : uaa[u][k] = None
                                     /\ api[k].avail => api[k].del
           /\ pc[k] = "deleteSecret" => \A u \in UAA : uaa[u][k] = None
           /\ pc[k] \notin {"client", "deleteSecret"} => Paired(k)

LEMMA OriginNext ==
  ASSUME WorkerInv, OriginInv, [Next]_vars
  PROVE  OriginInv'
<1>0. \A v \in Nat : ~ Absent(v).del
  BY DEF Absent
<1>1. ASSUME UNCHANGED api,
             \A j \in Key : /\ cache'[j] \in {cache[j], api[j]}
                            /\ mem'[j] \in {mem[j], cache[j], Absent(0)}
      PROVE  OriginInv'
  BY <1>0, <1>1 DEF OriginInv
<1>2. ASSUME NEW k \in Key, Get(k) \/ Lookup(k)
      PROVE  OriginInv'
  <2>1. UNCHANGED <<api, cache>>
    BY <1>2 DEF Get, Lookup
  <2>2. \A j \in Key : mem'[j] \in {mem[j], cache[j], Absent(0)}
    BY <1>2, Typed DEF Get, Lookup, Goto, Retry
  <2>3. QED
    BY <1>1, <2>1, <2>2
<1>3. ASSUME NEW k \in Key, Remote(k)
      PROVE  OriginInv'
  <2>1. UNCHANGED cache
    BY <1>3 DEF Remote, CreateSecret, CreateClient, DeleteClient, DeleteSecret
  <2>2. QED
    BY <1>1, <1>3, <2>1, RemoteStep
<1>4. ASSUME NEW k \in Key, NEW m, NEW step, StatusUpdate(k, m, step),
             api[k].fin => api'[k].orig = api[k].orig
      PROVE  OriginInv'
  <2>1. /\ UNCHANGED cache
        /\ \A j \in Key \ {k} : api'[j] = api[j] /\ mem'[j] = mem[j]
        /\ api'[k].fin = api[k].fin
        /\ mem'[k] \in {api'[k], Absent(0)}
    BY <1>4, Typed, StatusFields
  <2>2. QED
    BY <1>0, <1>4, <2>1 DEF OriginInv
<1>5. ASSUME NEW k \in Key, SavePrepared(k)
      PROVE  OriginInv'
  <2>1. SaveIfPrepared(k, "lookup")
    BY <1>5 DEF SavePrepared
  <2>2. CASE StatusUpdate(k, PrepareToSave(mem[k]), "lookup")
    BY <1>4, <1>5, <2>2, SavePreparedStep
  <2>3. CASE Goto(k, "lookup", mem[k]) /\ UNCHANGED <<api, cache>>
    BY <1>1, <2>3, Typed DEF Goto
  <2>4. QED
    BY <2>1, <2>2, <2>3 DEF SaveIfPrepared
<1>6. ASSUME NEW k \in Key, SaveAvailable(k)
      PROVE  OriginInv'
  <2>1. StatusUpdate(k, [mem[k] EXCEPT !.avail = TRUE], "idle")
    BY <1>6 DEF SaveAvailable
  <2>2. api[k].fin => api'[k].orig = api[k].orig
    BY <1>6, SaveAvailableStep
  <2>3. QED
    BY <1>4, <2>1, <2>2
\* A Team that gets its finalizer has no copy that shows a deletion.
<1>7. ASSUME NEW k \in Key, EnsureFinalizer(k)
      PROVE  OriginInv'
  <2>1. pc[k] = "finalize" /\ UpdateIfFinalizer(k, TRUE, "secret")
    BY <1>7 DEF EnsureFinalizer
  <2>2. CASE Goto(k, "secret", mem[k]) /\ UNCHANGED <<api, cache>>
    BY <1>1, <2>2, Typed DEF Goto
  <2>3. CASE Update(k, [mem[k] EXCEPT !.fin = TRUE], "secret")
    <3>1. /\ UNCHANGED cache
          /\ \A j \in Key \ {k} : api'[j] = api[j] /\ mem'[j] = mem[j]
          /\ mem'[k] \in {api'[k], Absent(0)}
          /\ api'[k] = api[k] \/ mem[k] = api[k]
      BY <2>3, Typed, FinalizerFields
    <3>2. mem[k] = api[k] => ~ cache[k].del
      BY <2>1, Typed, StepNames DEF AtStep, PhaseInv, Deletion
    <3>3. QED
      BY <1>0, <3>1, <3>2 DEF OriginInv
  <2>4. QED
    BY <2>1, <2>2, <2>3 DEF UpdateIfFinalizer
<1>8. ASSUME NEW k \in Key, EnsureNoFinalizer(k)
      PROVE  OriginInv'
  <2>1. /\ \A j \in Key \ {k} : api'[j] = api[j] /\ mem'[j] = mem[j]
        /\ UNCHANGED api \/ ~ api'[k].fin
    BY <1>8, EnsureNoFinalizerStep
  <2>2. UNCHANGED cache /\ mem'[k] = Absent(0)
    BY <1>8, Typed DEF EnsureNoFinalizer, UpdateIfFinalizer, Update, Write, Retry, Goto
  <2>3. QED
    BY <1>0, <2>1, <2>2 DEF OriginInv
<1>9. ASSUME NEW k \in Key, Environment(k)
      PROVE  OriginInv'
  <2>1. CASE Watch(k) \/ Resync(k) \/ Fail(k)
    BY <1>1, <2>1, Typed DEF Watch, Resync, Fail, Retry, Goto, WorkerInv, CtrlInv, CtrlTypeOK
  <2>2. CASE UserCreate(k) \/ UserEdit(k) \/ UserDelete(k)
    <3>1. UNCHANGED <<cache, mem>> /\ \A j \in Key \ {k} : api'[j] = api[j]
      BY <2>2, Typed DEF UserCreate, UserEdit, UserDelete, UserWrite
    <3>2. api'[k].fin => api[k].fin /\ api'[k].orig = api[k].orig
      <4>1. KeepsClaims
        BY <1>9, OwnersKeep
      <4>2. CASE UserCreate(k)
        <5>1. PICK s \in SpecsOf[k] :
                 api' = [api EXCEPT ![k] = [Absent(api[k].rv + 1) EXCEPT !.live = TRUE, !.spec = s]]
          BY <4>2 DEF UserCreate, UserWrite
        <5>2. QED
          BY <5>1, Typed DEF Absent
      <4>3. CASE UserEdit(k)
        <5>1. PICK s \in SpecsOf[k] : api' = [api EXCEPT ![k] = [api[k] EXCEPT !.rv = @ + 1, !.spec = s]]
          BY <4>3 DEF UserEdit, UserWrite
        <5>2. QED
          BY <4>1, <5>1, Typed DEF Object
      <4>4. CASE UserDelete(k)
        <5>1. api' = [api EXCEPT ![k] = IF api[k].fin THEN [api[k] EXCEPT !.rv = @ + 1, !.del = TRUE]
                                                      ELSE Absent(api[k].rv + 1)]
          BY <4>4 DEF UserDelete, UserWrite
        <5>2. QED
          BY <5>1, Typed DEF Object, Absent
      <4>5. QED
        BY <2>2, <4>2, <4>3, <4>4
    <3>3. QED
      BY <3>1, <3>2 DEF OriginInv
  <2>3. QED
    BY <1>9, <2>1, <2>2 DEF Environment
<1>10. ASSUME Restart
       PROVE  OriginInv'
  BY <1>1, <1>10 DEF Restart, Crash
<1>11. ASSUME UNCHANGED vars \/ \E d \in Specs : Operate(d)
       PROVE  OriginInv'
  BY <1>1, <1>11 DEF Operate, vars, ctrlVars
<1>12. QED
  BY <1>2, <1>3, <1>5, <1>6, <1>7, <1>8, <1>9, <1>10, <1>11 DEF Next, Step, Remote

LEMMA OriginInvariant == Spec => []OriginInv
<1>1. Init => OriginInv
  BY DEF Init, CtrlInit, OriginInv, Absent
<1>2. WorkerInv /\ OriginInv /\ [Next]_vars => OriginInv'
  BY OriginNext
<1>3. QED
  BY <1>1, <1>2, WorkerInvariant, PTL DEF Spec

\* Only the calls lead from a creation to the next step, and only a
\* reconciliation that has seen to the Secret makes a Team available.
LEMMA ShownStep ==
  ASSUME WorkerInv, [Next]_vars, \A k \in Key : ~ Remote(k)
  PROVE  /\ \A j \in Key : pc'[j] \in {"client", "save", "deleteSecret"} =>
                              pc'[j] = pc[j] /\ work' = work
         /\ \A j \in Key : api'[j].avail /\ ~ api'[j].del =>
                              \/ api[j].avail /\ ~ api[j].del
                              \/ pc[j] = "save"
<1>1. ASSUME NEW k \in Key, SavePrepared(k) \/ EnsureFinalizer(k)
      PROVE  /\ \A j \in Key : pc'[j] \in {"client", "save", "deleteSecret"} =>
                                  pc'[j] = pc[j] /\ work' = work
             /\ \A j \in Key : api'[j].avail /\ ~ api'[j].del => api[j].avail /\ ~ api[j].del
  <2>1. KeepWork
    BY <1>1 DEF SavePrepared, EnsureFinalizer
  <2>2. QED
    BY <1>1, <2>1, KeptWork, SavePreparedStep, EnsureFinalizerStep
<1>2. ASSUME NEW k \in Key, Get(k) \/ Lookup(k)
      PROVE  /\ \A j \in Key : pc'[j] \notin {"client", "save", "deleteSecret"}
             /\ UNCHANGED api
  <2>1. CASE Get(k)
    <3>1. UNCHANGED api /\ Idle
      BY <2>1 DEF Get, Dequeue
    <3>2. QED
      BY <2>1, <3>1, GetStep DEF Idle
  <2>2. CASE Lookup(k)
    <3>1. pc[k] = "lookup"
      BY <2>2 DEF Lookup
    <3>2. QED
      BY <2>2, <3>1, AloneAtWork, LookupStep
  <2>3. QED
    BY <1>2, <2>1, <2>2
<1>3. ASSUME NEW k \in Key, SaveAvailable(k) \/ EnsureNoFinalizer(k)
      PROVE  /\ \A j \in Key : pc'[j] = "idle"
             /\ \A j \in Key : api'[j].avail =>
                   \/ api[j].avail /\ api'[j].del = api[j].del
                   \/ pc[j] = "save"
  <2>1. pc[k] # "idle"
    BY <1>3 DEF SaveAvailable, EnsureNoFinalizer
  <2>2. \A j \in Key : pc'[j] = "idle"
    BY <1>3, <2>1, AloneAtWork, SaveAvailableStep, EnsureNoFinalizerStep
  <2>3. QED
    BY <1>3, <2>2, SaveAvailableStep, EnsureNoFinalizerStep
<1>4. ASSUME NEW k \in Key, Environment(k)
      PROVE  /\ \A j \in Key : pc'[j] \in {"client", "save", "deleteSecret"} =>
                                  pc'[j] = pc[j] /\ work' = work
             /\ \A j \in Key : api'[j].avail /\ ~ api'[j].del => api[j].avail /\ ~ api[j].del
  <2>1. KeepWork
    BY <1>4 DEF Environment
  <2>2. QED
    BY <1>4, <2>1, KeptWork, EnvironmentKeeps, OwnersKeep
<1>5. ASSUME Restart
      PROVE  UNCHANGED api /\ \A j \in Key : pc'[j] = "idle"
  BY <1>5, RestartStep
<1>6. ASSUME UNCHANGED vars \/ \E d \in Specs : Operate(d)
      PROVE  UNCHANGED <<api, pc, work>>
  BY <1>6 DEF Operate, vars, ctrlVars
<1>7. QED
  BY <1>1, <1>2, <1>3, <1>4, <1>5, <1>6 DEF Next, Step, Remote

LEMMA ShownNext ==
  ASSUME WorkerInv, ExtType, ShownInv, [Next]_vars
  PROVE  ShownInv'
<1>1. ASSUME NEW k \in Key, Remote(k)
      PROVE  ShownInv'
  <2>1. /\ UNCHANGED api /\ \A j \in Key \ {k} : pc'[j] = pc[j] /\ secret'[j] = secret[j]
    BY <1>1, RemoteStep, RemoteFields DEF Remote
  <2>2. api'[k].avail /\ ~ api'[k].del => secret'[k] # None
    <3>1. api[k].avail => api[k].fin
      BY Typed DEF PhaseInv, Owned
    <3>2. QED
      BY <1>1, <2>1, <3>1, RemoteFields DEF Remote, ShownInv
  <2>3. pc'[k] \in {"client", "save"} => secret'[k] # None
    <3>1. CreateClient(k) => secret[k] # None
      BY RemoteStep DEF Remote, ShownInv
    <3>2. QED
      BY <1>1, <3>1, RemoteStep, RemoteFields DEF Remote
  <2>4. QED
    BY <2>1, <2>2, <2>3 DEF ShownInv
<1>2. CASE \A k \in Key : ~ Remote(k)
  BY <1>2, LocalStep, ShownStep DEF ShownInv
<1>3. QED
  BY <1>1, <1>2

LEMMA ShownInvariant == Spec => []ShownInv
<1>1. Init => ShownInv
  <2> SUFFICES ASSUME Init PROVE ShownInv
    OBVIOUS
  <2>1. \A k \in Key : ~ api[k].avail /\ pc[k] = "idle"
    BY DEF Init, CtrlInit, Absent
  <2>2. QED
    BY <2>1 DEF ShownInv
<1>2. WorkerInv /\ ExtType /\ ShownInv /\ [Next]_vars => ShownInv'
  BY ShownNext
<1>3. QED
  BY <1>1, <1>2, WorkerInvariant, ExtInvariant, PTL DEF Spec

\* Unless something fails, a reconciliation that has begun to create or to
\* delete makes its next call.
LEMMA QuietStep ==
  ASSUME WorkerInv, [Next]_vars, \A k \in Key : ~ Remote(k), faults' = 0
  PROVE  /\ faults = 0
         /\ \A j \in Key : pc[j] \in {"client", "deleteSecret"} => pc'[j] = pc[j]
<1>0. faults \in Nat
  BY ControllerAssumption DEF WorkerInv, CtrlInv, CtrlTypeOK
<1>1. ASSUME NEW k \in Key, Get(k)
      PROVE  faults' = faults /\ \A j \in Key : pc[j] = "idle"
  BY <1>1 DEF Get, Dequeue, Idle
<1>2. ASSUME NEW k \in Key,
             \/ SavePrepared(k) \/ Lookup(k) \/ EnsureFinalizer(k)
             \/ SaveAvailable(k) \/ EnsureNoFinalizer(k)
      PROVE  /\ faults' = faults
             /\ pc[k] \notin {"idle", "client", "deleteSecret"}
             /\ \A j \in Key \ {k} : pc[j] = "idle"
  <2>1. pc[k] \in {"prepare", "lookup", "finalize", "save", "unfinalize"}
    BY <1>2 DEF SavePrepared, Lookup, EnsureFinalizer, SaveAvailable, EnsureNoFinalizer
  <2>2. faults' = faults
    BY <1>2 DEF SavePrepared, SaveIfPrepared, Lookup, EnsureFinalizer, UpdateIfFinalizer,
       SaveAvailable, EnsureNoFinalizer, StatusUpdate, Update, Write
  <2>3. QED
    BY <2>1, <2>2, AloneAtWork
<1>3. ASSUME NEW k \in Key, Environment(k)
      PROVE  faults' = faults + 1 \/ UNCHANGED <<pc, faults>>
  BY <1>3 DEF Environment, UserCreate, UserEdit, UserDelete, UserWrite, Watch, Resync, Fail
<1>4. Restart => faults' = faults + 1
  BY DEF Restart, Crash
<1>5. ASSUME UNCHANGED vars \/ \E d \in Specs : Operate(d)
      PROVE  UNCHANGED <<pc, faults>>
  BY <1>5 DEF Operate, vars, ctrlVars
<1>6. QED
  BY <1>0, <1>1, <1>2, <1>3, <1>4, <1>5 DEF Next, Step, Remote

LEMMA PairNext ==
  ASSUME OneUAA, WorkerInv, ExtType, OriginInv, SecretInv, ClientInv, ShownInv,
         PairInv, [Next]_vars
  PROVE  PairInv'
<1>1. ASSUME NEW k \in Key, Remote(k), faults' = 0
      PROVE  PairInv'
  <2>1. /\ UNCHANGED api /\ faults = 0
        /\ \A j \in Key \ {k} : /\ pc'[j] = pc[j] /\ secret'[j] = secret[j]
                                /\ \A u \in UAA : uaa'[u][j] = uaa[u][j]
        /\ \A j \in Key \ {k} : pc[j] = "idle"
    <3>1. faults' = faults /\ pc[k] # "idle"
      BY <1>1 DEF Remote, CreateSecret, CreateClient, DeleteClient, DeleteSecret
    <3>2. QED
      BY <1>1, <3>1, AloneAtWork, RemoteStep, RemoteFields DEF Remote
  <2>2. ASSUME NEW j \in Key \ {k}
        PROVE  pc'[j] = "idle" /\ Paired(j)'
    BY <2>1 DEF PairInv, Paired
  <2>3. CASE CreateSecret(k)
    <3>1. pc[k] = "secret" /\ pc'[k] = "client" /\ Paired(k)
      BY <2>1, <2>3, RemoteStep DEF Remote, PairInv
    <3>2. CASE secret[k] = None
      <4>1. /\ secret'[k] = work'.password /\ \A u \in UAA : uaa'[u][k] = None
            /\ api'[k].avail => api'[k].del
        BY <2>1, <2>3, <3>1, <3>2, RemoteFields DEF Paired, ShownInv
      <4>2. QED
        BY <2>2, <3>1, <4>1 DEF PairInv
    <3>3. CASE secret[k] # None
      <4>1. Paired(k)'
        BY <2>1, <2>3, <3>1, <3>3, RemoteFields DEF Paired
      <4>2. QED
        BY <2>2, <3>1, <4>1 DEF PairInv
    <3>4. QED
      BY <3>2, <3>3
  \* The client of the original Director is the only one there can be.
  <2>4. CASE CreateClient(k)
    <3>1. /\ pc[k] = "client" /\ pc'[k] = "save" /\ secret[k] # None /\ secret' = secret
          /\ work.uaa \in UAA /\ work.uaa \in UAAsOf[api[k].orig]
          /\ uaa'[work.uaa][k] = (IF uaa[work.uaa][k] = None THEN work.password
                                                           ELSE uaa[work.uaa][k])
          /\ \/ Paired(k)
             \/ secret[k] = work.password /\ \A u \in UAA : uaa[u][k] = None
      BY <2>1, <2>4, RemoteStep, RemoteFields DEF Remote, PairInv, ShownInv
    <3>2. uaa'[work.uaa][k] = secret[k]
      <4>1. api[k].orig \in Specs
        BY <2>4, Typed, RemoteFields DEF Object, SpecOrNone, Sane, Frozen
      <4>2. CASE Paired(k)
        <5>1. PICK u \in UAA : u \in UAAsOf[api[k].orig] /\ uaa[u][k] = secret[k]
          BY <3>1, <4>2 DEF Paired
        <5>2. u = work.uaa
          BY <3>1, <4>1, <5>1 DEF OneUAA
        <5>3. QED
          BY <3>1, <5>1, <5>2
      <4>3. QED
        BY <3>1, <4>2
    <3>3. Paired(k)'
      BY <2>1, <3>1, <3>2 DEF Paired
    <3>4. QED
      BY <2>2, <3>1, <3>3 DEF PairInv
  <2>5. CASE DeleteClient(k)
    <3>1. /\ pc[k] = "deleteClient" /\ pc'[k] = "deleteSecret"
          /\ work.uaa \in UAAsOf[mem[k].orig] /\ uaa'[work.uaa][k] = None
          /\ \A u \in UAA : u # work.uaa => uaa'[u][k] = uaa[u][k]
      BY <2>5, RemoteStep, RemoteFields DEF Remote
    <3>2. CASE secret[k] = None /\ \A u \in UAA : uaa[u][k] = None
      BY <2>2, <3>1, <3>2 DEF PairInv
    <3>3. CASE secret[k] # None
      <4>1. api[k].fin /\ mem[k].del
        BY <3>1, <3>3, Typed, StepNames DEF SecretInv, AtStep
      <4>2. api[k].orig = mem[k].orig /\ api[k].orig \in Specs
        BY <4>1, Typed DEF OriginInv, Object, SpecOrNone, Sane, Frozen
      <4>3. \A u \in UAA : uaa'[u][k] = None
        BY <3>1, <4>2 DEF OneUAA, ClientInv
      <4>4. QED
        BY <2>2, <3>1, <4>3 DEF PairInv
    <3>4. Paired(k)
      BY <2>1, <3>1 DEF PairInv
    <3>5. QED
      BY <3>2, <3>3, <3>4 DEF Paired
  <2>6. CASE DeleteSecret(k)
    <3>1. /\ pc[k] = "deleteSecret" /\ pc'[k] = "unfinalize"
          /\ uaa' = uaa /\ secret'[k] = None
      BY <2>6, RemoteStep, RemoteFields DEF Remote
    <3>2. Paired(k)'
      BY <2>1, <3>1 DEF Paired, PairInv
    <3>3. QED
      BY <2>2, <3>1, <3>2 DEF PairInv
  <2>7. QED
    BY <1>1, <2>3, <2>4, <2>5, <2>6 DEF Remote
<1>2. ASSUME \A k \in Key : ~ Remote(k), faults' = 0
      PROVE  PairInv'
  <2>1. ASSUME NEW j \in Key, Paired(j)
        PROVE  Paired(j)'
    <3>1. CASE secret[j] = None /\ \A u \in UAA : uaa[u][j] = None
      BY <1>2, <3>1, LocalStep DEF Paired
    <3>2. CASE secret[j] # None /\ \E u \in UAA : u \in UAAsOf[api[j].orig] /\ uaa[u][j] = secret[j]
      <4>1. api'[j].orig = api[j].orig
        BY <1>2, <3>2, LocalStep DEF KeepsClaims, SecretInv
      <4>2. QED
        BY <1>2, <3>2, <4>1, LocalStep DEF Paired
    <3>3. QED
      BY <2>1, <3>1, <3>2 DEF Paired
  <2>2. /\ faults = 0 /\ UNCHANGED <<uaa, secret>>
        /\ \A j \in Key : pc[j] \in {"client", "deleteSecret"} => pc'[j] = pc[j]
        /\ \A j \in Key : pc'[j] \in {"client", "save", "deleteSecret"} =>
                              pc'[j] = pc[j] /\ work' = work
        /\ \A j \in Key : api'[j].avail /\ ~ api'[j].del =>
                              \/ api[j].avail /\ ~ api[j].del
                              \/ pc[j] = "save"
    BY <1>2, LocalStep, ShownStep, QuietStep
  <2>3. ASSUME NEW j \in Key
        PROVE  /\ pc'[j] = "client" => \/ Paired(j)'
                                       \/ /\ secret'[j] = work'.password
                                          /\ \A u \in UAA : uaa'[u][j] = None
                                          /\ api'[j].avail => api'[j].del
               /\ pc'[j] = "deleteSecret" => \A u \in UAA : uaa'[u][j] = None
               /\ pc'[j] \notin {"client", "deleteSecret"} => Paired(j)'
    BY <2>1, <2>2 DEF PairInv
  <2>4. QED
    BY <2>3 DEF PairInv
<1>3. QED
  BY <1>1, <1>2 DEF PairInv

LEMMA PairInvariant == ASSUME OneUAA PROVE Spec => []PairInv
<1>1. Init => PairInv
  BY DEF Init, CtrlInit, PairInv, Paired
<1>2. /\ WorkerInv /\ ExtType /\ OriginInv /\ SecretInv /\ ClientInv /\ ShownInv /\ PairInv
      /\ [Next]_vars
      => PairInv'
  BY PairNext
<1>3. QED
  BY <1>1, <1>2, WorkerInvariant, ExtInvariant, OriginInvariant, SecretInvariant, ClientInvariant,
     ShownInvariant, PTL DEF Spec

\* Until the first failure, whatever the order of the steps, whoever logs in
\* with the Secret of an available Team is let in: a client has its password.
THEOREM TeamUsable == ASSUME OneUAA PROVE Spec => []UsableUntilFault
<1>1. WorkerInv /\ ShownInv /\ PairInv => UsableUntilFault
  <2> SUFFICES ASSUME WorkerInv, ShownInv, PairInv, faults = 0, NEW k \in Key,
                      api[k].live, api[k].avail, ~ api[k].del
               PROVE  /\ secret[k] # None
                      /\ \E u \in UAAsOf[api[k].orig] : uaa[u][k] = secret[k]
    BY DEF UsableUntilFault, AvailableIsUsable
  <2>1. secret[k] # None
    BY DEF ShownInv
  <2>2. pc[k] # "deleteSecret"
    <3>1. api[k].fin
      BY Typed DEF PhaseInv, Owned
    <3>2. pc[k] = "deleteSecret" => mem[k].del
      BY Typed, StepNames DEF AtStep
    <3>3. QED
      BY <3>1, <3>2, Typed DEF PhaseInv, Deletion
  <2>3. Paired(k)
    BY <2>2 DEF PairInv
  <2>4. QED
    BY <2>1, <2>3 DEF Paired
<1>2. QED
  BY <1>1, WorkerInvariant, ShownInvariant, PairInvariant, PTL

-----------------------------------------------------------------------------
(* The refinement.                                                          *)

Exts == [k \in Key |-> secret[k] # None \/ \E u \in UAA : uaa[u][k] # None]

LEMMA PromiseMove ==
  ASSUME NEW k \in Key, NEW from, NEW to, Phases[k] = from,
         Phases' = [Phases EXCEPT ![k] = to], UNCHANGED <<uaa, secret>>
  PROVE  Promise!Move(k, from, to)
  BY DEF Promise!Move, Phases

LEMMA PromiseStutter ==
  ASSUME Phases' = Phases, Exts' = Exts
  PROVE  UNCHANGED Promise!vars
  BY DEF Promise!vars, Phases, Exts

LEMMA SameExts ==
  ASSUME UNCHANGED <<uaa, secret>>
  PROVE  Exts' = Exts
  BY DEF Exts

\* A call makes the counterpart of a Team that is claimed, or takes away that
\* of one that is terminating.
LEMMA PromiseRemote ==
  ASSUME WorkerInv, ExtType, SecretInv, ClientInv, NEW k \in Key, Remote(k)
  PROVE  Promise!Next \/ UNCHANGED Promise!vars
<1>1. Phases' = Phases
  BY RemoteStep
<1>2. \A j \in Key \ {k} : Exts'[j] = Exts[j]
  <2>1. \A j \in Key \ {k} : secret'[j] = secret[j] /\ \A u \in UAA : uaa'[u][j] = uaa[u][j]
    BY RemoteFields DEF Remote
  <2>2. QED
    BY <2>1 DEF Exts
<1>3. Exts'[k] \in BOOLEAN /\ Exts[k] \in BOOLEAN
  BY DEF Exts
<1>4. CASE Exts'[k] = Exts[k]
  <2>1. Exts' = Exts
    BY <1>2, <1>4 DEF Exts
  <2>2. QED
    BY <1>1, <2>1, PromiseStutter
<1>5. CASE ~ Exts[k] /\ Exts'[k]
  <2>1. api[k].live /\ api[k].fin
    <3>1. CASE CreateSecret(k) \/ CreateClient(k)
      BY <3>1, RemoteFields
    <3>2. CASE DeleteClient(k)
      <4>1. /\ secret' = secret /\ uaa'[work.uaa][k] = None
            /\ \A u \in UAA : u # work.uaa => uaa'[u][k] = uaa[u][k]
        BY <3>2, RemoteFields
      <4>2. QED
        BY <1>5, <4>1 DEF Exts
    <3>3. CASE DeleteSecret(k)
      <4>1. uaa' = uaa /\ secret'[k] = None
        BY <3>3, RemoteFields
      <4>2. QED
        BY <1>5, <4>1 DEF Exts
    <3>4. QED
      BY <3>1, <3>2, <3>3 DEF Remote
  <2>2. Phases[k] \in {"claimed", "terminating"}
    BY <2>1 DEF Phases, Phase
  <2>3. Exts' = [Exts EXCEPT ![k] = TRUE]
    BY <1>2, <1>3, <1>5 DEF Exts
  <2>4. Promise!Provision(k)
    BY <1>1, <2>2, <2>3 DEF Promise!Provision, Phases, Exts
  <2>5. QED
    BY <2>4 DEF Promise!Next
<1>6. CASE Exts[k] /\ ~ Exts'[k]
  <2>1. api[k].fin
    BY <1>6 DEF Exts, SecretInv, ClientInv
  <2>2. api[k].live
    BY <2>1, Typed, NothingThere
  <2>3. api[k].del
    <3>1. CASE CreateSecret(k)
      <4>1. secret'[k] # None
        BY <3>1, RemoteFields
      <4>2. QED
        BY <1>6, <4>1 DEF Exts
    <3>2. CASE CreateClient(k)
      <4>1. /\ secret' = secret
            /\ \A u \in UAA : uaa[u][k] # None => uaa'[u][k] = uaa[u][k]
        BY <3>2, RemoteFields
      <4>2. QED
        BY <1>6, <4>1 DEF Exts
    <3>3. CASE DeleteClient(k) \/ DeleteSecret(k)
      BY <2>1, <3>3, RemoteFields
    <3>4. QED
      BY <3>1, <3>2, <3>3 DEF Remote
  <2>4. Phases[k] = "terminating"
    BY <2>2, <2>3 DEF Phases, Phase
  <2>5. Exts' = [Exts EXCEPT ![k] = FALSE]
    BY <1>2, <1>3, <1>6 DEF Exts
  <2>6. Promise!Deprovision(k)
    BY <1>1, <2>4, <2>5 DEF Promise!Deprovision, Phases, Exts
  <2>7. QED
    BY <2>6 DEF Promise!Next
<1>7. QED
  BY <1>3, <1>4, <1>5, <1>6

LEMMA PromiseStep ==
  ASSUME WorkerInv, ExtType, SecretInv, ClientInv, [Next]_vars
  PROVE  [Promise!Next]_(Promise!vars)
<1>1. ASSUME NEW k \in Key, Get(k) \/ SavePrepared(k) \/ Lookup(k) \/ SaveAvailable(k)
      PROVE  UNCHANGED Promise!vars
  <2>1. UNCHANGED <<uaa, secret>>
    BY <1>1 DEF Get, SavePrepared, Lookup, SaveAvailable, external
  <2>2. Phases' = Phases
    BY <1>1, GetStep, SavePreparedStep, LookupStep, SaveAvailableStep
  <2>3. QED
    BY <2>1, <2>2, SameExts, PromiseStutter
<1>2. ASSUME NEW k \in Key, EnsureFinalizer(k)
      PROVE  Promise!Next \/ UNCHANGED Promise!vars
  <2>1. Phases' = Phases \/ Promise!Claim(k)
    BY <1>2, EnsureFinalizerStep, PromiseMove DEF Promise!Claim
  <2>2. Exts' = Exts
    BY <1>2, EnsureFinalizerStep, SameExts
  <2>3. QED
    BY <2>1, <2>2, PromiseStutter DEF Promise!Next
<1>3. ASSUME NEW k \in Key, Remote(k)
      PROVE  Promise!Next \/ UNCHANGED Promise!vars
  BY <1>3, PromiseRemote
<1>4. ASSUME NEW k \in Key, EnsureNoFinalizer(k)
      PROVE  Promise!Next \/ UNCHANGED Promise!vars
  <2>1. UNCHANGED <<uaa, secret>> /\ pc[k] = "unfinalize" /\ Exts' = Exts
    BY <1>4, EnsureNoFinalizerStep, SameExts
  <2>2. CASE Phases' = Phases
    BY <2>1, <2>2, PromiseStutter
  <2>3. CASE /\ mem[k] = api[k]
             /\ Phases[k] = "terminating" /\ Phases' = [Phases EXCEPT ![k] = "none"]
    <3>1. secret[k] = None /\ \A u \in UAA : uaa[u][k] = None
      BY <2>1, <2>3 DEF SecretInv, ClientInv
    <3>2. Promise!Finish(k)
      BY <2>1, <2>3, <3>1, PromiseMove DEF Promise!Finish
    <3>3. QED
      BY <3>2 DEF Promise!Next
  <2>4. QED
    BY <1>4, <2>2, <2>3, EnsureNoFinalizerStep
<1>5. ASSUME NEW k \in Key, Environment(k)
      PROVE  Promise!Next \/ UNCHANGED Promise!vars
  <2>1. UNCHANGED <<uaa, secret>>
    BY <1>5 DEF Environment, external
  <2>2. CASE Phases' = Phases
    BY <2>1, <2>2, SameExts, PromiseStutter
  <2>3. CASE \E m \in OwnerMoves : Phases[k] = m[1] /\ Phases' = [Phases EXCEPT ![k] = m[2]]
    <3>1. \E m \in OwnerMoves : Promise!Move(k, m[1], m[2])
      BY <2>1, <2>3, PromiseMove
    <3>2. Promise!Declare(k) \/ Promise!Withdraw(k) \/ Promise!Terminate(k)
      BY <3>1 DEF OwnerMoves, Promise!Declare, Promise!Withdraw, Promise!Terminate
    <3>3. QED
      BY <3>2 DEF Promise!Next
  <2>4. QED
    BY <1>5, <2>2, <2>3, EnvironmentKeeps
<1>6. ASSUME Restart
      PROVE  UNCHANGED Promise!vars
  BY <1>6, RestartStep, SameExts, PromiseStutter
<1>7. ASSUME UNCHANGED vars \/ \E d \in Specs : Operate(d)
      PROVE  UNCHANGED Promise!vars
  <2>1. UNCHANGED <<ctrlVars, uaa, secret>>
    BY <1>7 DEF Operate, vars, external
  <2>2. Phases' = Phases
    BY <2>1, WorkerUntouched
  <2>3. QED
    BY <2>1, <2>2, SameExts, PromiseStutter
<1>8. QED
  BY <1>1, <1>2, <1>3, <1>4, <1>5, <1>6, <1>7 DEF Next, Step, Remote

\* The Team reconciler keeps the promise of Lifecycle: client and Secret are
\* made only for a claimed Team, and both are gone before it is.
THEOREM TeamImplementsLifecycle == ASSUME OneUAA PROVE Spec => ImplementsLifecycle
<1>1. Init => Promise!Init
  <2> SUFFICES ASSUME Init PROVE Promise!Init
    OBVIOUS
  <2>1. \A k \in Key : ~ api[k].live /\ secret[k] = None /\ \A u \in UAA : uaa[u][k] = None
    BY DEF Init, CtrlInit, Absent
  <2>2. \A k \in Key : Phase(api[k]) = "none"
    BY <2>1 DEF Phase
  <2>3. QED
    BY <2>1, <2>2 DEF Promise!Init
<1>2. WorkerInv /\ ExtType /\ SecretInv /\ ClientInv /\ [Next]_vars => [Promise!Next]_(Promise!vars)
  BY PromiseStep
<1>3. QED
  BY <1>1, <1>2, WorkerInvariant, ExtInvariant, SecretInvariant, ClientInvariant, PTL
     DEF Spec, Promise!Spec, ImplementsLifecycle

=============================================================================
