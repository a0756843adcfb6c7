----------------------------- MODULE UploadProofs -----------------------------
(***************************************************************************)
(* Theorems about the Release and BaseImage reconcilers, for any number of *)
(* custom resources, specs and artifacts, any number of user writes, and   *)
(* any number of errors and crashes.                                       *)
(***************************************************************************)
EXTENDS UploadController, ControllerProofs

Steps == {"idle"} \union CreateSteps \union DeleteSteps

\* What the running reconciliation knows at each of its steps.  One that
\* deletes has read the deletion from the cache, which does not go back.
AtStep(k) ==
    /\ pc[k] # "idle" => mem[k].live
    /\ pc[k] \in CreateSteps => ~ mem[k].del
    /\ pc[k] \in CreateSteps \ {"prepare"} => mem[k].orig # None
    /\ pc[k] \in {"has", "upload", "save"} => mem[k].fin
    /\ pc[k] \in DeleteSteps => mem[k].del /\ mem[k].rv <= cache[k].rv

\* The inductive invariant.
UploadInv ==
    /\ CtrlInv(Steps)
    /\ bosh \in SUBSET Artifacts
    /\ inflight \in SUBSET Artifacts
    /\ \A k \in Key : AtStep(k)

\* Its extension to what the Director has, when every url serves the artifact
\* that the spec names.
ArtifactInv ==
    /\ NoOrphan
    /\ inflight \subseteq Slow
    /\ \A k \in Key : pc[k] = "unfinalize" => Declared[mem[k].orig] \notin bosh \ Slow

-----------------------------------------------------------------------------
LEMMA Typed ==
  ASSUME CtrlInv(Steps), NEW k \in Key
  PROVE  /\ api[k] \in Object /\ cache[k] \in Object /\ mem[k] \in Object
         /\ Sane(api[k]) /\ Sane(cache[k]) /\ Sane(mem[k])
         /\ Frozen(api[k]) /\ Frozen(cache[k]) /\ Frozen(mem[k])
         /\ Copy(api[k], cache[k]) /\ Copy(api[k], mem[k])
         /\ pc[k] \in Steps /\ pc \in [Key -> Steps] /\ mem \in [Key -> Object]
         /\ queue \in SUBSET Key
  BY DEF CtrlInv, CtrlTypeOK, Steps, CreateSteps

LEMMA Named ==
  ASSUME CtrlInv(Steps), NEW k \in Key, mem[k].orig # None
  PROVE  /\ mem[k].orig \in Specs
         /\ Declared[mem[k].orig] \in Artifacts /\ Served[mem[k].orig] \in Artifacts
  BY Typed, UploadAssumption DEF Object, SpecOrNone

-----------------------------------------------------------------------------
\* A step of the worker concerns one key.
LEMMA WorkerStep ==
  ASSUME UploadInv, NEW k \in Key, CtrlInv(Steps)', UNCHANGED cache,
         \A j \in Key \ {k} : pc'[j] = pc[j] /\ mem'[j] = mem[j],
         AtStep(k)', bosh' \in SUBSET Artifacts, inflight' \in SUBSET Artifacts
  PROVE  UploadInv'
  BY DEF UploadInv, AtStep

\* A step that moves on with an unchanged copy.
LEMMA MoveStep ==
  ASSUME UploadInv, NEW k \in Key, NEW step \in Steps \ {"idle"}, pc[k] # "idle",
         Goto(k, step, mem[k]), UNCHANGED <<api, cache, queue, faults>>
  PROVE  /\ CtrlInv(Steps)' /\ KeepsOriginals /\ KeepsClaims
         /\ pc' = [pc EXCEPT ![k] = step] /\ mem' = mem
         /\ pc'[k] = step
         /\ \A j \in Key \ {k} : pc'[j] = pc[j] /\ mem'[j] = mem[j]
<1>1. CtrlInv(Steps)
  BY DEF UploadInv
<1>2. CtrlInv(Steps)'
  BY <1>1, Typed, GotoStep
<1>3. mem' = mem
  BY <1>1, Typed DEF Goto
<1>4. QED
  BY <1>1, <1>2, <1>3, Typed DEF Goto, KeepsOriginals, KeepsClaims

LEMMA WriteConcernsOne ==
  ASSUME CtrlInv(Steps), NEW k \in Key, NEW m, NEW step,
         StatusUpdate(k, m, step) \/ Update(k, m, step)
  PROVE  /\ UNCHANGED cache
         /\ \A j \in Key \ {k} : pc'[j] = pc[j] /\ mem'[j] = mem[j]
  BY Typed DEF StatusUpdate, Update, Write, Retry, Goto

LEMMA GetStep ==
  ASSUME UploadInv, NEW k \in Key, Get(k)
  PROVE  UploadInv' /\ KeepsOriginals
<1>1. CtrlInv(Steps)
  BY DEF UploadInv
<1>2. PICK step \in {s \in Steps : Goto(k, s, cache[k])} :
         \/ step = "idle"
         \/ step = "hasToDelete" /\ cache[k].live /\ cache[k].del
         \/ step = "prepare" /\ cache[k].live /\ ~ cache[k].del
  <2>1. {"idle", "hasToDelete", "prepare"} \subseteq Steps
    BY DEF Steps, CreateSteps, DeleteSteps
  <2>2. CASE ~ cache[k].live /\ Goto(k, "idle", cache[k])
    BY <2>1, <2>2
  <2>3. CASE cache[k].live /\ cache[k].del /\ Goto(k, "hasToDelete", cache[k])
    BY <2>1, <2>3
  <2>4. CASE cache[k].live /\ ~ cache[k].del /\ Goto(k, "prepare", cache[k])
    BY <2>1, <2>4
  <2>5. QED
    BY <2>2, <2>3, <2>4 DEF Get
<1>3. CtrlInv(Steps)'
  BY <1>1, <1>2, Typed, GotoStep DEF Get, Dequeue
<1>4. /\ pc'[k] = step /\ (step # "idle" => mem'[k] = cache[k]) /\ UNCHANGED cache
      /\ \A j \in Key \ {k} : pc'[j] = pc[j] /\ mem'[j] = mem[j]
  BY <1>1, <1>2, Typed DEF Goto, Get
<1>5. cache[k].rv <= cache[k].rv
  BY <1>1, Typed DEF Object
<1>6. AtStep(k)'
  BY <1>2, <1>4, <1>5 DEF AtStep, CreateSteps, DeleteSteps
<1>7. bosh' \in SUBSET Artifacts /\ inflight' \in SUBSET Artifacts /\ KeepsOriginals
  BY DEF Get, UploadInv, KeepsOriginals
<1>8. QED
  BY <1>3, <1>4, <1>6, <1>7, WorkerStep

LEMMA SavePreparedStep ==
  ASSUME UploadInv, NEW k \in Key, SavePrepared(k)
  PROVE  UploadInv' /\ KeepsOriginals /\ KeepsClaims
<1> DEFINE m == PrepareToSave(mem[k])
<1>1. /\ CtrlInv(Steps) /\ pc[k] = "prepare" /\ mem[k].live /\ ~ mem[k].del
      /\ "finalize" \in Steps /\ "idle" \in Steps
  BY DEF UploadInv, AtStep, SavePrepared, CreateSteps, Steps
<1>2. /\ m \in Object /\ m.rv = mem[k].rv /\ m.orig # None
      /\ mem[k].fin \/ mem[k].orig # None => m.orig = mem[k].orig
  BY <1>1, Typed, Prepared DEF Frozen
<1> HIDE DEF m
<1>3. bosh' \in SUBSET Artifacts /\ inflight' \in SUBSET Artifacts
  BY DEF SavePrepared, UploadInv
<1>4. CASE StatusUpdate(k, m, "finalize")
  <2>1. /\ CtrlInv(Steps)' /\ KeepsOriginals /\ KeepsClaims
        /\ pc'[k] = "idle" \/
             /\ pc'[k] = "finalize"
             /\ mem'[k].live = mem[k].live /\ mem'[k].del = mem[k].del
             /\ mem'[k].fin = mem[k].fin /\ mem'[k].orig = m.orig
    BY <1>1, <1>2, <1>4, StatusStep
  <2>2. AtStep(k)'
    BY <1>1, <1>2, <2>1 DEF AtStep, CreateSteps, DeleteSteps
  <2>3. QED
    BY <1>1, <1>3, <1>4, <2>1, <2>2, WriteConcernsOne, WorkerStep
<1>5. CASE /\ m = mem[k] /\ Goto(k, "finalize", m)
           /\ UNCHANGED <<api, cache, queue, faults>>
  <2>1. /\ CtrlInv(Steps)' /\ KeepsOriginals /\ KeepsClaims /\ pc'[k] = "finalize" /\ mem' = mem
        /\ \A j \in Key \ {k} : pc'[j] = pc[j] /\ mem'[j] = mem[j]
    BY <1>1, <1>5, MoveStep
  <2>2. AtStep(k)'
    BY <1>1, <1>2, <1>5, <2>1 DEF AtStep, CreateSteps, DeleteSteps
  <2>3. QED
    BY <1>3, <1>5, <2>1, <2>2, WorkerStep
<1>6. QED
  BY <1>4, <1>5 DEF SavePrepared, SaveIfPrepared, m

LEMMA EnsureFinalizerStep ==
  ASSUME UploadInv, NEW k \in Key, EnsureFinalizer(k)
  PROVE  UploadInv' /\ KeepsOriginals /\ KeepsClaims
<1>1. /\ CtrlInv(Steps) /\ pc[k] = "finalize"
      /\ mem[k].live /\ ~ mem[k].del /\ mem[k].orig # None
      /\ "has" \in Steps /\ "idle" \in Steps
  BY DEF UploadInv, AtStep, EnsureFinalizer, CreateSteps, Steps
<1>2. bosh' \in SUBSET Artifacts /\ inflight' \in SUBSET Artifacts
  BY DEF EnsureFinalizer, UploadInv
<1>3. CASE Update(k, [mem[k] EXCEPT !.fin = TRUE], "has")
  <2>1. /\ CtrlInv(Steps)' /\ KeepsOriginals /\ KeepsClaims
        /\ pc'[k] = "idle" \/
             /\ pc'[k] = "has"
             /\ mem'[k].live /\ ~ mem'[k].del /\ mem'[k].fin
             /\ mem'[k].orig = mem[k].orig
    BY <1>1, <1>3, FinalizerStep
  <2>2. AtStep(k)'
    BY <1>1, <2>1 DEF AtStep, CreateSteps, DeleteSteps
  <2>3. QED
    BY <1>1, <1>2, <1>3, <2>1, <2>2, WriteConcernsOne, WorkerStep
<1>4. CASE /\ mem[k].fin /\ Goto(k, "has", mem[k])
           /\ UNCHANGED <<api, cache, queue, faults>>
  <2>1. /\ CtrlInv(Steps)' /\ KeepsOriginals /\ KeepsClaims /\ pc'[k] = "has" /\ mem' = mem
        /\ \A j \in Key \ {k} : pc'[j] = pc[j] /\ mem'[j] = mem[j]
    BY <1>1, <1>4, MoveStep
  <2>2. AtStep(k)'
    BY <1>1, <1>4, <2>1 DEF AtStep, CreateSteps, DeleteSteps
  <2>3. QED
    BY <1>2, <1>4, <2>1, <2>2, WorkerStep
<1>5. QED
  BY <1>3, <1>4 DEF EnsureFinalizer, UpdateIfFinalizer

\* The steps that ask the Director something or change what it has.
LEMMA DirectorStep ==
  ASSUME UploadInv, NEW k \in Key,
         Has(k) \/ Upload(k) \/ HasToDelete(k) \/ Delete(k)
  PROVE  /\ UploadInv' /\ KeepsOriginals /\ mem' = mem
         /\ UNCHANGED <<api, cache, queue, faults>>
<1>1. CtrlInv(Steps)
  BY DEF UploadInv
<1>2. PICK step \in Steps \ {"idle"} :
         /\ Goto(k, step, mem[k])
         /\ \/ pc[k] \in {"has", "upload"} /\ step \in {"upload", "save"}
            \/ pc[k] \in {"hasToDelete", "delete"} /\ step \in {"delete", "unfinalize"}
  <2> DEFINE there == Declared[mem[k].orig] \in bosh
             create == IF there THEN "save" ELSE "upload"
             delete == IF there THEN "delete" ELSE "unfinalize"
  <2>1. {"upload", "save", "delete", "unfinalize"} \subseteq Steps \ {"idle"}
    BY DEF Steps, CreateSteps, DeleteSteps
  <2>2. create \in {"upload", "save"} /\ delete \in {"delete", "unfinalize"}
    OBVIOUS
  <2>3. /\ Has(k) => pc[k] = "has" /\ Goto(k, create, mem[k])
        /\ Upload(k) => pc[k] = "upload" /\ Goto(k, "save", mem[k])
        /\ HasToDelete(k) => pc[k] = "hasToDelete" /\ Goto(k, delete, mem[k])
        /\ Delete(k) => pc[k] = "delete" /\ Goto(k, "unfinalize", mem[k])
    BY DEF Has, Upload, HasToDelete, Delete
  <2> HIDE DEF create, delete
  <2>4. QED
    BY <2>1, <2>2, <2>3
<1>3. UNCHANGED <<api, cache, queue, faults>>
  BY DEF Has, Upload, HasToDelete, Delete
<1>4. /\ CtrlInv(Steps)' /\ KeepsOriginals /\ pc'[k] = step /\ mem' = mem
      /\ \A j \in Key \ {k} : pc'[j] = pc[j] /\ mem'[j] = mem[j]
  BY <1>2, <1>3, MoveStep
<1>5. AtStep(k)'
  BY <1>2, <1>3, <1>4 DEF UploadInv, AtStep, CreateSteps, DeleteSteps
<1>6. bosh' \in SUBSET Artifacts /\ inflight' \in SUBSET Artifacts
  <2>1. CASE Upload(k)
    <3>1. mem[k].orig # None
      BY <2>1 DEF UploadInv, AtStep, Upload, CreateSteps
    <3>2. QED
      BY <1>1, <2>1, <3>1, Named DEF Upload, UploadInv
  <2>2. QED
    BY <2>1 DEF Has, HasToDelete, Delete, UploadInv
<1>7. QED
  BY <1>3, <1>4, <1>5, <1>6, WorkerStep

LEMMA SaveAvailableStep ==
  ASSUME UploadInv, NEW k \in Key, SaveAvailable(k)
  PROVE  UploadInv' /\ KeepsOriginals /\ KeepsClaims /\ pc'[k] = "idle"
<1> DEFINE m == [mem[k] EXCEPT !.avail = TRUE]
<1>1. /\ CtrlInv(Steps) /\ pc[k] = "save" /\ mem[k].live /\ mem[k].orig # None
      /\ "idle" \in Steps
  BY DEF UploadInv, AtStep, SaveAvailable, CreateSteps, Steps
<1>2. m \in Object /\ m.rv = mem[k].rv /\ m.orig = mem[k].orig
  BY <1>1, Typed DEF Object
<1>3. StatusUpdate(k, m, "idle")
  BY DEF SaveAvailable
<1> HIDE DEF m
<1>4. CtrlInv(Steps)' /\ KeepsOriginals /\ KeepsClaims /\ pc'[k] = "idle"
  BY <1>1, <1>2, <1>3, StatusStep
<1>5. AtStep(k)'
  BY <1>4 DEF AtStep, CreateSteps, DeleteSteps
<1>6. bosh' \in SUBSET Artifacts /\ inflight' \in SUBSET Artifacts
  BY DEF SaveAvailable, UploadInv
<1>7. QED
  BY <1>1, <1>3, <1>4, <1>5, <1>6, WriteConcernsOne, WorkerStep

LEMMA EnsureNoFinalizerStep ==
  ASSUME UploadInv, NEW k \in Key, EnsureNoFinalizer(k)
  PROVE  /\ UploadInv' /\ KeepsOriginals /\ pc'[k] = "idle"
         /\ \A j \in Key \ {k} : api'[j] = api[j]
         /\ UNCHANGED api \/ mem[k] = api[k]
<1>1. /\ CtrlInv(Steps) /\ pc[k] = "unfinalize" /\ mem[k].live /\ mem[k].del
      /\ mem[k].rv <= cache[k].rv /\ mem[k].fin
      /\ mem[k].rv = api[k].rv => cache[k].del
      /\ "idle" \in Steps
  BY Typed, ReadDeletion DEF UploadInv, AtStep, EnsureNoFinalizer, DeleteSteps, Steps, Sane, Frozen
<1>2. Update(k, [mem[k] EXCEPT !.fin = FALSE], "idle")
  BY <1>1 DEF EnsureNoFinalizer, UpdateIfFinalizer
<1>3. /\ CtrlInv(Steps)' /\ KeepsOriginals /\ pc'[k] = "idle"
      /\ \/ UNCHANGED api
         \/ mem[k] = api[k] /\ api' = [api EXCEPT ![k] = Absent(api[k].rv + 1)]
  BY <1>1, <1>2, NoFinalizerStep
<1>4. AtStep(k)'
  BY <1>3 DEF AtStep, CreateSteps, DeleteSteps
<1>5. bosh' \in SUBSET Artifacts /\ inflight' \in SUBSET Artifacts
  BY DEF EnsureNoFinalizer, UploadInv
<1>6. UploadInv'
  BY <1>1, <1>2, <1>3, <1>4, <1>5, WriteConcernsOne, WorkerStep
<1>7. \A j \in Key \ {k} : api'[j] = api[j]
  BY <1>1, <1>3 DEF CtrlInv, CtrlTypeOK
<1>8. QED
  BY <1>3, <1>6, <1>7

\* An upload that goes on after its call has failed.
LEMMA AbandonUploadStep ==
  ASSUME UploadInv, NEW k \in Key, AbandonUpload(k)
  PROVE  UploadInv' /\ KeepsOriginals
<1>1. CtrlInv(Steps) /\ mem[k].orig # None /\ "idle" \in Steps
  BY DEF UploadInv, AtStep, AbandonUpload, CreateSteps, Steps
<1>2. Fail(k)
  BY DEF AbandonUpload
<1>3. CtrlInv(Steps)' /\ UNCHANGED api
  BY <1>1, <1>2, EnvironmentStep
<1>4. /\ pc'[k] = "idle" /\ UNCHANGED cache
      /\ \A j \in Key \ {k} : pc'[j] = pc[j] /\ mem'[j] = mem[j]
  BY <1>1, <1>2, Typed DEF Fail, Retry, Goto
<1>5. AtStep(k)'
  BY <1>4 DEF AtStep, CreateSteps, DeleteSteps
<1>6. bosh' \in SUBSET Artifacts /\ inflight' \in SUBSET Artifacts
  BY <1>1, Named DEF AbandonUpload, UploadInv
<1>7. QED
  BY <1>3, <1>4, <1>5, <1>6, WorkerStep DEF KeepsOriginals

LEMMA EnvironmentKeeps ==
  ASSUME UploadInv, NEW k \in Key, Environment(k)
  PROVE  UploadInv' /\ KeepsOriginals /\ KeepsClaims
<1>1. CtrlInv(Steps) /\ "idle" \in Steps
  BY DEF UploadInv, Steps
<1>2. bosh' \in SUBSET Artifacts /\ inflight' \in SUBSET Artifacts
  BY DEF Environment, UploadInv
<1>3. CASE UserCreate(k) \/ UserEdit(k) \/ UserDelete(k)
  <2>1. CtrlInv(Steps)' /\ KeepsOriginals /\ KeepsClaims
    BY <1>1, <1>3, UserStep
  <2>2. UNCHANGED <<cache, pc, mem>>
    BY <1>3 DEF UserCreate, UserEdit, UserDelete, UserWrite
  <2>3. QED
    BY <1>2, <2>1, <2>2 DEF UploadInv, AtStep
<1>4. CASE Watch(k) \/ Resync(k) \/ Fail(k) \/ Crash
  <2>1. CtrlInv(Steps)' /\ UNCHANGED api
    BY <1>1, <1>4, EnvironmentStep
  <2>2. \A j \in Key : \/ pc'[j] = "idle"
                       \/ /\ pc'[j] = pc[j] /\ mem'[j] = mem[j]
                          /\ cache'[j] = cache[j] \/ cache'[j] = api[j]
    BY <1>1, <1>4, Typed DEF Watch, Resync, Fail, Retry, Goto, Crash, CtrlInv, CtrlTypeOK
  <2>3. \A j \in Key : AtStep(j)'
    <3>1. TAKE j \in Key
    <3>2. AtStep(j) /\ mem[j].rv <= api[j].rv
      BY <1>1, Typed DEF UploadInv, Copy
    <3>3. CASE pc'[j] = "idle"
      BY <3>3 DEF AtStep, CreateSteps, DeleteSteps
    <3>4. CASE /\ pc'[j] = pc[j] /\ mem'[j] = mem[j]
               /\ cache'[j] = cache[j] \/ cache'[j] = api[j]
      BY <3>2, <3>4 DEF AtStep
    <3>5. QED
      BY <2>2, <3>3, <3>4
  <2>4. QED
    BY <1>2, <2>1, <2>3 DEF UploadInv, KeepsOriginals, KeepsClaims
<1>5. QED
  BY <1>3, <1>4 DEF Environment

-----------------------------------------------------------------------------
LEMMA UploadInit == Init => UploadInv
  BY CtrlInitInv DEF Init, CtrlInit, UploadInv, AtStep, Steps, CreateSteps, DeleteSteps

LEMMA UploadStep == UploadInv /\ [Next]_vars => UploadInv' /\ KeepsOriginals
<1> SUFFICES ASSUME UploadInv, [Next]_vars
             PROVE  UploadInv' /\ KeepsOriginals
  OBVIOUS
<1>1. ASSUME NEW k \in Key, Get(k)
      PROVE  UploadInv' /\ KeepsOriginals
  BY <1>1, GetStep
<1>2. ASSUME NEW k \in Key, Step(k)
      PROVE  UploadInv' /\ KeepsOriginals
  BY <1>2, SavePreparedStep, EnsureFinalizerStep, DirectorStep, SaveAvailableStep,
     EnsureNoFinalizerStep DEF Step
<1>3. ASSUME NEW k \in Key, AbandonUpload(k)
      PROVE  UploadInv' /\ KeepsOriginals
  BY <1>3, AbandonUploadStep
<1>4. ASSUME NEW k \in Key, Environment(k)
      PROVE  UploadInv' /\ KeepsOriginals
  BY <1>4, EnvironmentKeeps
<1>5. ASSUME NEW a \in Artifacts, TaskDone(a)
      PROVE  UploadInv' /\ KeepsOriginals
  BY <1>5 DEF TaskDone, ctrlVars, UploadInv, AtStep, KeepsOriginals, CtrlInv, CtrlTypeOK
<1>6. CASE UNCHANGED vars
  BY <1>6 DEF vars, ctrlVars, UploadInv, AtStep, KeepsOriginals, CtrlInv, CtrlTypeOK
<1>7. QED
  BY <1>1, <1>2, <1>3, <1>4, <1>5, <1>6 DEF Next

LEMMA UploadInvariant == Spec => []UploadInv
  BY UploadInit, UploadStep, PTL DEF Spec

\* Every variable keeps its type.
THEOREM Typing == Spec => []TypeOK
<1>1. UploadInv => TypeOK
  BY DEF UploadInv, CtrlInv, TypeOK, Steps
<1>2. QED
  BY <1>1, UploadInvariant, PTL

\* A finalizer is only ever stored on an object whose original spec is stored,
\* although the two are written by two calls that may fail in between.
THEOREM FinalizerFrozen == Spec => []FinalizerIsFrozen
<1>1. UploadInv => FinalizerIsFrozen
  <2> SUFFICES ASSUME UploadInv, NEW k \in Key, api[k].fin
               PROVE  api[k].live /\ api[k].orig # None
    BY DEF FinalizerIsFrozen
  <2>1. CtrlInv(Steps)
    BY DEF UploadInv
  <2>2. QED
    BY <2>1, Typed, NothingThere DEF Sane, Frozen
<1>2. QED
  BY <1>1, UploadInvariant, PTL

\* An outdated copy never replaces the original spec of an object.
THEOREM OriginalFrozen == Spec => OriginalIsFrozen
<1>1. UploadInv /\ [Next]_vars => [KeepsOriginals]_vars
  BY UploadStep
<1>2. QED
  BY <1>1, UploadInvariant, PTL DEF Spec, OriginalIsFrozen

-----------------------------------------------------------------------------
LEMMA ClaimedKeeps ==
  ASSUME UploadInv, UploadInv', KeepsClaims, bosh' \ Slow \subseteq bosh, NoOrphan
  PROVE  NoOrphan'
<1> SUFFICES ASSUME NEW a \in bosh' \ Slow PROVE \E k \in Key : Claims(k, a)'
  BY DEF NoOrphan
<1>1. PICK k \in Key : Claims(k, a)
  BY DEF NoOrphan
<1>2. api'[k].fin /\ api'[k].orig = api[k].orig
  BY <1>1 DEF Claims, KeepsClaims
<1>3. api'[k] \in Object /\ Sane(api'[k])
  BY DEF UploadInv, CtrlInv, CtrlTypeOK
<1>4. api'[k].live
  BY <1>2, <1>3, NothingThere
<1>5. Claims(k, a)'
  BY <1>1, <1>2, <1>4 DEF Claims
<1>6. QED
  BY <1>5

LEMMA ArtifactStep ==
  ASSUME Served = Declared, UploadInv, ArtifactInv, [Next]_vars
  PROVE  ArtifactInv'
<1>1. UploadInv' /\ CtrlInv(Steps) /\ CtrlInv(Steps)'
  BY UploadStep DEF UploadInv
<1>2. ASSUME UNCHANGED <<bosh, inflight>>, KeepsClaims,
             \A j \in Key : pc'[j] = "unfinalize" => pc[j] = "unfinalize" /\ mem'[j] = mem[j]
      PROVE  ArtifactInv'
  BY <1>1, <1>2, ClaimedKeeps DEF ArtifactInv
<1>3. ASSUME NEW k \in Key, Get(k)
      PROVE  ArtifactInv'
  <2>1. \A j \in Key : pc'[j] = "unfinalize" => pc[j] = "unfinalize" /\ mem'[j] = mem[j]
    BY <1>1, <1>3, Typed DEF Get, Goto
  <2>2. KeepsClaims /\ UNCHANGED <<bosh, inflight>>
    BY <1>3 DEF Get, KeepsClaims
  <2>3. QED
    BY <1>2, <2>1, <2>2
<1>4. ASSUME NEW k \in Key, SavePrepared(k) \/ EnsureFinalizer(k) \/ SaveAvailable(k)
      PROVE  ArtifactInv'
  <2>1. KeepsClaims
    BY <1>4, SavePreparedStep, EnsureFinalizerStep, SaveAvailableStep
  <2>2. UNCHANGED <<bosh, inflight>>
    BY <1>4 DEF SavePrepared, EnsureFinalizer, SaveAvailable
  <2>3. \A j \in Key : pc'[j] = "unfinalize" => pc[j] = "unfinalize" /\ mem'[j] = mem[j]
    BY <1>1, <1>4, Typed
       DEF SavePrepared, EnsureFinalizer, SaveAvailable, SaveIfPrepared, UpdateIfFinalizer,
           StatusUpdate, Update, Write, Retry, Goto
  <2>4. QED
    BY <1>2, <2>1, <2>2, <2>3
<1>5. ASSUME NEW k \in Key, Has(k)
      PROVE  ArtifactInv'
  <2>1. KeepsClaims /\ UNCHANGED <<bosh, inflight>>
    BY <1>5 DEF Has, KeepsClaims
  <2>2. \A j \in Key : pc'[j] = "unfinalize" => pc[j] = "unfinalize" /\ mem'[j] = mem[j]
    BY <1>1, <1>5, Typed DEF Has, Goto
  <2>3. QED
    BY <1>2, <2>1, <2>2
\* The artifact is claimed: the copy shows the finalizer, so it still is there.
<1>6. ASSUME NEW k \in Key, Upload(k)
      PROVE  ArtifactInv'
  <2> DEFINE a == Declared[mem[k].orig]
  <2>1. /\ mem[k].fin /\ ~ mem[k].del /\ mem[k].orig # None
        /\ pc[k] = "upload"
    BY <1>6 DEF UploadInv, AtStep, Upload, CreateSteps
  <2>2. api[k].fin /\ api[k].orig = mem[k].orig
    BY <1>1, <2>1, Typed DEF Copy
  <2>3. Claims(k, a)
    BY <1>1, <2>1, <2>2, Typed, NothingThere DEF Claims
  <2>4. bosh' = bosh \union {a} /\ UNCHANGED <<api, inflight>>
    BY <1>6 DEF Upload
  <2>5. NoOrphan'
    BY <2>3, <2>4 DEF NoOrphan, ArtifactInv, Claims
  <2>6. \A j \in Key : pc'[j] # "unfinalize"
    BY <1>1, <1>6, <2>1, Typed DEF CtrlInv, Upload, Goto
  <2>7. QED
    BY <2>4, <2>5, <2>6 DEF ArtifactInv
<1>7. ASSUME NEW k \in Key, HasToDelete(k) \/ Delete(k)
      PROVE  ArtifactInv'
  <2>1. /\ bosh' \subseteq bosh /\ UNCHANGED <<api, inflight>> /\ mem' = mem
    BY <1>7, DirectorStep DEF HasToDelete, Delete
  <2>2. NoOrphan'
    BY <1>1, <2>1, ClaimedKeeps DEF KeepsClaims, ArtifactInv
  <2>3. ASSUME NEW j \in Key, pc'[j] = "unfinalize"
        PROVE  Declared[mem'[j].orig] \notin bosh' \ Slow
    BY <1>1, <1>7, <2>1, <2>3, Typed DEF HasToDelete, Delete, Goto, ArtifactInv
  <2>4. QED
    BY <2>1, <2>2, <2>3 DEF ArtifactInv
\* What the object claimed is gone from the Director, and the others keep theirs.
<1>8. ASSUME NEW k \in Key, EnsureNoFinalizer(k)
      PROVE  ArtifactInv'
  <2>1. /\ pc[k] = "unfinalize" /\ UNCHANGED <<bosh, inflight>>
        /\ \A j \in Key \ {k} : api'[j] = api[j]
        /\ UNCHANGED api \/ mem[k] = api[k]
    BY <1>8, EnsureNoFinalizerStep DEF EnsureNoFinalizer
  <2>2. \A j \in Key : pc'[j] # "unfinalize"
    <3>1. \A j \in Key \ {k} : pc[j] = "idle"
      BY <1>1, <2>1 DEF CtrlInv
    <3>2. \A j \in Key \ {k} : pc'[j] = pc[j]
      BY <1>1, <1>8, Typed DEF EnsureNoFinalizer, UpdateIfFinalizer, Update, Write, Retry, Goto
    <3>3. pc'[k] = "idle"
      BY <1>8, EnsureNoFinalizerStep
    <3>4. QED
      BY <3>1, <3>2, <3>3
  <2>3. NoOrphan'
    <3>1. CASE UNCHANGED api
      BY <2>1, <3>1 DEF NoOrphan, ArtifactInv, Claims
    <3>2. CASE mem[k] = api[k]
      <4>1. \A a \in bosh \ Slow : ~ Claims(k, a)
        BY <2>1, <3>2 DEF ArtifactInv, Claims
      <4>2. \A a \in bosh \ Slow : \E j \in Key \ {k} : Claims(j, a)
        BY <4>1 DEF NoOrphan, ArtifactInv
      <4>3. QED
        BY <2>1, <4>2 DEF NoOrphan, Claims
    <3>3. QED
      BY <2>1, <3>1, <3>2
  <2>4. QED
    BY <2>1, <2>2, <2>3 DEF ArtifactInv
<1>9. ASSUME NEW k \in Key, AbandonUpload(k)
      PROVE  ArtifactInv'
  <2>1. Fail(k) /\ UNCHANGED bosh /\ inflight' \subseteq Slow
    BY <1>9 DEF AbandonUpload, ArtifactInv
  <2>2. UNCHANGED api
    BY <2>1 DEF Fail
  <2>3. \A j \in Key : pc'[j] = "unfinalize" => pc[j] = "unfinalize" /\ mem'[j] = mem[j]
    BY <1>1, <2>1, Typed DEF Fail, Retry, Goto
  <2>4. NoOrphan'
    BY <2>1, <2>2 DEF ArtifactInv, NoOrphan, Claims
  <2>5. QED
    BY <2>1, <2>3, <2>4 DEF ArtifactInv
<1>10. ASSUME NEW k \in Key, Environment(k)
       PROVE  ArtifactInv'
  <2>1. KeepsClaims /\ UNCHANGED <<bosh, inflight>>
    BY <1>10, EnvironmentKeeps DEF Environment
  <2>2. \A j \in Key : pc'[j] = "unfinalize" => pc[j] = "unfinalize" /\ mem'[j] = mem[j]
    BY <1>1, <1>10, Typed
       DEF Environment, UserCreate, UserEdit, UserDelete, UserWrite, Watch, Resync, Fail,
           Retry, Goto, Crash
  <2>3. QED
    BY <1>2, <2>1, <2>2
<1>11. ASSUME NEW a \in Artifacts, TaskDone(a)
       PROVE  ArtifactInv'
  <2>1. UNCHANGED ctrlVars /\ bosh' \ Slow = bosh \ Slow /\ inflight' \subseteq Slow
    BY <1>11 DEF TaskDone, ArtifactInv
  <2>2. QED
    BY <2>1 DEF ctrlVars, ArtifactInv, NoOrphan, Claims
<1>12. CASE UNCHANGED vars
  BY <1>12 DEF vars, ctrlVars, ArtifactInv, NoOrphan, Claims
<1>13. QED
  BY <1>3, <1>4, <1>5, <1>6, <1>7, <1>8, <1>9, <1>10, <1>11, <1>12 DEF Next, Step

\* Every artifact on the Director is claimed by a custom resource, at every
\* point of every interleaving of users, worker, errors and crashes, when the
\* urls serve what the specs name, but for those whose upload task may outlive
\* its call.
THEOREM NoOrphans ==
  ASSUME Served = Declared
  PROVE  Spec => []NoOrphan
<1>1. Init => ArtifactInv
  BY DEF Init, CtrlInit, ArtifactInv, NoOrphan
<1>2. UploadInv /\ ArtifactInv /\ [Next]_vars => ArtifactInv'
  BY ArtifactStep
<1>3. ArtifactInv => NoOrphan
  BY DEF ArtifactInv
<1>4. QED
  BY <1>1, <1>2, <1>3, UploadInvariant, PTL DEF Spec

-----------------------------------------------------------------------------
(* What follows keeps the promise of Lifecycle, if every url serves the     *)
(* artifact that the spec names and no two owners name the same one; and    *)
(* under the same assumptions what shows available is there and is deleted  *)
(* on demand.  No change of a spec is lost, whatever they name.             *)

\* No two resources ever name the same artifact.
Disjoint ==
    \A j, k \in Key : \A s \in SpecsOf[j], t \in SpecsOf[k] :
        Declared[s] = Declared[t] => j = k

Exts == [k \in Key |-> \E s \in SpecsOf[k] : Served[s] \in bosh \ Slow]

\* What shows available is there, and so is what is about to be shown.
PresentInv ==
    /\ AvailableIsPresent
    /\ \A k \in Key : pc[k] = "save" => Declared[mem[k].orig] \in bosh

-----------------------------------------------------------------------------
\* What each step of the worker does to the phases.
LEMMA GetPhase ==
  ASSUME UploadInv, PhaseInv(SpecsOf), NEW k \in Key, Get(k)
  PROVE  PhaseInv(SpecsOf)' /\ Phases' = Phases
<1>1. PICK step : Goto(k, step, cache[k]) /\ UNCHANGED <<api, cache>>
  BY DEF Get
<1>2. QED
  BY <1>1, GotoPhase DEF UploadInv

LEMMA DirectorPhase ==
  ASSUME UploadInv, PhaseInv(SpecsOf), NEW k \in Key,
         Has(k) \/ Upload(k) \/ HasToDelete(k) \/ Delete(k)
  PROVE  PhaseInv(SpecsOf)' /\ Phases' = Phases
<1>1. PICK step : Goto(k, step, mem[k]) /\ UNCHANGED <<api, cache>>
  BY DEF Has, Upload, HasToDelete, Delete
<1>2. pc[k] # "idle"
  BY DEF Has, Upload, HasToDelete, Delete
<1>3. QED
  BY <1>1, <1>2, GotoPhase DEF UploadInv

LEMMA SavePreparedPhase ==
  ASSUME UploadInv, PhaseInv(SpecsOf), NEW k \in Key, SavePrepared(k)
  PROVE  PhaseInv(SpecsOf)' /\ Phases' = Phases
<1>1. pc[k] # "idle" /\ SaveIfPrepared(k, "finalize")
  BY DEF SavePrepared
<1>2. QED
  BY <1>1, PreparedPhase DEF UploadInv

LEMMA EnsureFinalizerPhase ==
  ASSUME UploadInv, PhaseInv(SpecsOf), NEW k \in Key, EnsureFinalizer(k)
  PROVE  /\ PhaseInv(SpecsOf)'
         /\ \/ Phases' = Phases
            \/ Phases[k] = "declared" /\ Phases' = [Phases EXCEPT ![k] = "claimed"]
<1>1. pc[k] = "finalize" /\ UpdateIfFinalizer(k, TRUE, "has")
  BY DEF EnsureFinalizer
<1>2. mem[k].live /\ ~ mem[k].del
  BY <1>1 DEF UploadInv, AtStep, CreateSteps
<1>3. QED
  BY <1>1, <1>2, ClaimPhase DEF UploadInv

LEMMA SaveAvailablePhase ==
  ASSUME UploadInv, PhaseInv(SpecsOf), NEW k \in Key, SaveAvailable(k)
  PROVE  PhaseInv(SpecsOf)' /\ Phases' = Phases
<1> DEFINE m == [mem[k] EXCEPT !.avail = TRUE]
<1>1. pc[k] = "save" /\ StatusUpdate(k, m, "idle") /\ CtrlInv(Steps)
  BY DEF SaveAvailable, UploadInv
<1>2. mem[k].fin
  BY <1>1 DEF UploadInv, AtStep
<1>3. m.rv = mem[k].rv /\ m.orig = mem[k].orig
  BY <1>1, Typed DEF Object
<1> HIDE DEF m
<1>4. QED
  BY <1>1, <1>2, <1>3, StatusPhase

LEMMA EnsureNoFinalizerPhase ==
  ASSUME UploadInv, PhaseInv(SpecsOf), NEW k \in Key, EnsureNoFinalizer(k)
  PROVE  /\ PhaseInv(SpecsOf)'
         /\ \/ UNCHANGED api /\ Phases' = Phases
            \/ /\ mem[k] = api[k] /\ ~ api'[k].live
               /\ Phases[k] = "terminating" /\ Phases' = [Phases EXCEPT ![k] = "none"]
<1>1. pc[k] = "unfinalize" /\ UpdateIfFinalizer(k, FALSE, "idle") /\ CtrlInv(Steps)
  BY DEF EnsureNoFinalizer, UploadInv
<1>2. /\ mem[k].live /\ mem[k].del /\ "idle" \in Steps
      /\ mem[k].rv = api[k].rv => cache[k].del
  BY <1>1, ReadDeletion DEF UploadInv, AtStep, DeleteSteps, Steps
<1>3. QED
  BY <1>1, <1>2, ReleasePhase

LEMMA AbandonUploadPhase ==
  ASSUME UploadInv, PhaseInv(SpecsOf), NEW k \in Key, AbandonUpload(k)
  PROVE  PhaseInv(SpecsOf)' /\ Phases' = Phases
  BY EnvironmentPhase DEF AbandonUpload, UploadInv

LEMMA EnvironmentMoves ==
  ASSUME UploadInv, PhaseInv(SpecsOf), NEW k \in Key, Environment(k)
  PROVE  /\ PhaseInv(SpecsOf)'
         /\ \/ Phases' = Phases
            \/ \E m \in OwnerMoves : Phases[k] = m[1] /\ Phases' = [Phases EXCEPT ![k] = m[2]]
  BY EnvironmentPhase, UserPhase DEF Environment, UploadInv

LEMMA UntouchedPhase ==
  ASSUME PhaseInv(SpecsOf), UNCHANGED ctrlVars
  PROVE  PhaseInv(SpecsOf)' /\ Phases' = Phases
  BY SamePhases DEF ctrlVars, PhaseInv, Owned, Deletion

LEMMA PhaseStep == UploadInv /\ PhaseInv(SpecsOf) /\ [Next]_vars => PhaseInv(SpecsOf)'
<1> SUFFICES ASSUME UploadInv, PhaseInv(SpecsOf), [Next]_vars
             PROVE  PhaseInv(SpecsOf)'
  OBVIOUS
<1>1. ASSUME NEW k \in Key, Get(k) \/ AbandonUpload(k) \/ Environment(k)
      PROVE  PhaseInv(SpecsOf)'
  BY <1>1, GetPhase, AbandonUploadPhase, EnvironmentMoves
<1>2. ASSUME NEW k \in Key, Step(k)
      PROVE  PhaseInv(SpecsOf)'
  BY <1>2, SavePreparedPhase, EnsureFinalizerPhase, DirectorPhase, SaveAvailablePhase,
     EnsureNoFinalizerPhase DEF Step
<1>3. ASSUME NEW a \in Artifacts, TaskDone(a)
      PROVE  PhaseInv(SpecsOf)'
  BY <1>3, UntouchedPhase DEF TaskDone
<1>4. CASE UNCHANGED vars
  BY <1>4, UntouchedPhase DEF vars
<1>5. QED
  BY <1>1, <1>2, <1>3, <1>4 DEF Next

-----------------------------------------------------------------------------
\* An artifact that a spec of an owner names is claimed by the owner's resource.
LEMMA OwnArtifact ==
  ASSUME Disjoint, UploadInv, PhaseInv(SpecsOf), NoOrphan,
         NEW k \in Key, NEW s \in SpecsOf[k], Declared[s] \in bosh \ Slow
  PROVE  Claims(k, Declared[s])
<1>1. PICK j \in Key : Claims(j, Declared[s])
  BY DEF NoOrphan
<1>2. api[j].orig \in SpecsOf[j] /\ Declared[api[j].orig] = Declared[s]
  BY <1>1 DEF Claims, PhaseInv, Owned
<1>3. j = k
  BY <1>2 DEF Disjoint
<1>4. QED
  BY <1>1, <1>3

\* The steps that change what the Director has.
LEMMA UploadedFor ==
  ASSUME UploadInv, PhaseInv(SpecsOf), NEW k \in Key, Upload(k)
  PROVE  /\ mem[k].orig \in SpecsOf[k] /\ mem[k].fin /\ ~ mem[k].del
         /\ api[k].fin /\ api[k].live /\ api[k].orig = mem[k].orig
         /\ bosh' = bosh \union {Served[mem[k].orig]}
<1>1. /\ mem[k].fin /\ ~ mem[k].del /\ mem[k].orig # None /\ CtrlInv(Steps)
  BY DEF UploadInv, AtStep, Upload, CreateSteps
<1>2. api[k].fin /\ api[k].orig = mem[k].orig
  BY <1>1, Typed DEF Copy
<1>3. api[k].live
  BY <1>1, <1>2, Typed, NothingThere
<1>4. QED
  BY <1>1, <1>2, <1>3 DEF Upload, PhaseInv, Owned

LEMMA DeletedFor ==
  ASSUME UploadInv, PhaseInv(SpecsOf), NEW k \in Key, Delete(k)
  PROVE  /\ mem[k].orig \in SpecsOf[k] /\ mem[k].del
         /\ api[k].fin => api[k].del
         /\ bosh' = bosh \ {Declared[mem[k].orig]}
<1>1. mem[k].del /\ CtrlInv(Steps)
  BY DEF UploadInv, AtStep, Delete, DeleteSteps
<1>2. mem[k].orig # None
  BY <1>1, Typed DEF Sane, Frozen
<1>3. QED
  BY <1>1, <1>2 DEF Delete, PhaseInv, Owned, Deletion

-----------------------------------------------------------------------------
LEMMA PresentStep ==
  ASSUME Served = Declared, Disjoint, UploadInv, PhaseInv(SpecsOf), PresentInv, [Next]_vars
  PROVE  PresentInv'
<1>1. CtrlInv(Steps)
  BY DEF UploadInv
<1> DEFINE shown(k) == api[k].live /\ api[k].avail /\ ~ api[k].del
\* A step that takes nothing away and makes nothing available.
<1>2. ASSUME bosh \subseteq bosh',
             \A k \in Key : shown(k)' => shown(k) /\ api'[k].orig = api[k].orig,
             \A k \in Key : pc'[k] = "save" => pc[k] = "save" /\ mem'[k].orig = mem[k].orig
      PROVE  PresentInv'
  BY <1>2 DEF PresentInv, AvailableIsPresent
<1>3. ASSUME NEW k \in Key, Get(k) \/ HasToDelete(k) \/ AbandonUpload(k)
      PROVE  PresentInv'
  <2>1. UNCHANGED <<api, bosh>>
    BY <1>3 DEF Get, HasToDelete, AbandonUpload, Fail
  <2>2. \A j \in Key : pc'[j] = "save" => pc[j] = "save" /\ mem'[j].orig = mem[j].orig
    BY <1>1, <1>3, Typed DEF Get, HasToDelete, AbandonUpload, Fail, Retry, Goto
  <2>3. QED
    BY <1>2, <2>1, <2>2
<1>4. ASSUME NEW k \in Key, SavePrepared(k)
      PROVE  PresentInv'
  <2> DEFINE m == PrepareToSave(mem[k])
  <2>1. /\ m.avail = mem[k].avail /\ m.rv = mem[k].rv
        /\ mem[k].orig # None => m.orig = mem[k].orig
    <3>1. mem[k] \in Object
      BY <1>1, Typed
    <3>2. QED
      BY <3>1 DEF PrepareToSave, Object
  <2>2. UNCHANGED bosh /\ pc[k] = "prepare"
    BY <1>4 DEF SavePrepared
  <2> HIDE DEF m
  <2>3. CASE StatusUpdate(k, m, "finalize")
    <3>1. /\ \A j \in Key \ {k} : api'[j] = api[j] /\ pc'[j] = pc[j] /\ mem'[j] = mem[j]
          /\ api'[k].live = api[k].live /\ api'[k].del = api[k].del
          /\ \/ api'[k] = api[k] /\ pc'[k] = "idle"
             \/ /\ m.rv = api[k].rv /\ api'[k].orig = m.orig /\ api'[k].avail = m.avail
                /\ pc'[k] = "finalize"
      BY <1>1, <2>3, StatusFields
    <3>2. m.rv = api[k].rv => mem[k] = api[k]
      BY <1>1, <2>1, WrittenIsRead
    <3>3. api[k].avail => api[k].orig # None
      BY <1>1, Typed DEF PhaseInv, Owned, Sane, Frozen
    <3>4. shown(k)' => shown(k) /\ api'[k].orig = api[k].orig
      BY <2>1, <3>1, <3>2, <3>3
    <3>5. QED
      BY <1>2, <2>2, <3>1, <3>4
  <2>4. CASE Goto(k, "finalize", m) /\ UNCHANGED <<api, cache, queue, faults>>
    BY <1>1, <1>2, <2>2, <2>4, Typed DEF Goto
  <2>5. QED
    BY <1>4, <2>3, <2>4 DEF SavePrepared, SaveIfPrepared, m
<1>5. ASSUME NEW k \in Key, EnsureFinalizer(k)
      PROVE  PresentInv'
  <2>1. UNCHANGED bosh /\ pc[k] = "finalize"
    BY <1>5 DEF EnsureFinalizer
  <2>2. CASE Update(k, [mem[k] EXCEPT !.fin = TRUE], "has")
    <3>1. /\ \A j \in Key \ {k} : api'[j] = api[j] /\ pc'[j] = pc[j] /\ mem'[j] = mem[j]
          /\ \/ api'[k] = api[k] /\ pc'[k] = "idle"
             \/ /\ api'[k].live = api[k].live /\ api'[k].del = api[k].del
                /\ api'[k].orig = api[k].orig /\ api'[k].avail = api[k].avail
                /\ pc'[k] = "has"
      BY <1>1, <2>2, FinalizerFields
    <3>2. QED
      BY <1>2, <2>1, <3>1
  <2>3. CASE Goto(k, "has", mem[k]) /\ UNCHANGED <<api, cache, queue, faults>>
    BY <1>1, <1>2, <2>1, <2>3, Typed DEF Goto
  <2>4. QED
    BY <1>5, <2>2, <2>3 DEF EnsureFinalizer, UpdateIfFinalizer
<1>6. ASSUME NEW k \in Key, Has(k) \/ Upload(k)
      PROVE  PresentInv'
  <2>1. /\ UNCHANGED api /\ bosh \subseteq bosh' /\ mem' = mem
        /\ pc'[k] = "save" => Declared[mem[k].orig] \in bosh'
        /\ \A j \in Key \ {k} : pc'[j] = pc[j]
    BY <1>1, <1>6, Typed, DirectorStep DEF Has, Upload, Goto
  <2>2. QED
    BY <2>1 DEF PresentInv, AvailableIsPresent
<1>7. ASSUME NEW k \in Key, SaveAvailable(k)
      PROVE  PresentInv'
  <2> DEFINE m == [mem[k] EXCEPT !.avail = TRUE]
  <2>1. /\ UNCHANGED bosh /\ pc[k] = "save" /\ StatusUpdate(k, m, "idle")
        /\ m.orig = mem[k].orig
    BY <1>1, <1>7, Typed DEF SaveAvailable, Object
  <2> HIDE DEF m
  <2>2. /\ \A j \in Key \ {k} : api'[j] = api[j] /\ pc'[j] = pc[j] /\ mem'[j] = mem[j]
        /\ pc'[k] = "idle" /\ (api'[k] = api[k] \/ api'[k].orig = m.orig)
    BY <1>1, <2>1, StatusFields
  <2>3. QED
    BY <2>1, <2>2 DEF PresentInv, AvailableIsPresent
\* What goes is what the resource, which is being deleted, named first.
<1>8. ASSUME NEW k \in Key, Delete(k)
      PROVE  PresentInv'
  <2>1. /\ mem[k].orig \in SpecsOf[k] /\ (api[k].fin => api[k].del)
        /\ bosh' = bosh \ {Declared[mem[k].orig]}
    BY <1>8, DeletedFor
  <2>2. UNCHANGED api /\ pc[k] = "delete"
    BY <1>8 DEF Delete
  <2>3. ASSUME NEW j \in Key, shown(j)
        PROVE  Declared[api[j].orig] \in bosh'
    <3>1. api[j].fin /\ api[j].orig \in SpecsOf[j] /\ Declared[api[j].orig] \in bosh
      BY <1>1, <2>3, Typed DEF PhaseInv, Owned, Sane, Frozen, PresentInv, AvailableIsPresent
    <3>2. j # k
      BY <2>1, <2>3, <3>1
    <3>3. QED
      BY <2>1, <3>1, <3>2 DEF Disjoint
  <2>4. \A j \in Key : pc'[j] # "save"
    <3>1. \A j \in Key \ {k} : pc[j] = "idle" /\ pc'[j] = pc[j]
      BY <1>1, <1>8, <2>2, Typed DEF CtrlInv, Delete, Goto
    <3>2. pc'[k] = "unfinalize"
      BY <1>1, <1>8, Typed DEF Delete, Goto
    <3>3. QED
      BY <3>1, <3>2
  <2>5. QED
    BY <2>2, <2>3, <2>4 DEF PresentInv, AvailableIsPresent
<1>9. ASSUME NEW k \in Key, EnsureNoFinalizer(k)
      PROVE  PresentInv'
  <2>1. /\ UNCHANGED bosh /\ pc[k] = "unfinalize" /\ pc'[k] = "idle"
        /\ \A j \in Key \ {k} : api'[j] = api[j]
    BY <1>9, EnsureNoFinalizerStep DEF EnsureNoFinalizer
  <2>2. \A j \in Key \ {k} : pc'[j] = pc[j] /\ mem'[j] = mem[j]
    BY <1>1, <1>9, Typed DEF EnsureNoFinalizer, UpdateIfFinalizer, Update, Write, Retry, Goto
  <2>3. api'[k] = api[k] \/ ~ api'[k].live
    BY <1>9, EnsureNoFinalizerPhase
  <2>4. QED
    BY <1>2, <2>1, <2>2, <2>3
<1>10. ASSUME NEW k \in Key, Environment(k)
       PROVE  PresentInv'
  <2>1. UNCHANGED bosh
    BY <1>10 DEF Environment
  <2>2. \A j \in Key : pc'[j] = "save" => pc[j] = "save" /\ mem'[j].orig = mem[j].orig
    BY <1>1, <1>10, Typed
       DEF Environment, UserCreate, UserEdit, UserDelete, UserWrite, Watch, Resync, Fail,
           Retry, Goto, Crash
  <2>3. CASE UserCreate(k) \/ UserEdit(k) \/ UserDelete(k)
    <3>2. api \in [Key -> Object]
      BY <1>1, ObjectTypes
    <3>1. \A j \in Key \ {k} : api'[j] = api[j]
      BY <2>3, <3>2 DEF UserCreate, UserEdit, UserDelete, UserWrite
    <3>3. CASE UserCreate(k)
      <4>1. ~ api'[k].avail
        BY <3>2, <3>3 DEF UserCreate, UserWrite, Absent
      <4>2. QED
        BY <1>2, <2>1, <2>2, <3>1, <4>1
    <3>4. CASE UserEdit(k)
      <4>1. /\ api'[k].live = api[k].live /\ api'[k].del = api[k].del
            /\ api'[k].avail = api[k].avail /\ api'[k].orig = api[k].orig
        BY <3>2, <3>4 DEF UserEdit, UserWrite, Object
      <4>2. QED
        BY <1>2, <2>1, <2>2, <3>1, <4>1
    <3>5. CASE UserDelete(k)
      <4>1. api'[k].del \/ ~ api'[k].live
        BY <3>2, <3>5 DEF UserDelete, UserWrite, Absent, Object
      <4>2. QED
        BY <1>2, <2>1, <2>2, <3>1, <4>1
    <3>6. QED
      BY <2>3, <3>3, <3>4, <3>5
  <2>4. CASE Watch(k) \/ Resync(k) \/ Fail(k) \/ Crash
    <3>1. UNCHANGED api
      BY <2>4 DEF Watch, Resync, Fail, Crash
    <3>2. QED
      BY <1>2, <2>1, <2>2, <3>1
  <2>5. QED
    BY <1>10, <2>3, <2>4 DEF Environment
<1>11. ASSUME NEW a \in Artifacts, TaskDone(a)
       PROVE  PresentInv'
  BY <1>2, <1>11 DEF TaskDone, ctrlVars
<1>12. CASE UNCHANGED vars
  BY <1>2, <1>12 DEF vars, ctrlVars
<1>13. QED
  BY <1>3, <1>4, <1>5, <1>6, <1>7, <1>8, <1>9, <1>10, <1>11, <1>12 DEF Next, Step

\* What shows available and is not being deleted is on the Director, if the
\* urls serve what the specs name and no two owners name the same artifact.
THEOREM AvailablePresent ==
  ASSUME Served = Declared, Disjoint
  PROVE  Spec => []AvailableIsPresent
<1>1. Init => PhaseInv(SpecsOf) /\ PresentInv
  BY PhaseInit, AbsentOwned DEF Init, CtrlInit, PresentInv, AvailableIsPresent
<1>2. UploadInv /\ PhaseInv(SpecsOf) /\ [Next]_vars => PhaseInv(SpecsOf)'
  BY PhaseStep
<1>3. UploadInv /\ PhaseInv(SpecsOf) /\ PresentInv /\ [Next]_vars => PresentInv'
  BY PresentStep
<1>4. PresentInv => AvailableIsPresent
  BY DEF PresentInv
<1>5. QED
  BY <1>1, <1>2, <1>3, <1>4, UploadInvariant, PTL DEF Spec

-----------------------------------------------------------------------------
\* What is lost was claimed by a resource that its owner has deleted.
LEMMA LossStep ==
  ASSUME Served = Declared, Disjoint, UploadInv, PhaseInv(SpecsOf), NoOrphan, [Next]_vars,
         NEW a \in bosh \ (bosh' \union Slow)
  PROVE  \E k \in Key : Claims(k, a) /\ api[k].del
<1>1. ASSUME NEW k \in Key, Get(k) \/ Step(k) \/ AbandonUpload(k) \/ Environment(k), ~ Delete(k)
      PROVE  bosh \subseteq bosh'
  BY <1>1 DEF Get, Step, SavePrepared, EnsureFinalizer, Has, Upload, SaveAvailable,
     HasToDelete, EnsureNoFinalizer, AbandonUpload, Environment
<1>2. ASSUME NEW b \in Artifacts, TaskDone(b)
      PROVE  bosh \subseteq bosh'
  BY <1>2 DEF TaskDone
<1>3. PICK k \in Key : Delete(k)
  BY <1>1, <1>2 DEF Next, vars
<1>4. /\ mem[k].orig \in SpecsOf[k] /\ (api[k].fin => api[k].del)
      /\ a = Declared[mem[k].orig]
  BY <1>3, DeletedFor
<1>5. Claims(k, a)
  BY <1>4, OwnArtifact
<1>6. QED
  BY <1>4, <1>5 DEF Claims

\* The Director loses an artifact only on behalf of a resource that names it
\* and is being deleted, under the same assumptions.
THEOREM DeletedOnlyOnDemand ==
  ASSUME Served = Declared, Disjoint
  PROVE  Spec => DeletedOnDemand
<1>1. Init => PhaseInv(SpecsOf)
  BY PhaseInit DEF Init
<1>2. UploadInv /\ PhaseInv(SpecsOf) /\ [Next]_vars => PhaseInv(SpecsOf)'
  BY PhaseStep
<1>3. UploadInv /\ PhaseInv(SpecsOf) /\ NoOrphan /\ [Next]_vars
         => [\A a \in bosh \ (bosh' \union Slow) :
                \E k \in Key : Claims(k, a) /\ api[k].del]_vars
  BY LossStep
<1>4. QED
  BY <1>1, <1>2, <1>3, UploadInvariant, NoOrphans, PTL DEF Spec, DeletedOnDemand

-----------------------------------------------------------------------------
(* The refinement.                                                          *)

\* A step that changes one phase and nothing on the Director.
LEMMA PromiseMove ==
  ASSUME NEW k \in Key, NEW from, NEW to, Phases[k] = from,
         Phases' = [Phases EXCEPT ![k] = to], Exts' = Exts
  PROVE  Promise!Move(k, from, to)
  BY DEF Promise!Move, Phases, Exts

LEMMA PromiseStutter ==
  ASSUME Phases' = Phases, Exts' = Exts
  PROVE  UNCHANGED Promise!vars
  BY DEF Promise!vars, Phases, Exts

LEMMA SameExts ==
  ASSUME bosh' \ Slow = bosh \ Slow
  PROVE  Exts' = Exts
  BY DEF Exts

\* An owner whose artifact is there has claimed it.
LEMMA ExtIsClaimed ==
  ASSUME Served = Declared, Disjoint, UploadInv, PhaseInv(SpecsOf), NoOrphan,
         NEW k \in Key, Exts[k]
  PROVE  \E a \in bosh \ Slow : Claims(k, a)
  BY OwnArtifact DEF Exts

LEMMA PromiseStep ==
  ASSUME Served = Declared, Disjoint, UploadInv, PhaseInv(SpecsOf), ArtifactInv, [Next]_vars
  PROVE  [Promise!Next]_(Promise!vars)
<1>1. CtrlInv(Steps)
  BY DEF UploadInv
<1>2. ASSUME NEW k \in Key,
             Get(k) \/ SavePrepared(k) \/ Has(k) \/ SaveAvailable(k) \/ HasToDelete(k)
                \/ AbandonUpload(k)
      PROVE  UNCHANGED Promise!vars
  <2>1. UNCHANGED bosh
    BY <1>2 DEF Get, SavePrepared, Has, SaveAvailable, HasToDelete, AbandonUpload
  <2>2. Phases' = Phases
    BY <1>2, GetPhase, SavePreparedPhase, DirectorPhase, SaveAvailablePhase, AbandonUploadPhase
  <2>3. QED
    BY <2>1, <2>2, SameExts, PromiseStutter
<1>3. ASSUME NEW k \in Key, EnsureFinalizer(k)
      PROVE  Promise!Next \/ UNCHANGED Promise!vars
  <2>1. Exts' = Exts
    BY <1>3, SameExts DEF EnsureFinalizer
  <2>2. \/ Phases' = Phases
        \/ Phases[k] = "declared" /\ Phases' = [Phases EXCEPT ![k] = "claimed"]
    BY <1>3, EnsureFinalizerPhase
  <2>3. Phases' = Phases \/ Promise!Claim(k)
    BY <2>1, <2>2, PromiseMove DEF Promise!Claim
  <2>4. QED
    BY <2>1, <2>3, PromiseStutter DEF Promise!Next
\* The upload is made for a resource that carries the finalizer.
<1>4. ASSUME NEW k \in Key, Upload(k)
      PROVE  Promise!Next \/ UNCHANGED Promise!vars
  <2>1. /\ mem[k].orig \in SpecsOf[k] /\ api[k].fin /\ api[k].live
        /\ bosh' = bosh \union {Served[mem[k].orig]}
    BY <1>4, UploadedFor
  <2>2. Phases' = Phases
    BY <1>4, DirectorPhase
  <2>3. CASE Served[mem[k].orig] \in Slow
    BY <2>1, <2>2, <2>3, SameExts, PromiseStutter
  <2>4. CASE Served[mem[k].orig] \notin Slow
    <3>1. Exts' = [Exts EXCEPT ![k] = TRUE]
      <4>1. \A j \in Key \ {k} : \A s \in SpecsOf[j] : Served[s] # Served[mem[k].orig]
        BY <2>1 DEF Disjoint
      <4>2. QED
        BY <2>1, <2>4, <4>1 DEF Exts
    <3>2. Phases[k] \in {"claimed", "terminating"}
      BY <2>1 DEF Phases, Phase
    <3>3. Promise!Provision(k)
      BY <2>2, <3>1, <3>2 DEF Promise!Provision, Phases, Exts
    <3>4. QED
      BY <3>3 DEF Promise!Next
  <2>5. QED
    BY <2>3, <2>4
\* The deletion is made for a resource that its owner has deleted.
<1>5. ASSUME NEW k \in Key, Delete(k)
      PROVE  Promise!Next \/ UNCHANGED Promise!vars
  <2>1. /\ mem[k].orig \in SpecsOf[k] /\ (api[k].fin => api[k].del)
        /\ bosh' = bosh \ {Declared[mem[k].orig]}
    BY <1>5, DeletedFor
  <2>2. Phases' = Phases
    BY <1>5, DirectorPhase
  <2>3. \A j \in Key \ {k} : Exts'[j] = Exts[j]
    <3>1. \A j \in Key \ {k} : \A s \in SpecsOf[j] : Served[s] # Declared[mem[k].orig]
      BY <2>1 DEF Disjoint
    <3>2. QED
      BY <2>1, <3>1 DEF Exts
  <2>4. CASE Exts'[k] = Exts[k]
    <3>1. Exts' = Exts
      BY <2>3, <2>4 DEF Exts
    <3>2. QED
      BY <2>2, <3>1, PromiseStutter
  <2>5. CASE Exts'[k] # Exts[k]
    <3>1. Exts[k] /\ ~ Exts'[k]
      BY <2>1, <2>5 DEF Exts
    <3>2. PICK a \in bosh \ Slow : Claims(k, a)
      BY <3>1, ExtIsClaimed DEF ArtifactInv
    <3>3. Phases[k] = "terminating"
      BY <2>1, <3>2 DEF Phases, Phase, Claims
    <3>4. Exts' = [Exts EXCEPT ![k] = FALSE]
      BY <2>3, <3>1 DEF Exts
    <3>5. Promise!Deprovision(k)
      BY <2>2, <3>3, <3>4 DEF Promise!Deprovision, Phases, Exts
    <3>6. QED
      BY <3>5 DEF Promise!Next
  <2>6. QED
    BY <2>4, <2>5
\* Nothing that the owner named is left when the finalizer goes.
<1>6. ASSUME NEW k \in Key, EnsureNoFinalizer(k)
      PROVE  Promise!Next \/ UNCHANGED Promise!vars
  <2>1. Exts' = Exts /\ pc[k] = "unfinalize"
    BY <1>6, SameExts DEF EnsureNoFinalizer
  <2>2. CASE Phases' = Phases
    BY <2>1, <2>2, PromiseStutter
  <2>3. CASE /\ mem[k] = api[k]
             /\ Phases[k] = "terminating" /\ Phases' = [Phases EXCEPT ![k] = "none"]
    <3>1. ~ Exts[k]
      <4>1. \A a \in bosh \ Slow : ~ Claims(k, a)
        BY <2>1, <2>3 DEF ArtifactInv, Claims
      <4>2. QED
        BY <4>1, ExtIsClaimed DEF ArtifactInv
    <3>2. Promise!Finish(k)
      BY <2>1, <2>3, <3>1, PromiseMove DEF Promise!Finish, Exts
    <3>3. QED
      BY <3>2 DEF Promise!Next
  <2>4. QED
    BY <1>6, <2>2, <2>3, EnsureNoFinalizerPhase
<1>7. ASSUME NEW k \in Key, Environment(k)
      PROVE  Promise!Next \/ UNCHANGED Promise!vars
  <2>1. Exts' = Exts
    BY <1>7, SameExts DEF Environment
  <2>2. CASE Phases' = Phases
    BY <2>1, <2>2, PromiseStutter
  <2>3. CASE \E m \in OwnerMoves : Phases[k] = m[1] /\ Phases' = [Phases EXCEPT ![k] = m[2]]
    <3>1. \E m \in OwnerMoves : Promise!Move(k, m[1], m[2])
      BY <2>1, <2>3, PromiseMove
    <3>2. Promise!Declare(k) \/ Promise!Withdraw(k) \/ Promise!Terminate(k)
      BY <3>1 DEF OwnerMoves, Promise!Declare, Promise!Withdraw, Promise!Terminate
    <3>3. QED
      BY <3>2 DEF Promise!Next
  <2>4. QED
    BY <1>7, <2>2, <2>3, EnvironmentMoves
<1>8. ASSUME NEW a \in Artifacts, TaskDone(a)
      PROVE  UNCHANGED Promise!vars
  <2>1. UNCHANGED ctrlVars /\ bosh' \ Slow = bosh \ Slow
    BY <1>8 DEF TaskDone, ArtifactInv
  <2>2. QED
    BY <2>1, UntouchedPhase, SameExts, PromiseStutter
<1>9. CASE UNCHANGED vars
  BY <1>9, UntouchedPhase, SameExts, PromiseStutter DEF vars
<1>10. QED
  BY <1>2, <1>3, <1>4, <1>5, <1>6, <1>7, <1>8, <1>9 DEF Next, Step

\* The reconcilers keep the promise of Lifecycle, under the same assumptions.
THEOREM UploadImplementsLifecycle ==
  ASSUME Served = Declared, Disjoint
  PROVE  Spec => ImplementsLifecycle
<1>1. Init => PhaseInv(SpecsOf) /\ ArtifactInv
  BY PhaseInit DEF Init, CtrlInit, ArtifactInv, NoOrphan
<1>2. UploadInv /\ PhaseInv(SpecsOf) /\ [Next]_vars => PhaseInv(SpecsOf)'
  BY PhaseStep
<1>3. UploadInv /\ ArtifactInv /\ [Next]_vars => ArtifactInv'
  BY ArtifactStep
<1>4. Init => Promise!Init
  BY AbsentOwned DEF Init, CtrlInit, Promise!Init, Phase
<1>5. UploadInv /\ PhaseInv(SpecsOf) /\ ArtifactInv /\ [Next]_vars => [Promise!Next]_(Promise!vars)
  BY PromiseStep
<1>6. QED
  BY <1>1, <1>2, <1>3, <1>4, <1>5, UploadInvariant, PTL
     DEF Spec, ImplementsLifecycle, Promise!Spec

-----------------------------------------------------------------------------
(* No change is lost, whatever the urls serve.                              *)

Late == CreateSteps \ {"prepare"}

LEMMA FollowedNext ==
  ASSUME UploadInv, FollowedInv(Late), [Next]_vars
  PROVE  FollowedInv(Late)'
<1>1. CtrlInv(Steps) /\ Late = {"finalize", "has", "upload", "save"}
  BY DEF UploadInv, Late, CreateSteps
<1> HIDE DEF Late
<1>2. ASSUME NEW k \in Key, Get(k)
      PROVE  FollowedInv(Late)'
  <2>1. PICK step \in {"idle", "hasToDelete", "prepare"} :
           Goto(k, step, cache[k]) /\ (step = "idle" => ~ cache[k].live)
    BY <1>2 DEF Get
  <2>2. QED
    BY <1>1, <1>2, <2>1, FollowedGet DEF Get
<1>3. ASSUME NEW k \in Key, SavePrepared(k)
      PROVE  FollowedInv(Late)'
  <2>1. pc[k] = "prepare" /\ mem[k].live /\ SaveIfPrepared(k, "finalize")
    BY <1>3 DEF SavePrepared, UploadInv, AtStep
  <2>2. QED
    BY <1>1, <2>1, FollowedPrepared
<1>4. ASSUME NEW k \in Key, EnsureFinalizer(k)
      PROVE  FollowedInv(Late)'
  BY <1>1, <1>4, FollowedClaim DEF EnsureFinalizer
<1>5. ASSUME NEW k \in Key, Has(k) \/ Upload(k) \/ HasToDelete(k) \/ Delete(k)
      PROVE  FollowedInv(Late)'
  <2>1. PICK step \in {"upload", "save", "delete", "unfinalize"} :
           /\ Goto(k, step, mem[k]) /\ pc[k] # "idle"
           /\ step \in Late => pc[k] \in Late
           /\ UNCHANGED <<api, cache, queue>>
    <3>1. CASE Has(k) \/ Upload(k)
      BY <1>1, <3>1 DEF Has, Upload
    <3>2. CASE HasToDelete(k) \/ Delete(k)
      BY <1>1, <3>2 DEF HasToDelete, Delete
    <3>3. QED
      BY <1>5, <3>1, <3>2
  <2>2. QED
    BY <1>1, <2>1, FollowedGoto
<1>6. ASSUME NEW k \in Key, SaveAvailable(k)
      PROVE  FollowedInv(Late)'
  <2>1. pc[k] = "save" /\ mem[k].live /\ ~ mem[k].del /\ mem[k].fin
    BY <1>6 DEF SaveAvailable, UploadInv, AtStep, CreateSteps
  <2>2. QED
    BY <1>1, <1>6, <2>1, FollowedAvailable DEF SaveAvailable
<1>7. ASSUME NEW k \in Key, EnsureNoFinalizer(k)
      PROVE  FollowedInv(Late)'
  <2>1. pc[k] = "unfinalize" /\ mem[k].live /\ mem[k].del
    BY <1>7 DEF EnsureNoFinalizer, UploadInv, AtStep, DeleteSteps
  <2>2. QED
    BY <1>1, <1>7, <2>1, FollowedRelease DEF EnsureNoFinalizer
<1>8. ASSUME NEW k \in Key, AbandonUpload(k) \/ Environment(k)
      PROVE  FollowedInv(Late)'
  BY <1>1, <1>8, FollowedEnvironment DEF AbandonUpload, Environment
<1>9. ASSUME NEW a \in Artifacts, TaskDone(a)
      PROVE  FollowedInv(Late)'
  BY <1>9, FollowedUntouched DEF TaskDone
<1>10. CASE UNCHANGED vars
  BY <1>10, FollowedUntouched DEF vars
<1>11. QED
  BY <1>2, <1>3, <1>4, <1>5, <1>6, <1>7, <1>8, <1>9, <1>10 DEF Next, Step

\* Once nothing is queued or running for a resource and the cache has seen
\* its last change, it is as its owner waits for, whatever went wrong before
\* and whatever edits came while it was being reconciled.
THEOREM UploadSettled == Spec => []SettledIsConverged
<1>1. Init => FollowedInv(Late)
  BY FollowedInit DEF Init
<1>2. UploadInv /\ FollowedInv(Late) /\ [Next]_vars => FollowedInv(Late)'
  BY FollowedNext
<1>3. UploadInv /\ FollowedInv(Late) => SettledIsConverged
  BY FollowedSettled DEF UploadInv, SettledIsConverged
<1>4. QED
  BY <1>1, <1>2, <1>3, UploadInvariant, PTL DEF Spec

=============================================================================
