----------------------------- MODULE TenancyProofs -----------------------------
(***************************************************************************)
(* Theorems about the Director and the Team reconcilers together, for any  *)
(* number of Directors, Teams, UAAs, writes, errors and crashes.  What     *)
(* ControllerProofs shows of every reconciler is used of the Director's,   *)
(* and what TeamProofs shows of the Team's holds here because all that     *)
(* happens to Teams is a step of TeamController.                           *)
(***************************************************************************)
EXTENDS Tenancy, TLAPS

\* The lemmas about the Director reconciler's side ...
DP == INSTANCE ControllerProofs WITH
        Key <- Director, Specs <- UAA, SpecsOf <- UAAsOf,
        api <- directors, cache <- dCache, queue <- dQueue, pc <- dPc, mem <- dMem,
        faults <- dFaults

\* ... and the theorems about the Team reconciler's.
TP == INSTANCE TeamProofs WITH
        Key <- TeamKey, Specs <- Director, SpecsOf <- [t \in TeamKey |-> Director],
        Versions <- Nat,
        api <- teams, cache <- tCache, queue <- tQueue, pc <- tPc, mem <- tMem,
        faults <- tFaults,
        director <- pointsTo

Steps == {"idle", "finalize", "createTeam", "deleteTeam", "unfinalize"}

\* What the running reconciliation of a Director knows at each of its steps.
AtStep(d) ==
    /\ dPc[d] # "idle" => dMem[d].live
    /\ dPc[d] # "idle" /\ dMem[d].del /\ dCache[d].fin => dCache[d].del
    /\ dPc[d] \in {"finalize", "createTeam"} => ~ dMem[d].del
    /\ dPc[d] = "createTeam" => dMem[d].fin
    /\ dPc[d] \in {"deleteTeam", "unfinalize"} => dMem[d].del

\* The part of the inductive invariant that is about the worker.
WorkerInv ==
    /\ DP!CtrlInv(Steps)
    /\ DP!PhaseInv(UAAsOf)
    /\ \A d \in Director : AtStep(d)

\* The part that is about the generated Teams.
Stays(d) == teams[TeamOf[d]].live /\ ~ teams[TeamOf[d]].del

TeamsInv ==
    \A d \in Director : /\ Stays(d) => directors[d].fin
                        /\ dPc[d] = "unfinalize" => ~ Stays(d)

-----------------------------------------------------------------------------
(* The assumptions of the modules proved about hold of this system.         *)

LEMMA DirectorAssumption ==
  /\ None \notin UAA /\ UAAsOf \in [Director -> SUBSET UAA]
  /\ Versions \subseteq Nat /\ MaxFaults \in Nat
  BY TenancyAssumption

-----------------------------------------------------------------------------
(* The two views of each operation are one.                                 *)

LEMMA SameController ==
  /\ D!CtrlInit <=> DP!CtrlInit
  /\ D!Crash <=> DP!Crash
  /\ \A d \in Director :
        /\ D!UserCreate(d) <=> DP!UserCreate(d)
        /\ D!UserEdit(d) <=> DP!UserEdit(d)
        /\ D!UserDelete(d) <=> DP!UserDelete(d)
        /\ D!Watch(d) <=> DP!Watch(d)
        /\ D!Resync(d) <=> DP!Resync(d)
        /\ D!Fail(d) <=> DP!Fail(d)
        /\ D!Dequeue(d) <=> DP!Dequeue(d)
  BY DEF D!CtrlInit, DP!CtrlInit, D!Crash, DP!Crash, D!UserCreate, DP!UserCreate,
     D!UserEdit, DP!UserEdit, D!UserDelete, DP!UserDelete, D!UserWrite, DP!UserWrite,
     D!Watch, DP!Watch, D!Resync, DP!Resync, D!Fail, DP!Fail, D!Retry, DP!Retry,
     D!Goto, DP!Goto, D!Absent, DP!Absent, D!Dequeue, DP!Dequeue, D!Idle, DP!Idle

LEMMA SameCalls ==
  /\ \A d \in Director : \A step, o : D!Goto(d, step, o) <=> DP!Goto(d, step, o)
  /\ \A d \in Director : \A wanted, step :
        D!UpdateIfFinalizer(d, wanted, step) <=> DP!UpdateIfFinalizer(d, wanted, step)
  BY DEF D!UpdateIfFinalizer, DP!UpdateIfFinalizer, D!Update, DP!Update,
     D!Write, DP!Write, D!Stored, DP!Stored, D!Retry, DP!Retry,
     D!Goto, DP!Goto, D!Absent, DP!Absent

LEMMA SameTypes == D!CtrlTypeOK(Steps) <=> DP!CtrlTypeOK(Steps)
  BY DEF D!CtrlTypeOK, DP!CtrlTypeOK, D!Object, DP!Object, D!SpecOrNone, DP!SpecOrNone

-----------------------------------------------------------------------------
LEMMA Typed ==
  ASSUME WorkerInv, NEW d \in Director
  PROVE  /\ DP!CtrlInv(Steps) /\ DP!PhaseInv(UAAsOf) /\ AtStep(d)
         /\ directors[d] \in DP!Object /\ dCache[d] \in DP!Object /\ dMem[d] \in DP!Object
         /\ DP!Sane(directors[d]) /\ DP!Sane(dCache[d]) /\ DP!Sane(dMem[d])
         /\ DP!Copy(directors[d], dCache[d]) /\ DP!Copy(directors[d], dMem[d])
         /\ directors \in [Director -> DP!Object] /\ dMem \in [Director -> DP!Object]
         /\ dPc \in [Director -> Steps] /\ dQueue \in SUBSET Director
  BY DEF WorkerInv, DP!CtrlInv, DP!CtrlTypeOK

LEMMA OperateStep ==
  ASSUME WorkerInv, NEW d \in Director, Operate(d)
  PROVE  /\ WorkerInv' /\ DP!KeepsClaims /\ UNCHANGED <<dCache, dPc, teams>>
<1>1. DP!UserCreate(d) \/ DP!UserEdit(d) \/ DP!UserDelete(d)
  BY SameController DEF Operate
<1>2. DP!CtrlInv(Steps)' /\ DP!KeepsClaims
  BY <1>1, Typed, DirectorAssumption, DP!UserStep
<1>3. DP!PhaseInv(UAAsOf)'
  BY <1>1, Typed, DirectorAssumption, DP!UserPhase
<1>4. QED
  BY <1>1, <1>2, <1>3 DEF WorkerInv, AtStep, Operate, DP!UserCreate, DP!UserEdit,
     DP!UserDelete, DP!UserWrite, teamVars

\* A step of the worker concerns one Director.
LEMMA WorkerStep ==
  ASSUME WorkerInv, NEW d \in Director, DP!CtrlInv(Steps)', DP!PhaseInv(UAAsOf)',
         UNCHANGED dCache,
         \A e \in Director \ {d} : dPc'[e] = dPc[e] /\ dMem'[e] = dMem[e],
         AtStep(d)'
  PROVE  WorkerInv'
  BY DEF WorkerInv, AtStep

LEMMA GetStep ==
  ASSUME WorkerInv, NEW d \in Director, D!Get(d)
  PROVE  /\ WorkerInv' /\ UNCHANGED <<directors, dCache, teams>>
         /\ dPc'[d] \in {"idle", "finalize", "deleteTeam"}
         /\ \A e \in Director \ {d} : dPc'[e] = dPc[e]
<1>1. DP!Dequeue(d) /\ UNCHANGED <<directors, dCache, dFaults, teams>>
  BY SameController DEF D!Get
<1>2. PICK step \in {"idle", "finalize", "deleteTeam"} :
         /\ DP!Goto(d, step, dCache[d])
         /\ step # "idle" => dCache[d].live
         /\ step = "finalize" => ~ dCache[d].del
         /\ step = "deleteTeam" => dCache[d].del
  BY SameCalls DEF D!Get
<1>3. step \in Steps /\ "prepare" \notin Steps /\ DP!Idle /\ dQueue' \in SUBSET Director
  BY <1>1, Typed DEF Steps, DP!Dequeue
<1>4. DP!CtrlInv(Steps)'
  BY <1>1, <1>2, <1>3, Typed, DirectorAssumption, DP!GotoStep
<1>5. DP!PhaseInv(UAAsOf)'
  BY <1>1, <1>2, Typed, DirectorAssumption, DP!GotoPhase
<1>6. /\ \A e \in Director \ {d} : dPc'[e] = dPc[e] /\ dMem'[e] = dMem[e]
      /\ dPc'[d] = step /\ (step # "idle" => dMem'[d] = dCache[d])
  BY <1>2, Typed DEF DP!Goto
<1>7. AtStep(d)'
  BY <1>1, <1>2, <1>6 DEF AtStep
<1>8. QED
  BY <1>1, <1>2, <1>4, <1>5, <1>6, <1>7, WorkerStep

LEMMA EnsureFinalizerStep ==
  ASSUME WorkerInv, NEW d \in Director, D!EnsureFinalizer(d)
  PROVE  /\ WorkerInv' /\ DP!KeepsClaims /\ UNCHANGED <<dCache, teams>>
         /\ dPc'[d] \in {"idle", "createTeam"}
         /\ \A e \in Director \ {d} : dPc'[e] = dPc[e]
<1>1. dPc[d] = "finalize" /\ DP!UpdateIfFinalizer(d, TRUE, "createTeam") /\ UNCHANGED teams
  BY SameCalls DEF D!EnsureFinalizer
<1>2. /\ dMem[d].live /\ ~ dMem[d].del /\ dMem[d].fin \in BOOLEAN
      /\ "prepare" \notin Steps /\ "idle" \in Steps /\ "createTeam" \in Steps
  BY <1>1, Typed DEF AtStep, Steps, DP!Object
<1>3. DP!PhaseInv(UAAsOf)'
  BY <1>1, <1>2, Typed, DirectorAssumption, DP!ClaimPhase
<1>4. CASE DP!Update(d, [dMem[d] EXCEPT !.fin = TRUE], "createTeam")
  <2>1. /\ DP!CtrlInv(Steps)' /\ DP!KeepsClaims
        /\ dPc'[d] = "idle" \/
             /\ dPc'[d] = "createTeam"
             /\ dMem'[d].live /\ ~ dMem'[d].del /\ dMem'[d].fin
    BY <1>1, <1>2, <1>4, Typed, DirectorAssumption, DP!FinalizerStep
  <2>2. /\ UNCHANGED dCache
        /\ \A e \in Director \ {d} : dPc'[e] = dPc[e] /\ dMem'[e] = dMem[e]
    BY <1>4, Typed, DirectorAssumption, DP!FinalizerFields
  <2>3. AtStep(d)'
    BY <2>1 DEF AtStep
  <2>4. QED
    BY <1>1, <1>3, <2>1, <2>2, <2>3, WorkerStep
<1>5. CASE /\ dMem[d].fin = TRUE /\ DP!Goto(d, "createTeam", dMem[d])
           /\ UNCHANGED <<directors, dCache, dQueue, dFaults>>
  <2>1. DP!CtrlInv(Steps)'
    BY <1>1, <1>2, <1>5, Typed, DirectorAssumption, DP!GotoStep
  <2>2. /\ \A e \in Director \ {d} : dPc'[e] = dPc[e] /\ dMem'[e] = dMem[e]
        /\ dPc'[d] = "createTeam" /\ dMem'[d] = dMem[d]
    BY <1>5, Typed DEF DP!Goto
  <2>3. AtStep(d)'
    BY <1>2, <1>5, <2>2 DEF AtStep
  <2>4. DP!KeepsClaims
    BY <1>5 DEF DP!KeepsClaims
  <2>5. QED
    BY <1>1, <1>3, <1>5, <2>1, <2>2, <2>3, <2>4, WorkerStep
<1>6. QED
  BY <1>1, <1>2, <1>4, <1>5 DEF DP!UpdateIfFinalizer

LEMMA EnsureNoFinalizerStep ==
  ASSUME WorkerInv, NEW d \in Director, D!EnsureNoFinalizer(d)
  PROVE  /\ WorkerInv' /\ UNCHANGED <<dCache, teams>>
         /\ dPc[d] = "unfinalize" /\ dPc'[d] = "idle"
         /\ \A e \in Director \ {d} : directors'[e] = directors[e] /\ dPc'[e] = dPc[e]
<1>1. dPc[d] = "unfinalize" /\ DP!UpdateIfFinalizer(d, FALSE, "idle") /\ UNCHANGED teams
  BY SameCalls DEF D!EnsureNoFinalizer
<1>2. /\ dMem[d].live /\ dMem[d].del /\ dMem[d].fin /\ "idle" \in Steps
      /\ dCache[d].fin => dCache[d].del
  BY <1>1, Typed DEF AtStep, Steps, DP!Sane
<1>3. DP!Update(d, [dMem[d] EXCEPT !.fin = FALSE], "idle")
  BY <1>1, <1>2 DEF DP!UpdateIfFinalizer
<1>4. /\ DP!CtrlInv(Steps)' /\ dPc'[d] = "idle"
      /\ \/ UNCHANGED directors
         \/ directors' = [directors EXCEPT ![d] = DP!Absent(directors[d].rv + 1)]
  BY <1>1, <1>2, <1>3, Typed, DirectorAssumption, DP!NoFinalizerStep
<1>5. DP!PhaseInv(UAAsOf)'
  BY <1>1, <1>2, <1>3, Typed, DirectorAssumption, DP!NoFinalizerPhase
<1>6. /\ UNCHANGED dCache
      /\ \A e \in Director \ {d} : dPc'[e] = dPc[e] /\ dMem'[e] = dMem[e]
  BY <1>3, Typed DEF DP!Update, DP!Write, DP!Retry, DP!Goto
<1>7. AtStep(d)'
  BY <1>4 DEF AtStep
<1>8. QED
  BY <1>1, <1>4, <1>5, <1>6, <1>7, Typed, WorkerStep

\* The calls that make and delete the Team.
LEMMA TeamCallStep ==
  ASSUME WorkerInv, NEW d \in Director, D!CreateTeam(d) \/ D!DeleteTeam(d)
  PROVE  /\ WorkerInv' /\ UNCHANGED <<directors, dCache>>
         /\ D!CreateTeam(d) => /\ dPc[d] = "createTeam" /\ dPc'[d] = "idle"
                               /\ directors[d].fin
         /\ D!DeleteTeam(d) => dPc[d] = "deleteTeam" /\ dPc'[d] = "unfinalize"
         /\ \A e \in Director \ {d} : dPc'[e] = dPc[e] /\ dPc[e] = "idle"
<1>1. PICK step \in {"idle", "unfinalize"} :
         /\ DP!Goto(d, step, dMem[d])
         /\ D!CreateTeam(d) => dPc[d] = "createTeam" /\ step = "idle"
         /\ D!DeleteTeam(d) => dPc[d] = "deleteTeam" /\ step = "unfinalize"
         /\ UNCHANGED <<directors, dCache, dQueue, dFaults>>
  BY SameCalls DEF D!CreateTeam, D!DeleteTeam
<1>2. step \in Steps /\ "prepare" \notin Steps /\ dPc[d] # "idle" /\ dQueue' \in SUBSET Director
  BY <1>1, Typed DEF Steps
<1>3. DP!CtrlInv(Steps)'
  BY <1>1, <1>2, Typed, DirectorAssumption, DP!GotoStep
<1>4. DP!PhaseInv(UAAsOf)'
  BY <1>1, <1>2, Typed, DirectorAssumption, DP!GotoPhase
<1>5. /\ dPc'[d] = step /\ (step # "idle" => dMem'[d] = dMem[d])
      /\ \A e \in Director \ {d} : dPc'[e] = dPc[e] /\ dMem'[e] = dMem[e]
  BY <1>1, Typed DEF DP!Goto
<1>6. AtStep(d)'
  BY <1>1, <1>5, Typed DEF AtStep
<1>7. D!CreateTeam(d) => directors[d].fin
  BY <1>1, Typed DEF AtStep, DP!Copy
<1>8. \A e \in Director \ {d} : dPc[e] = "idle"
  BY <1>2, Typed DEF DP!CtrlInv
<1>9. WorkerInv'
  BY <1>1, <1>3, <1>4, <1>5, <1>6, WorkerStep
<1>10. QED
  BY <1>1, <1>5, <1>7, <1>8, <1>9

\* The informer, the queue, errors and crashes.
LEMMA RuntimeStep ==
  ASSUME WorkerInv, NEW d \in Director, D!Watch(d) \/ D!Resync(d) \/ D!Fail(d) \/ D!Crash
  PROVE  /\ WorkerInv' /\ UNCHANGED directors
         /\ \A e \in Director : dPc'[e] \in {dPc[e], "idle"}
<1>1. /\ DP!Watch(d) \/ DP!Resync(d) \/ DP!Fail(d) \/ DP!Crash
      /\ "idle" \in Steps
  BY SameController DEF Steps
<1>2. DP!CtrlInv(Steps)' /\ UNCHANGED directors
  BY <1>1, Typed, DirectorAssumption, DP!EnvironmentStep
<1>3. DP!PhaseInv(UAAsOf)'
  BY <1>1, Typed, DirectorAssumption, DP!EnvironmentPhase
<1>4. ASSUME NEW e \in Director
      PROVE  /\ dPc'[e] = "idle" \/ (dPc'[e] = dPc[e] /\ dMem'[e] = dMem[e])
             /\ dCache'[e] = dCache[e] \/ dCache'[e] = directors[e]
  <2>1. /\ dPc \in [Director -> Steps] /\ dMem \in [Director -> DP!Object]
        /\ dCache \in [Director -> DP!Object]
    BY DEF WorkerInv, DP!CtrlInv, DP!CtrlTypeOK
  <2>2. QED
    BY <1>1, <2>1 DEF DP!Watch, DP!Resync, DP!Fail, DP!Retry, DP!Goto, DP!Crash
<1>5. \A e \in Director : AtStep(e)'
  BY <1>4, Typed DEF AtStep, DP!PhaseInv, DP!Deletion
<1>6. QED
  BY <1>2, <1>3, <1>4, <1>5 DEF WorkerInv

LEMMA WorkerInit == Init => WorkerInv
<1>1. SUFFICES ASSUME Init PROVE WorkerInv
  OBVIOUS
<1>2. DP!CtrlInit /\ "idle" \in Steps
  BY <1>1, SameController DEF Init, Steps
<1>3. DP!CtrlInv(Steps) /\ DP!PhaseInv(UAAsOf)
  <2>1. DP!CtrlInv(Steps)
    BY <1>2, DirectorAssumption, DP!CtrlInitInv
  <2>2. DP!PhaseInv(UAAsOf)
    BY <1>2, DirectorAssumption, DP!PhaseInit
  <2>3. QED
    BY <2>1, <2>2
<1>4. \A d \in Director : AtStep(d)
  BY <1>2 DEF DP!CtrlInit, AtStep
<1>5. QED
  BY <1>3, <1>4 DEF WorkerInv

LEMMA WorkerUntouched ==
  ASSUME WorkerInv, UNCHANGED <<directors, directorVars>>
  PROVE  WorkerInv'
  BY DEF directorVars, WorkerInv, AtStep, DP!CtrlInv, DP!CtrlTypeOK, DP!PhaseInv, DP!Owned,
     DP!Deletion

LEMMA WorkerNext ==
  ASSUME WorkerInv, [Next]_vars
  PROVE  WorkerInv'
<1>1. ASSUME NEW d \in Director, ReconcileDirector(d)
      PROVE  WorkerInv'
  BY <1>1, GetStep, EnsureFinalizerStep, TeamCallStep, EnsureNoFinalizerStep
     DEF ReconcileDirector, D!Step
<1>2. ASSUME NEW d \in Director,
             Operate(d) \/ WatchDirector(d) \/ ResyncDirector(d) \/ FailDirector(d)
      PROVE  WorkerInv'
  BY <1>2, OperateStep, RuntimeStep DEF WatchDirector, ResyncDirector, FailDirector
<1>3. ASSUME NEW t \in TeamKey, ReconcileTeam(t) \/ WatchTeam(t) \/ ResyncTeam(t) \/ FailTeam(t)
      PROVE  WorkerInv'
  BY <1>3, WorkerUntouched DEF ReconcileTeam, WatchTeam, ResyncTeam, FailTeam, KeepRest
<1>4. ASSUME Crash
      PROVE  WorkerInv'
  <2>1. D!Crash
    BY <1>4 DEF Crash
  <2>2. CASE Director = {}
    <3>1. /\ dFaults' \in 0..MaxFaults /\ directors' = directors /\ dCache' = directors
          /\ dPc' = [d \in Director |-> "idle"]
          /\ dMem' = [d \in Director |-> DP!Absent(0)] /\ dQueue' \in SUBSET Director
      BY <2>1, SameController, DirectorAssumption
         DEF DP!Crash, WorkerInv, DP!CtrlInv, DP!CtrlTypeOK
    <3>2. DP!CtrlInv(Steps)'
      BY <2>2, <3>1 DEF WorkerInv, DP!CtrlInv, DP!CtrlTypeOK, Steps
    <3>3. QED
      BY <2>2, <3>2 DEF WorkerInv, DP!PhaseInv
  <2>3. QED
    BY <2>1, <2>2, RuntimeStep
<1>5. QED
  BY <1>1, <1>2, <1>3, <1>4, WorkerUntouched DEF Next, vars

-----------------------------------------------------------------------------
(* What happens to Teams is what TeamController lets happen to them.  The   *)
(* two views of each of its operations are one.                             *)

LEMMA TeamsAssumption ==
  /\ None \notin Director
  /\ [t \in TeamKey |-> Director] \in [TeamKey -> SUBSET Director]
  /\ Nat \subseteq Nat /\ MaxFaults \in Nat
  /\ None \notin UAA \union Passwords
  /\ UAAsOf \in [Director -> SUBSET UAA]
  /\ \A used \in [TeamKey \X (UAA \union {None}) -> Passwords \union {None}] :
        \E p \in Passwords :
           p \notin {used[x] : x \in TeamKey \X (UAA \union {None})}
  BY TenancyAssumption

LEMMA SameTeam ==
  ASSUME NEW t \in TeamKey
  PROVE  /\ T!Get(t) <=> TP!Get(t)
         /\ T!Step(t) <=> TP!Step(t)
         /\ T!Environment(t) <=> TP!Environment(t)
         /\ T!Watch(t) <=> TP!Watch(t)
         /\ T!Resync(t) <=> TP!Resync(t)
         /\ T!Fail(t) <=> TP!Fail(t)
<1>1. /\ T!Get(t) <=> TP!Get(t)
      /\ T!Lookup(t) <=> TP!Lookup(t)
      /\ T!CreateClient(t) <=> TP!CreateClient(t)
      /\ T!DeleteClient(t) <=> TP!DeleteClient(t)
      /\ T!DeleteSecret(t) <=> TP!DeleteSecret(t)
  BY DEF T!Get, TP!Get, T!Lookup, TP!Lookup, T!CreateClient, TP!CreateClient,
     T!DeleteClient, TP!DeleteClient, T!DeleteSecret, TP!DeleteSecret,
     T!Dequeue, TP!Dequeue, T!Retry, TP!Retry, T!Goto, TP!Goto, T!Idle, TP!Idle,
     T!Absent, TP!Absent, T!external, TP!external, T!NoWork, TP!NoWork
<1>2. T!CreateSecret(t) <=> TP!CreateSecret(t)
  BY DEF T!CreateSecret, TP!CreateSecret, T!Fresh, TP!Fresh, T!InUse, TP!InUse,
     T!Goto, TP!Goto, T!Absent, TP!Absent
<1>3. /\ T!SavePrepared(t) <=> TP!SavePrepared(t)
      /\ T!SaveAvailable(t) <=> TP!SaveAvailable(t)
  BY DEF T!SavePrepared, TP!SavePrepared, T!SaveAvailable, TP!SaveAvailable,
     T!SaveIfPrepared, TP!SaveIfPrepared, T!PrepareToSave, TP!PrepareToSave,
     T!StatusUpdate, TP!StatusUpdate, T!Write, TP!Write, T!Stored, TP!Stored,
     T!Retry, TP!Retry, T!Goto, TP!Goto, T!Idle, TP!Idle, T!Absent, TP!Absent,
     T!KeepWork, TP!KeepWork, T!external, TP!external, T!NoWork, TP!NoWork
<1>4. /\ T!EnsureFinalizer(t) <=> TP!EnsureFinalizer(t)
      /\ T!EnsureNoFinalizer(t) <=> TP!EnsureNoFinalizer(t)
  BY DEF T!EnsureFinalizer, TP!EnsureFinalizer, T!EnsureNoFinalizer, TP!EnsureNoFinalizer,
     T!UpdateIfFinalizer, TP!UpdateIfFinalizer, T!Update, TP!Update, T!Write, TP!Write,
     T!Stored, TP!Stored, T!Retry, TP!Retry, T!Goto, TP!Goto, T!Idle, TP!Idle,
     T!Absent, TP!Absent, T!KeepWork, TP!KeepWork, T!external, TP!external,
     T!NoWork, TP!NoWork
<1>5. /\ T!UserCreate(t) <=> TP!UserCreate(t)
      /\ T!UserEdit(t) <=> TP!UserEdit(t)
      /\ T!UserDelete(t) <=> TP!UserDelete(t)
      /\ T!Watch(t) <=> TP!Watch(t)
      /\ T!Resync(t) <=> TP!Resync(t)
      /\ T!Fail(t) <=> TP!Fail(t)
  BY DEF T!UserCreate, TP!UserCreate, T!UserEdit, TP!UserEdit, T!UserDelete, TP!UserDelete,
     T!UserWrite, TP!UserWrite, T!Watch, TP!Watch, T!Resync, TP!Resync, T!Fail, TP!Fail,
     T!Retry, TP!Retry, T!Goto, TP!Goto, T!Absent, TP!Absent
<1>6. T!Step(t) <=> TP!Step(t)
  BY <1>1, <1>2, <1>3, <1>4 DEF T!Step, TP!Step
<1>7. T!Environment(t) <=> TP!Environment(t)
  BY <1>5 DEF T!Environment, TP!Environment, T!KeepWork, TP!KeepWork, T!Idle, TP!Idle,
     T!NoWork, TP!NoWork, T!external, TP!external
<1>8. QED
  BY <1>1, <1>5, <1>6, <1>7

LEMMA SameTeams ==
  /\ T!Init <=> TP!Init
  /\ T!Next <=> TP!Next
  /\ T!vars = TP!vars
<1>1. T!Init <=> TP!Init
  BY DEF T!Init, TP!Init, T!CtrlInit, TP!CtrlInit, T!Absent, TP!Absent, T!NoWork, TP!NoWork
<1>2. T!vars = TP!vars
  BY DEF T!vars, TP!vars, T!ctrlVars, TP!ctrlVars, T!external, TP!external
<1>3. \A d \in Director : T!Operate(d) <=> TP!Operate(d)
  BY DEF T!Operate, TP!Operate, T!ctrlVars, TP!ctrlVars
<1>4. T!Restart <=> TP!Restart
  BY DEF T!Restart, TP!Restart, T!Crash, TP!Crash, T!Absent, TP!Absent,
     T!KeepWork, TP!KeepWork, T!Idle, TP!Idle, T!NoWork, TP!NoWork
<1>5. T!Next <=> TP!Next
  BY <1>3, <1>4, SameTeam DEF T!Next, TP!Next
<1>6. QED
  BY <1>1, <1>2, <1>5

\* A Team reconciler that rests holds nothing.
WorkInv == TP!Idle => work = TP!NoWork

LEMMA SamePointers ==
  ASSUME UNCHANGED dCache
  PROVE  pointsTo' = pointsTo
  BY DEF pointsTo

LEMMA TeamsUntouched ==
  ASSUME UNCHANGED <<dCache, teams>>, UNCHANGED teamVars
  PROVE  UNCHANGED TP!vars
  BY SamePointers DEF teamVars, TP!vars, TP!ctrlVars, TP!external

\* The calls of the Director reconciler are those of a user of Teams.
LEMMA TeamCall ==
  ASSUME WorkerInv, TP!WorkerInv, WorkInv, NEW d \in Director,
         D!CreateTeam(d) \/ D!DeleteTeam(d), UNCHANGED teamVars
  PROVE  [TP!Next]_(TP!vars)
<1> DEFINE t == TeamOf[d]
<1>1. t \in TeamKey
  BY TenancyAssumption
<1>2. teams \in [TeamKey -> TP!Object] /\ teams[t].rv \in Nat
  BY <1>1, TeamsAssumption, TP!Typed DEF TP!Object
<1>3. /\ UNCHANGED <<dCache, tCache, tQueue, tPc, tMem, tFaults>>
      /\ UNCHANGED TP!external
      /\ pointsTo' = pointsTo
  BY TeamCallStep, SamePointers DEF teamVars, TP!external
<1>4. TP!KeepWork
  BY <1>3 DEF TP!KeepWork, TP!Idle, WorkInv, TP!NoWork, teamVars
<1>5. CASE UNCHANGED teams
  BY <1>3, <1>5, TeamsUntouched
<1>6. CASE D!CreateTeam(d) /\ ~ teams[t].live
  <2>1. teams' = [teams EXCEPT ![t] =
                     [TP!Absent(teams[t].rv + 1) EXCEPT !.live = TRUE, !.spec = d]]
    BY <1>1, <1>2, <1>6 DEF D!CreateTeam, D!Absent, TP!Absent
  <2>2. TP!UserCreate(t)
    BY <1>1, <1>2, <1>3, <1>6, <2>1 DEF TP!UserCreate, TP!UserWrite
  <2>3. TP!Environment(t)
    BY <1>3, <1>4, <2>2 DEF TP!Environment
  <2>4. QED
    BY <1>1, <2>3 DEF TP!Next
<1>7. CASE D!DeleteTeam(d) /\ teams[t].live /\ ~ teams[t].del
  <2>1. teams' = [teams EXCEPT ![t] =
                     IF teams[t].fin THEN [teams[t] EXCEPT !.rv = @ + 1, !.del = TRUE]
                                     ELSE TP!Absent(teams[t].rv + 1)]
    BY <1>1, <1>2, <1>7 DEF D!DeleteTeam, D!Absent, TP!Absent
  <2>2. TP!UserDelete(t)
    BY <1>1, <1>2, <1>3, <1>7, <2>1 DEF TP!UserDelete, TP!UserWrite
  <2>3. TP!Environment(t)
    BY <1>3, <1>4, <2>2 DEF TP!Environment
  <2>4. QED
    BY <1>1, <2>3 DEF TP!Next
<1>8. CASE D!CreateTeam(d) /\ teams[t].live
  BY <1>1, <1>2, <1>5, <1>8 DEF D!CreateTeam
<1>9. CASE D!DeleteTeam(d) /\ (~ teams[t].live \/ teams[t].del)
  BY <1>1, <1>2, <1>5, <1>9 DEF D!DeleteTeam
<1>10. QED
  BY <1>6, <1>7, <1>8, <1>9

\* What the manager sees of a Director resource is what an operator made of it.
LEMMA Seen ==
  ASSUME WorkerInv, NEW d \in Director, WatchDirector(d)
  PROVE  [TP!Next]_(TP!vars)
<1> DEFINE u == IF directors[d].live THEN directors[d].spec ELSE None
<1>1. dCache' = [dCache EXCEPT ![d] = directors[d]] /\ UNCHANGED <<teams, teamVars>>
  BY SameController DEF WatchDirector, DP!Watch
<1>2. dCache \in [Director -> DP!Object]
  BY DEF WorkerInv, DP!CtrlInv, DP!CtrlTypeOK
<1>3. pointsTo' = [pointsTo EXCEPT ![d] = u]
  BY <1>1, <1>2 DEF pointsTo
<1>4. u \in UAAsOf[d] \union {None}
  BY Typed DEF DP!PhaseInv, DP!Owned
<1> HIDE DEF u
<1>5. CASE u = pointsTo[d]
  <2>1. pointsTo' = pointsTo
    BY <1>3, <1>5 DEF pointsTo
  <2>2. QED
    BY <1>1, <2>1 DEF teamVars, TP!vars, TP!ctrlVars, TP!external
<1>6. CASE u # pointsTo[d]
  <2>1. TP!Operate(d)
    BY <1>1, <1>3, <1>4, <1>6 DEF TP!Operate, teamVars, TP!ctrlVars
  <2>2. QED
    BY <2>1 DEF TP!Next
<1>7. QED
  BY <1>5, <1>6

\* Every step is one of TeamController, or none.
LEMMA TeamsStep ==
  ASSUME WorkerInv, TP!WorkerInv, WorkInv, [Next]_vars
  PROVE  [TP!Next]_(TP!vars)
<1>1. ASSUME NEW d \in Director, ReconcileDirector(d)
      PROVE  [TP!Next]_(TP!vars)
  <2>1. CASE D!CreateTeam(d) \/ D!DeleteTeam(d)
    BY <1>1, <2>1, TeamCall DEF ReconcileDirector
  <2>2. CASE D!Get(d) \/ D!EnsureFinalizer(d) \/ D!EnsureNoFinalizer(d)
    BY <1>1, <2>2, GetStep, EnsureFinalizerStep, EnsureNoFinalizerStep, TeamsUntouched
       DEF ReconcileDirector
  <2>3. QED
    BY <1>1, <2>1, <2>2 DEF ReconcileDirector, D!Step
<1>2. ASSUME NEW d \in Director, Operate(d) \/ ResyncDirector(d) \/ FailDirector(d)
      PROVE  [TP!Next]_(TP!vars)
  <2>1. UNCHANGED <<dCache, teams, teamVars>>
    BY <1>2, OperateStep, SameController
       DEF Operate, ResyncDirector, FailDirector, DP!Resync, DP!Fail
  <2>2. QED
    BY <2>1, TeamsUntouched
<1>3. ASSUME NEW t \in TeamKey, ReconcileTeam(t)
      PROVE  TP!Next
  BY <1>3, SameTeam DEF ReconcileTeam, TP!Next
<1>4. ASSUME NEW t \in TeamKey, WatchTeam(t) \/ ResyncTeam(t) \/ FailTeam(t)
      PROVE  TP!Next
  <2>1. pointsTo' = pointsTo /\ UNCHANGED <<uaa, secret>> /\ T!KeepWork
    BY <1>4, SamePointers DEF WatchTeam, ResyncTeam, FailTeam, KeepRest, directorVars
  <2>2. T!Environment(t)
    BY <1>4, <2>1 DEF WatchTeam, ResyncTeam, FailTeam, T!Environment, T!external
  <2>3. QED
    BY <2>2, SameTeam DEF TP!Next
<1>5. ASSUME Crash
      PROVE  TP!Next
  BY <1>5, SameTeams DEF Crash, T!Next
<1>6. CASE UNCHANGED vars
  BY <1>6, TeamsUntouched DEF vars, directorVars
<1>7. QED
  BY <1>1, <1>2, <1>3, <1>4, <1>5, <1>6, Seen DEF Next

-----------------------------------------------------------------------------
\* A reconciliation that is over has let go of what it held.
LEMMA WorkNext ==
  ASSUME TP!WorkerInv, WorkInv, [TP!Next]_(TP!vars)
  PROVE  WorkInv'
<1>1. tPc \in [TeamKey -> TP!Steps]
  BY DEF TP!WorkerInv, TP!CtrlInv, TP!CtrlTypeOK
<1>2. TP!KeepWork => WorkInv'
  BY DEF TP!KeepWork, WorkInv, TP!NoWork
<1>3. work' = TP!NoWork => WorkInv'
  BY DEF WorkInv, TP!NoWork
<1>4. ASSUME NEW t \in TeamKey, NEW step, step # "idle", tPc' = [tPc EXCEPT ![t] = step]
      PROVE  WorkInv'
  BY <1>1, <1>4 DEF WorkInv, TP!Idle
<1>5. ASSUME UNCHANGED work, TP!Idle
      PROVE  WorkInv'
  BY <1>3, <1>5 DEF WorkInv
<1>6. ASSUME NEW t \in TeamKey, TP!Get(t)
      PROVE  WorkInv'
  BY <1>5, <1>6 DEF TP!Get, TP!Dequeue
<1>7. ASSUME NEW t \in TeamKey, TP!Lookup(t)
      PROVE  WorkInv'
  <2>1. CASE work' = TP!NoWork
    BY <1>3, <2>1
  <2>2. CASE work' # TP!NoWork
    BY <1>4, <1>7, <2>2 DEF TP!Lookup, TP!Goto
  <2>3. QED
    BY <2>1, <2>2
<1>8. ASSUME NEW t \in TeamKey,
             \/ TP!CreateSecret(t) \/ TP!CreateClient(t)
             \/ TP!DeleteClient(t) \/ TP!DeleteSecret(t)
      PROVE  WorkInv'
  BY <1>4, <1>8 DEF TP!CreateSecret, TP!CreateClient, TP!DeleteClient, TP!DeleteSecret,
     TP!Goto
<1>9. ASSUME NEW t \in TeamKey, TP!Step(t)
      PROVE  WorkInv'
  BY <1>2, <1>3, <1>7, <1>8, <1>9 DEF TP!Step, TP!SavePrepared, TP!EnsureFinalizer,
     TP!SaveAvailable, TP!EnsureNoFinalizer
<1>10. ASSUME NEW d \in Director, TP!Operate(d)
       PROVE  WorkInv'
  BY <1>10 DEF TP!Operate, TP!ctrlVars, WorkInv, TP!Idle, TP!NoWork
<1>11. ASSUME UNCHANGED TP!vars
       PROVE  WorkInv'
  BY <1>11 DEF TP!vars, TP!ctrlVars, WorkInv, TP!Idle, TP!NoWork
<1>12. QED
  BY <1>2, <1>6, <1>9, <1>10, <1>11 DEF TP!Next, TP!Environment, TP!Restart

\* Both reconcilers keep their invariants.
BothInv == WorkerInv /\ TP!WorkerInv /\ WorkInv

LEMMA BothInit == Init => BothInv
<1>1. SUFFICES ASSUME Init PROVE BothInv
  OBVIOUS
<1>2. TP!Init
  BY <1>1, SameTeams DEF Init
<1>3. TP!WorkerInv
  BY <1>2, TeamsAssumption, TP!WorkerInit
<1>4. WorkInv
  BY <1>2 DEF TP!Init, WorkInv
<1>5. QED
  BY <1>1, <1>3, <1>4, WorkerInit DEF BothInv

LEMMA BothNext == BothInv /\ [Next]_vars => BothInv' /\ [TP!Next]_(TP!vars)
<1>1. SUFFICES ASSUME BothInv, [Next]_vars
               PROVE  BothInv' /\ [TP!Next]_(TP!vars)
  OBVIOUS
<1>2. [TP!Next]_(TP!vars)
  BY <1>1, TeamsStep DEF BothInv
<1>3. TP!WorkerInv'
  BY <1>1, <1>2, TeamsAssumption, TP!WorkerNext DEF BothInv
<1>4. QED
  BY <1>1, <1>2, <1>3, WorkerNext, WorkNext DEF BothInv

LEMMA BothInvariant == Spec => []BothInv
  BY BothInit, BothNext, PTL DEF Spec

\* All that the Director reconciler and the operators do to Teams is what
\* TeamController lets users and operators do.
LEMMA TeamsAreTeams == Spec => TP!Spec
<1>1. Init => TP!Init
  BY SameTeams DEF Init
<1>2. QED
  BY <1>1, BothInvariant, BothNext, PTL DEF Spec, TP!Spec

\* Every behaviour of the two reconcilers and of the operators is, seen from
\* the Teams, one of TeamController, whose users make and delete Teams and
\* whose operators move Directors as they like.
THEOREM TenancyImplementsTeams == Spec => ImplementsTeams
<1>1. TP!Init => T!Init
  BY SameTeams
<1>2. [TP!Next]_(TP!vars) => [T!Next]_(T!vars)
  <2>1. UNCHANGED TP!vars => UNCHANGED T!vars
    BY DEF T!vars, TP!vars, T!ctrlVars, TP!ctrlVars, T!external, TP!external
  <2>2. QED
    BY <2>1, SameTeams
<1>3. QED
  BY <1>1, <1>2, TeamsAreTeams, PTL DEF ImplementsTeams, TP!Spec, T!Spec

\* Every variable of both reconcilers keeps its type.
THEOREM TenancyTyping == Spec => []TypeOK
<1>1. TP!TypeOK => T!TypeOK
  BY DEF T!TypeOK, TP!TypeOK, T!CtrlTypeOK, TP!CtrlTypeOK, T!Object, TP!Object,
     T!SpecOrNone, TP!SpecOrNone, T!CreateSteps, TP!CreateSteps, T!DeleteSteps, TP!DeleteSteps
<1>2. TP!Spec => []TP!TypeOK
  BY TeamsAssumption, TP!TeamTyping
<1>3. BothInv => D!CtrlTypeOK(Steps)
  BY SameTypes DEF BothInv, WorkerInv, DP!CtrlInv
<1>4. BothInv /\ TP!TypeOK => TypeOK
  BY <1>1, <1>3 DEF TypeOK, Steps
<1>5. QED
  BY <1>2, <1>4, TeamsAreTeams, BothInvariant, PTL

-----------------------------------------------------------------------------
(* The generated Teams.                                                     *)

\* Nothing that happens to Teams by themselves makes one that stays.
LEMMA TeamsKept ==
  ASSUME BothInv, BothInv', NEW t \in TeamKey,
         TP!Get(t) \/ TP!Step(t) \/ TP!Watch(t) \/ TP!Resync(t) \/ TP!Fail(t) \/ TP!Restart
  PROVE  \A e \in Director : Stays(e)' => Stays(e)
<1>1. \A k \in TeamKey : /\ teams[k].live \in BOOLEAN /\ teams[k].del \in BOOLEAN
                         /\ teams[k].fin \in BOOLEAN
  BY TeamsAssumption, TP!Typed DEF BothInv, TP!Object
<1>2. \/ TP!Phases' = TP!Phases
      \/ TP!Phases[t] = "declared" /\ TP!Phases' = [TP!Phases EXCEPT ![t] = "claimed"]
      \/ TP!Phases[t] = "terminating" /\ TP!Phases' = [TP!Phases EXCEPT ![t] = "none"]
  <2>1. CASE TP!Get(t)
    BY <2>1, TeamsAssumption, TP!GetStep DEF BothInv
  <2>2. CASE TP!SavePrepared(t) \/ TP!Lookup(t) \/ TP!SaveAvailable(t)
    BY <2>2, TeamsAssumption, TP!SavePreparedStep, TP!LookupStep, TP!SaveAvailableStep
       DEF BothInv
  <2>3. CASE TP!EnsureFinalizer(t) \/ TP!EnsureNoFinalizer(t)
    BY <2>3, TeamsAssumption, TP!EnsureFinalizerStep, TP!EnsureNoFinalizerStep DEF BothInv
  <2>4. CASE TP!Remote(t)
    BY <2>4, TeamsAssumption, TP!RemoteStep DEF BothInv
  <2>5. CASE TP!Watch(t) \/ TP!Resync(t) \/ TP!Fail(t) \/ TP!Restart
    BY <2>5, TeamsAssumption, TP!RuntimeStep, TP!RestartStep DEF BothInv
  <2>6. QED
    BY <2>1, <2>2, <2>3, <2>4, <2>5 DEF TP!Step, TP!Remote
<1>3. \A k \in TeamKey : /\ teams'[k].live \in BOOLEAN /\ teams'[k].del \in BOOLEAN
                         /\ teams'[k].fin \in BOOLEAN
  <2>1. TP!WorkerInv' => teams' \in [TeamKey -> TP!Object]
    BY DEF TP!WorkerInv, TP!CtrlInv, TP!CtrlTypeOK, TP!Object, TP!SpecOrNone
  <2>2. QED
    BY <2>1 DEF BothInv, TP!Object
<1>4. ASSUME NEW e \in Director, Stays(e)'
      PROVE  Stays(e)
  <2>1. TeamOf[e] \in TeamKey
    BY TenancyAssumption
  <2>2. TP!Phases'[TeamOf[e]] \in {"declared", "claimed"}
    BY <1>3, <1>4, <2>1 DEF TP!Phases, TP!Phase, Stays
  <2>3. TP!Phases[TeamOf[e]] \in {"declared", "claimed"}
    BY <1>2, <2>1, <2>2 DEF TP!Phases
  <2>4. QED
    BY <1>1, <2>1, <2>3 DEF TP!Phases, TP!Phase, Stays
<1>5. QED
  BY <1>4

\* No step leaves a Team that stays without the finalizer of its Director.
LEMMA TeamsNext ==
  ASSUME BothInv, BothInv', TeamsInv, [Next]_vars
  PROVE  TeamsInv'
<1>1. /\ WorkerInv /\ dPc \in [Director -> Steps]
      /\ teams \in [TeamKey -> TP!Object]
      /\ TeamOf \in [Director -> TeamKey]
      /\ \A d, e \in Director : TeamOf[d] = TeamOf[e] => d = e
  BY TenancyAssumption DEF BothInv, WorkerInv, DP!CtrlInv, DP!CtrlTypeOK,
     TP!WorkerInv, TP!CtrlInv, TP!CtrlTypeOK
<1>2. ASSUME \A e \in Director : /\ Stays(e)' => Stays(e)
                                 /\ directors[e].fin => directors'[e].fin
                                 /\ dPc'[e] = "unfinalize" => dPc[e] = "unfinalize"
      PROVE  TeamsInv'
  BY <1>2 DEF TeamsInv
<1>3. UNCHANGED teams => \A e \in Director : Stays(e)' <=> Stays(e)
  BY DEF Stays
<1>4. ASSUME NEW d \in Director, ReconcileDirector(d)
      PROVE  TeamsInv'
  <2>1. CASE D!Get(d) \/ D!EnsureFinalizer(d)
    BY <1>1, <1>2, <1>3, <2>1, GetStep, EnsureFinalizerStep DEF DP!KeepsClaims
  <2>2. CASE D!EnsureNoFinalizer(d)
    BY <1>1, <1>3, <2>2, EnsureNoFinalizerStep DEF TeamsInv
  <2>3. CASE D!CreateTeam(d)
    <3>1. \A e \in Director \ {d} : Stays(e)' <=> Stays(e)
      BY <1>1, <2>3 DEF D!CreateTeam, Stays
    <3>2. QED
      BY <1>1, <2>3, <3>1, TeamCallStep DEF TeamsInv
  <2>4. CASE D!DeleteTeam(d)
    <3>1. \A e \in Director \ {d} : Stays(e)' <=> Stays(e)
      BY <1>1, <2>4 DEF D!DeleteTeam, Stays
    <3>2. ~ Stays(d)'
      <4> DEFINE t == teams[TeamOf[d]]
      <4>1. t \in TP!Object /\ TeamOf[d] \in TeamKey
        BY <1>1
      <4>2. CASE ~ t.live \/ t.del
        BY <2>4, <4>2 DEF D!DeleteTeam, Stays
      <4>3. CASE t.live /\ ~ t.del /\ t.fin
        <5>1. teams'[TeamOf[d]] = [t EXCEPT !.rv = t.rv + 1, !.del = TRUE]
          BY <1>1, <2>4, <4>1, <4>3 DEF D!DeleteTeam
        <5>2. teams'[TeamOf[d]].del = TRUE
          BY <4>1, <5>1 DEF TP!Object
        <5>3. QED
          BY <5>2 DEF Stays
      <4>4. CASE t.live /\ ~ t.del /\ ~ t.fin
        BY <1>1, <2>4, <4>1, <4>4 DEF D!DeleteTeam, D!Absent, Stays
      <4>5. QED
        BY <4>2, <4>3, <4>4
    <3>3. QED
      BY <1>1, <2>4, <3>1, <3>2, TeamCallStep DEF TeamsInv
  <2>5. QED
    BY <1>4, <2>1, <2>2, <2>3, <2>4 DEF ReconcileDirector, D!Step
<1>5. ASSUME NEW d \in Director, Operate(d)
      PROVE  TeamsInv'
  BY <1>1, <1>2, <1>3, <1>5, OperateStep DEF DP!KeepsClaims
<1>6. ASSUME NEW d \in Director, WatchDirector(d) \/ ResyncDirector(d) \/ FailDirector(d)
      PROVE  TeamsInv'
  BY <1>1, <1>2, <1>3, <1>6, RuntimeStep DEF WatchDirector, ResyncDirector, FailDirector
<1>7. ASSUME NEW t \in TeamKey, ReconcileTeam(t) \/ WatchTeam(t) \/ ResyncTeam(t) \/ FailTeam(t)
      PROVE  TeamsInv'
  <2>1. TP!Get(t) \/ TP!Step(t) \/ TP!Watch(t) \/ TP!Resync(t) \/ TP!Fail(t)
    BY <1>7, SameTeam DEF ReconcileTeam, WatchTeam, ResyncTeam, FailTeam
  <2>2. UNCHANGED <<directors, dPc>>
    BY <1>7 DEF ReconcileTeam, WatchTeam, ResyncTeam, FailTeam, KeepRest, directorVars
  <2>3. QED
    BY <1>2, <2>1, <2>2, TeamsKept
<1>8. ASSUME Crash
      PROVE  TeamsInv'
  <2>1. D!Crash /\ UNCHANGED teams
    BY <1>8 DEF Crash, T!Restart, T!Crash
  <2>2. directors' = directors /\ \A e \in Director : dPc'[e] = "idle"
    BY <2>1, SameController DEF DP!Crash
  <2>3. QED
    BY <1>2, <1>3, <2>1, <2>2
<1>9. CASE UNCHANGED vars
  BY <1>2, <1>3, <1>9 DEF vars, directorVars
<1>10. QED
  BY <1>4, <1>5, <1>6, <1>7, <1>8, <1>9 DEF Next

LEMMA TeamsInvariant == Spec => []TeamsInv
<1>1. Init => TeamsInv
  <2>1. Init => /\ \A t \in TeamKey : ~ teams[t].live
                /\ \A d \in Director : dPc[d] = "idle"
    BY SameController DEF Init, DP!CtrlInit, T!Init, T!CtrlInit, T!Absent
  <2>2. QED
    BY <2>1, TenancyAssumption DEF TeamsInv, Stays
<1>2. BothInv /\ BothInv' /\ TeamsInv /\ [Next]_vars => TeamsInv'
  BY TeamsNext
<1>3. QED
  BY <1>1, <1>2, BothInvariant, PTL DEF Spec

\* A generated Team that nobody deletes has its Director, with the finalizer
\* that makes the reconciler delete the Team first.
THEOREM TeamsHaveDirectors == Spec => []TeamHasDirector
<1>1. BothInv /\ TeamsInv => TeamHasDirector
  BY Typed, DirectorAssumption, DP!NothingThere DEF BothInv, TeamsInv, Stays, TeamHasDirector
<1>2. QED
  BY <1>1, BothInvariant, TeamsInvariant, PTL

-----------------------------------------------------------------------------
(* What TeamProofs shows of Teams is true of those generated for Directors. *)

\* No Secret outlives its Team, whatever the Director reconciler does.
THEOREM TenantsLeaveNoSecret == Spec => []T!NoOrphanSecret
<1>1. TP!Spec => []TP!NoOrphanSecret
  BY TeamsAssumption, TP!NoOrphanedSecret
<1>2. TP!NoOrphanSecret => T!NoOrphanSecret
  BY DEF TP!NoOrphanSecret, T!NoOrphanSecret
<1>3. QED
  BY <1>1, <1>2, TeamsAreTeams, PTL

\* If no Director resource is pointed to another UAA, no client outlives its
\* Team, and client and Secret of a Team do not part before the first failure.
THEOREM TenantsLeaveNoClient ==
  ASSUME TP!OneUAA
  PROVE  Spec => [](T!NoOrphanClient /\ T!UsableUntilFault)
<1>1. TP!Spec => []TP!NoOrphanClient
  BY TeamsAssumption, TP!NoOrphanedClient
<1>2. TP!Spec => []TP!UsableUntilFault
  BY TeamsAssumption, TP!TeamUsable
<1>3. TP!NoOrphanClient => T!NoOrphanClient
  BY DEF TP!NoOrphanClient, T!NoOrphanClient, TP!Claims, T!Claims
<1>4. TP!UsableUntilFault => T!UsableUntilFault
  BY DEF TP!UsableUntilFault, T!UsableUntilFault, TP!AvailableIsUsable, T!AvailableIsUsable
<1>5. QED
  BY <1>1, <1>2, <1>3, <1>4, TeamsAreTeams, PTL

=============================================================================
