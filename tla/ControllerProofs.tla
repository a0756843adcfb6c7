--------------------------- MODULE ControllerProofs ---------------------------
(***************************************************************************)
(* What the API server, the cache and the write discipline guarantee to    *)
(* every reconciler, step by step: the lemmas that the proofs about the    *)
(* reconcilers have in common.  The first part is about the objects and    *)
(* their copies, the second about the phases of Lifecycle, and the third   *)
(* follows a change until it is in the status: no outdated copy makes a    *)
(* reconciler forget what its owner did.                                   *)
(***************************************************************************)
EXTENDS Controller, TLAPS

\* What holds of an object by itself: one that is not there has nothing, and a
\* deletion waits for a finalizer.
Sane(o) ==
    /\ o.live => o.rv > 0 /\ o.spec # None
    /\ ~ o.live => o = Absent(o.rv)
    /\ o.del => o.fin

\* A finalizer comes with an original spec.
Frozen(o) == o.fin => o.orig # None

\* c is a copy of o, which may have changed since; but as long as the copy
\* shows a finalizer and no deletion, o has kept its finalizer and original.
Copy(o, c) ==
    /\ c.rv <= o.rv
    /\ c.rv = o.rv => c = o
    /\ c.fin /\ ~ c.del => o.fin /\ o.orig = c.orig

\* The part of an inductive invariant that all reconcilers share.  Those that
\* keep an original spec prepare it before they set the finalizer.
CtrlInv(Steps) ==
    /\ CtrlTypeOK(Steps)
    /\ \A k \in Key : Sane(api[k]) /\ Sane(cache[k]) /\ Sane(mem[k])
    /\ "prepare" \in Steps =>
          \A k \in Key : Frozen(api[k]) /\ Frozen(cache[k]) /\ Frozen(mem[k])
    /\ \A k \in Key : Copy(api[k], cache[k]) /\ Copy(api[k], mem[k])
    /\ \A j, k \in Key : pc[j] # "idle" /\ pc[k] # "idle" => j = k

\* Objects with a finalizer keep it and their original specs.
KeepsClaims ==
    \A k \in Key : api[k].fin => /\ api'[k].fin
                                 /\ api'[k].orig = api[k].orig

-----------------------------------------------------------------------------
LEMMA AbsentType ==
  \A v \in Nat : Absent(v) \in Object /\ Sane(Absent(v)) /\ Frozen(Absent(v))
  BY ControllerAssumption DEF Absent, Object, SpecOrNone, Sane, Frozen

\* The fields the actions set keep an object an object.
LEMMA FieldTypes ==
  /\ \A o \in Object, b \in BOOLEAN, s \in SpecOrNone :
        [o EXCEPT !.live = b, !.spec = s] \in Object
  /\ \A o \in Object, v \in Nat, b \in BOOLEAN :
        [o EXCEPT !.rv = v, !.del = b] \in Object
  /\ \A o \in Object, v \in Nat, s \in SpecOrNone :
        [o EXCEPT !.rv = v, !.spec = s] \in Object
  /\ \A o \in Object, s \in SpecOrNone, w \in BOOLEAN, a \in BOOLEAN :
        [o EXCEPT !.orig = s, !.warn = w, !.avail = a] \in Object
  /\ \A o \in Object, s \in SpecOrNone, b \in BOOLEAN :
        [o EXCEPT !.spec = s, !.fin = b] \in Object
  /\ \A o \in Object, v \in Nat : [o EXCEPT !.rv = v] \in Object
  BY DEF Object

\* What the users write is an object that holds together.
LEMMA CreatedObject ==
  ASSUME NEW v \in Nat, v > 0, NEW s \in Specs
  PROVE  LET p == [Absent(v) EXCEPT !.live = TRUE, !.spec = s]
         IN  p \in Object /\ Sane(p) /\ p.rv = v /\ ~ p.fin
<1> DEFINE p == [Absent(v) EXCEPT !.live = TRUE, !.spec = s]
<1>1. s # None /\ s \in SpecOrNone
  BY ControllerAssumption DEF SpecOrNone
<1>2. /\ p.rv = v /\ p.live = TRUE /\ p.del = FALSE /\ p.fin = FALSE
      /\ p.spec = s
  BY DEF Absent
<1>3. p \in Object
  BY <1>1, AbsentType, FieldTypes
<1>4. Sane(p)
  <2> HIDE DEF p
  <2> QED
    BY <1>1, <1>2 DEF Sane
<1>5. QED
  BY <1>2, <1>3, <1>4

LEMMA EditedObject ==
  ASSUME NEW o \in Object, Sane(o), o.live, NEW s \in Specs
  PROVE  LET p == [o EXCEPT !.rv = @ + 1, !.spec = s]
         IN  /\ p \in Object /\ Sane(p) /\ p.rv > o.rv
             /\ p.fin = o.fin /\ p.orig = o.orig
<1> DEFINE p == [o EXCEPT !.rv = @ + 1, !.spec = s]
<1>1. s # None /\ s \in SpecOrNone /\ o.rv + 1 \in Nat
  BY ControllerAssumption DEF SpecOrNone, Object
<1>2. /\ p.rv = o.rv + 1 /\ p.live = o.live /\ p.del = o.del
      /\ p.fin = o.fin /\ p.spec = s /\ p.orig = o.orig
  BY DEF Object
<1>3. p \in Object
  BY <1>1, FieldTypes
<1>4. Sane(p) /\ p.rv > o.rv
  <2> HIDE DEF p
  <2> QED
    BY <1>1, <1>2 DEF Sane, Object
<1>5. QED
  BY <1>2, <1>3, <1>4

LEMMA DeletedObject ==
  ASSUME NEW o \in Object, Sane(o), o.live, o.fin
  PROVE  LET p == [o EXCEPT !.rv = @ + 1, !.del = TRUE]
         IN  /\ p \in Object /\ Sane(p) /\ p.rv > o.rv
             /\ p.fin = o.fin /\ p.orig = o.orig
<1> DEFINE p == [o EXCEPT !.rv = @ + 1, !.del = TRUE]
<1>1. o.rv + 1 \in Nat
  BY DEF Object
<1>2. /\ p.rv = o.rv + 1 /\ p.live = o.live /\ p.del = TRUE
      /\ p.fin = o.fin /\ p.spec = o.spec /\ p.orig = o.orig
  BY DEF Object
<1>3. p \in Object
  BY <1>1, FieldTypes
<1>4. Sane(p) /\ p.rv > o.rv
  <2> HIDE DEF p
  <2> QED
    BY <1>1, <1>2 DEF Sane, Object
<1>5. QED
  BY <1>2, <1>3, <1>4

LEMMA NothingThere ==
  ASSUME NEW o \in Object, Sane(o), ~ o.live
  PROVE  ~ o.fin /\ ~ o.del /\ o.orig = None
  BY DEF Object, Sane, Absent

\* The initial states satisfy the invariant.
LEMMA CtrlInitInv ==
  ASSUME NEW Steps, "idle" \in Steps, CtrlInit
  PROVE  CtrlInv(Steps)
<1>1. \A k \in Key : api[k] = Absent(0) /\ cache[k] = Absent(0) /\ mem[k] = Absent(0)
  BY DEF CtrlInit
<1>2. CtrlTypeOK(Steps)
  BY AbsentType, ControllerAssumption DEF CtrlInit, CtrlTypeOK
<1>3. \A o \in Object : Copy(o, o)
  BY DEF Copy, Object
<1>4. QED
  BY <1>1, <1>2, <1>3, AbsentType DEF CtrlInit, CtrlInv

\* A change of one object that keeps the claims of its copies.
LEMMA CopyOfChanged ==
  ASSUME NEW o \in Object, NEW p \in Object, NEW c \in Object,
         Copy(o, c),
         p = o \/ p.rv > o.rv,
         c.fin /\ ~ c.del => p.fin /\ p.orig = o.orig
  PROVE  Copy(p, c)
  BY DEF Copy, Object

-----------------------------------------------------------------------------
\* When only the object of k changes, into one that is sane and has a new
\* version, and keeps the claims of its copies, the invariant is preserved.
LEMMA ChangedObject ==
  ASSUME NEW Steps, CtrlInv(Steps), NEW k \in Key, NEW p \in Object,
         api' = [api EXCEPT ![k] = p],
         p = api[k] \/ p.rv > api[k].rv,
         Sane(p), "prepare" \in Steps => Frozen(p),
         cache[k].fin /\ ~ cache[k].del => p.fin /\ p.orig = api[k].orig,
         UNCHANGED cache
  PROVE  /\ api' \in [Key -> Object]
         /\ cache' \in [Key -> Object]
         /\ \A j \in Key : Sane(api'[j]) /\ Sane(cache'[j])
         /\ "prepare" \in Steps => \A j \in Key : Frozen(api'[j]) /\ Frozen(cache'[j])
         /\ \A j \in Key : Copy(api'[j], cache'[j])
<1>1. api \in [Key -> Object] /\ cache \in [Key -> Object]
  BY DEF CtrlInv, CtrlTypeOK
<1>2. /\ \A j \in Key : Sane(api[j]) /\ Sane(cache[j]) /\ Copy(api[j], cache[j])
      /\ "prepare" \in Steps => \A j \in Key : Frozen(api[j]) /\ Frozen(cache[j])
  BY DEF CtrlInv
<1>3. \A j \in Key : api'[j] = IF j = k THEN p ELSE api[j]
  BY <1>1
<1>4. Copy(p, cache[k])
  BY <1>1, <1>2, CopyOfChanged
<1>5. QED
  BY <1>1, <1>2, <1>3, <1>4

\* The users keep the invariant, and the claims.
LEMMA UserStep ==
  ASSUME NEW Steps, CtrlInv(Steps), NEW k \in Key,
         UserCreate(k) \/ UserEdit(k) \/ UserDelete(k)
  PROVE  CtrlInv(Steps)' /\ KeepsClaims /\ KeepsOriginals
<1>1. /\ api[k] \in Object /\ cache[k] \in Object /\ mem[k] \in Object
      /\ Sane(api[k]) /\ Copy(api[k], cache[k]) /\ Copy(api[k], mem[k])
      /\ "prepare" \in Steps => Frozen(api[k])
  BY DEF CtrlInv, CtrlTypeOK
<1>2. PICK p \in Object :
         /\ api' = [api EXCEPT ![k] = p]
         /\ p.rv > api[k].rv
         /\ Sane(p) /\ (p.fin => api[k].fin)
         /\ api[k].fin => p.fin /\ p.orig = api[k].orig
         /\ api[k].live /\ p.live => p.orig = api[k].orig
         /\ UNCHANGED <<cache, queue, pc, mem, faults>>
  <2>1. CASE UserCreate(k)
    <3>1. PICK s \in SpecsOf[k] :
             UserWrite(k, [Absent(api[k].rv + 1) EXCEPT !.live = TRUE, !.spec = s])
      BY <2>1 DEF UserCreate
    <3> DEFINE p == [Absent(api[k].rv + 1) EXCEPT !.live = TRUE, !.spec = s]
    <3>2. s \in Specs /\ api[k].rv + 1 \in Nat /\ api[k].rv + 1 > 0
          /\ api[k].rv + 1 > api[k].rv
      BY <1>1, ControllerAssumption DEF Object
    <3>3. p \in Object /\ Sane(p) /\ p.rv > api[k].rv /\ ~ p.fin
      BY <3>2, CreatedObject
    <3>4. ~ api[k].live
      BY <2>1 DEF UserCreate
    <3>5. ~ api[k].fin
      BY <1>1, <3>4, NothingThere
    <3>6. QED
      BY <3>1, <3>3, <3>4, <3>5 DEF UserWrite
  <2>2. CASE UserEdit(k)
    <3>1. PICK s \in SpecsOf[k] :
             UserWrite(k, [api[k] EXCEPT !.rv = @ + 1, !.spec = s])
      BY <2>2 DEF UserEdit
    <3> DEFINE p == [api[k] EXCEPT !.rv = @ + 1, !.spec = s]
    <3>2. s \in Specs /\ api[k].live
      BY <2>2, ControllerAssumption DEF UserEdit
    <3>3. /\ p \in Object /\ Sane(p) /\ p.rv > api[k].rv
          /\ p.fin = api[k].fin /\ p.orig = api[k].orig
      BY <1>1, <3>2, EditedObject
    <3>4. QED
      BY <3>1, <3>3 DEF UserWrite
  <2>3. CASE UserDelete(k)
    <3>1. api[k].live
      BY <2>3 DEF UserDelete
    <3>2. CASE api[k].fin
      <4> DEFINE p == [api[k] EXCEPT !.rv = @ + 1, !.del = TRUE]
      <4>1. /\ p \in Object /\ Sane(p) /\ p.rv > api[k].rv
            /\ p.fin = api[k].fin /\ p.orig = api[k].orig
        BY <1>1, <3>1, <3>2, DeletedObject
      <4>2. UserWrite(k, p)
        BY <2>3, <3>2 DEF UserDelete
      <4>3. QED
        BY <4>1, <4>2 DEF UserWrite
    <3>3. CASE ~ api[k].fin
      <4> DEFINE p == Absent(api[k].rv + 1)
      <4>1. api[k].rv + 1 \in Nat /\ api[k].rv + 1 > api[k].rv
        BY <1>1 DEF Object
      <4>2. p \in Object /\ Sane(p) /\ p.rv = api[k].rv + 1 /\ ~ p.live /\ ~ p.fin
        BY <4>1, AbsentType DEF Absent
      <4>3. UserWrite(k, p)
        BY <2>3, <3>3 DEF UserDelete
      <4>4. QED
        BY <3>3, <4>1, <4>2, <4>3 DEF UserWrite
    <3>4. QED
      BY <3>2, <3>3
  <2>4. QED
    BY <2>1, <2>2, <2>3
<1>3. cache[k].fin /\ ~ cache[k].del => p.fin /\ p.orig = api[k].orig
  BY <1>1, <1>2 DEF Copy
<1>4. Copy(p, mem[k])
  BY <1>1, <1>2, CopyOfChanged DEF Copy
<1>5. /\ api' \in [Key -> Object] /\ cache' \in [Key -> Object]
      /\ \A j \in Key : Sane(api'[j]) /\ Sane(cache'[j])
      /\ "prepare" \in Steps => \A j \in Key : Frozen(api'[j]) /\ Frozen(cache'[j])
      /\ \A j \in Key : Copy(api'[j], cache'[j])
  <2>1. "prepare" \in Steps => Frozen(p)
    BY <1>1, <1>2 DEF Frozen
  <2>2. QED
    BY <1>2, <1>3, <2>1, ChangedObject
<1>6. CtrlInv(Steps)'
  BY <1>2, <1>4, <1>5 DEF CtrlInv, CtrlTypeOK
<1>7. QED
  BY <1>2, <1>6 DEF KeepsClaims, KeepsOriginals, CtrlInv, CtrlTypeOK

-----------------------------------------------------------------------------
LEMMA CopyItself == \A o \in Object : Copy(o, o)
  BY DEF Copy, Object

LEMMA CopyNothing ==
  ASSUME NEW o \in Object, Sane(o)
  PROVE  Copy(o, Absent(0))
<1>1. o.rv \in Nat
  BY DEF Object
<1>2. Absent(0).rv = 0 /\ ~ Absent(0).fin
  BY DEF Absent
<1>3. o.rv = 0 => o = Absent(0)
  BY DEF Sane
<1>4. QED
  BY <1>1, <1>2, <1>3 DEF Copy

\* A step of the worker that writes nothing to the API server.
LEMMA GotoStep ==
  ASSUME NEW Steps, CtrlInv(Steps), NEW k \in Key, NEW step \in Steps,
         NEW o \in Object, Sane(o), Copy(api[k], o), "prepare" \in Steps => Frozen(o),
         Idle \/ pc[k] # "idle",
         Goto(k, step, o),
         UNCHANGED <<api, cache, faults>>, queue' \in SUBSET Key
  PROVE  CtrlInv(Steps)'
<1> DEFINE n == IF step = "idle" THEN Absent(0) ELSE o
<1>1. /\ mem \in [Key -> Object] /\ pc \in [Key -> Steps]
      /\ api[k] \in Object /\ Sane(api[k])
  BY DEF CtrlInv, CtrlTypeOK
<1>2. n \in Object /\ Sane(n) /\ Copy(api[k], n) /\ ("prepare" \in Steps => Frozen(n))
  BY <1>1, AbsentType, CopyNothing
<1> HIDE DEF n
<1>3. mem' = [mem EXCEPT ![k] = n] /\ pc' = [pc EXCEPT ![k] = step]
  BY DEF Goto, n
<1>4. CtrlTypeOK(Steps)'
  BY <1>2, <1>3 DEF CtrlInv, CtrlTypeOK
<1>5. \A j \in Key : /\ Sane(mem'[j]) /\ Copy(api[j], mem'[j])
                     /\ "prepare" \in Steps => Frozen(mem'[j])
  BY <1>1, <1>2, <1>3 DEF CtrlInv
<1>6. \A i, j \in Key : pc'[i] # "idle" /\ pc'[j] # "idle" => i = j
  BY <1>1, <1>3 DEF CtrlInv, Idle
<1>7. QED
  BY <1>4, <1>5, <1>6 DEF CtrlInv

\* A write from the copy m: it is refused, or stores a new version.
LEMMA WriteStep ==
  ASSUME NEW Steps, CtrlInv(Steps), "idle" \in Steps,
         NEW k \in Key, NEW step \in Steps, pc[k] # "idle",
         NEW m, NEW new,
         m.rv = api[k].rv =>
             /\ new \in Object /\ Sane(new) /\ ("prepare" \in Steps => Frozen(new))
             /\ new = api[k] \/ new.rv > api[k].rv
             /\ cache[k].fin /\ ~ cache[k].del => new.fin /\ new.orig = api[k].orig,
         Write(k, m, new, step)
  PROVE  CtrlInv(Steps)'
<1>1. CASE /\ m.rv # api[k].rv /\ Retry(k) /\ UNCHANGED <<api, cache, faults>>
  <2>1. api[k] \in Object /\ Sane(api[k])
    BY DEF CtrlInv, CtrlTypeOK
  <2>2. queue' \in SUBSET Key
    BY <1>1 DEF Retry, CtrlInv, CtrlTypeOK
  <2>3. /\ Absent(0) \in Object /\ Sane(Absent(0)) /\ Frozen(Absent(0))
        /\ Copy(api[k], Absent(0))
    BY <2>1, AbsentType, CopyNothing
  <2>4. QED
    BY <1>1, <2>2, <2>3, GotoStep DEF Retry
<1>2. CASE /\ m.rv = api[k].rv
           /\ api' = [api EXCEPT ![k] = new]
           /\ Goto(k, step, new)
           /\ UNCHANGED <<queue, cache, faults>>
  <2> DEFINE n == IF step = "idle" THEN Absent(0) ELSE new
  <2>1. /\ api \in [Key -> Object] /\ mem \in [Key -> Object]
        /\ pc \in [Key -> Steps]
    BY DEF CtrlInv, CtrlTypeOK
  <2>2. n \in Object /\ Sane(n) /\ Copy(new, n) /\ ("prepare" \in Steps => Frozen(n))
    BY <1>2, AbsentType, CopyNothing, CopyItself
  <2> HIDE DEF n
  <2>3. mem' = [mem EXCEPT ![k] = n] /\ pc' = [pc EXCEPT ![k] = step]
    BY <1>2 DEF Goto, n
  <2>4. /\ api' \in [Key -> Object] /\ cache' \in [Key -> Object]
        /\ \A j \in Key : Sane(api'[j]) /\ Sane(cache'[j])
        /\ "prepare" \in Steps => \A j \in Key : Frozen(api'[j]) /\ Frozen(cache'[j])
        /\ \A j \in Key : Copy(api'[j], cache'[j])
    BY <1>2, ChangedObject
  <2>5. CtrlTypeOK(Steps)'
    BY <1>2, <2>2, <2>3, <2>4 DEF CtrlInv, CtrlTypeOK
  <2>6. \A j \in Key : /\ Sane(mem'[j]) /\ Copy(api'[j], mem'[j])
                       /\ "prepare" \in Steps => Frozen(mem'[j])
    BY <1>2, <2>1, <2>2, <2>3 DEF CtrlInv
  <2>7. \A i, j \in Key : pc'[i] # "idle" /\ pc'[j] # "idle" => i = j
    BY <2>1, <2>3 DEF CtrlInv
  <2>8. QED
    BY <2>4, <2>5, <2>6, <2>7 DEF CtrlInv
<1>3. QED
  BY <1>1, <1>2 DEF Write

\* The informer, the queue, errors and crashes leave the objects alone.
LEMMA EnvironmentStep ==
  ASSUME NEW Steps, CtrlInv(Steps), "idle" \in Steps, NEW k \in Key,
         Watch(k) \/ Resync(k) \/ Fail(k) \/ Crash
  PROVE  CtrlInv(Steps)' /\ UNCHANGED api
<1>1. /\ api \in [Key -> Object] /\ cache \in [Key -> Object]
      /\ mem \in [Key -> Object] /\ pc \in [Key -> Steps]
      /\ \A j \in Key : Sane(api[j]) /\ Sane(cache[j]) /\ Sane(mem[j])
      /\ "prepare" \in Steps =>
            \A j \in Key : Frozen(api[j]) /\ Frozen(cache[j]) /\ Frozen(mem[j])
      /\ \A j \in Key : Copy(api[j], cache[j]) /\ Copy(api[j], mem[j])
  BY DEF CtrlInv, CtrlTypeOK
<1>2. CASE Watch(k)
  <2>1. CtrlTypeOK(Steps)'
    BY <1>1, <1>2 DEF Watch, CtrlInv, CtrlTypeOK
  <2>2. \A j \in Key : /\ Sane(cache'[j]) /\ Copy(api[j], cache'[j])
                       /\ "prepare" \in Steps => Frozen(cache'[j])
    BY <1>1, <1>2, CopyItself DEF Watch
  <2>3. QED
    BY <1>2, <2>1, <2>2 DEF Watch, CtrlInv
<1>3. CASE Resync(k)
  BY <1>3 DEF Resync, CtrlInv, CtrlTypeOK
<1>4. CASE Fail(k)
  <2>1. faults' \in 0..MaxFaults
    BY <1>4, ControllerAssumption DEF Fail, CtrlInv, CtrlTypeOK
  <2>2. /\ mem' = [mem EXCEPT ![k] = Absent(0)] /\ pc' = [pc EXCEPT ![k] = "idle"]
        /\ queue' = queue \union {k} /\ UNCHANGED <<api, cache>>
    BY <1>4 DEF Fail, Retry, Goto
  <2>3. CtrlTypeOK(Steps)'
    BY <1>1, <2>1, <2>2, AbsentType DEF CtrlInv, CtrlTypeOK
  <2>4. \A j \in Key : /\ Sane(mem'[j]) /\ Copy(api[j], mem'[j])
                       /\ "prepare" \in Steps => Frozen(mem'[j])
    BY <1>1, <2>2, AbsentType, CopyNothing
  <2>5. \A i, j \in Key : pc'[i] # "idle" /\ pc'[j] # "idle" => i = j
    BY <1>1, <2>2 DEF CtrlInv
  <2>6. QED
    BY <2>2, <2>3, <2>4, <2>5 DEF CtrlInv
<1>5. CASE Crash
  <2>1. faults' \in 0..MaxFaults
    BY <1>5, ControllerAssumption DEF Crash, CtrlInv, CtrlTypeOK
  <2>2. CtrlTypeOK(Steps)'
    BY <1>1, <1>5, <2>1, AbsentType DEF Crash, CtrlInv, CtrlTypeOK
  <2>3. \A j \in Key : /\ Sane(mem'[j]) /\ Copy(api[j], mem'[j])
                       /\ Sane(cache'[j]) /\ Copy(api[j], cache'[j])
                       /\ "prepare" \in Steps => Frozen(cache'[j]) /\ Frozen(mem'[j])
    BY <1>1, <1>5, AbsentType, CopyNothing, CopyItself DEF Crash
  <2>4. QED
    BY <1>5, <2>2, <2>3 DEF Crash, CtrlInv
<1>6. QED
  BY <1>2, <1>3, <1>4, <1>5

-----------------------------------------------------------------------------
\* The running reconciliation works on a live copy, so that a write that is
\* not refused finds the object as it was read.
LEMMA WrittenIsRead ==
  ASSUME NEW Steps, CtrlInv(Steps), NEW k \in Key, mem[k].rv = api[k].rv
  PROVE  mem[k] = api[k]
  BY DEF CtrlInv, Copy

\* PrepareToSave changes the status of a copy only, and never an original
\* spec that is there.
LEMMA Prepared ==
  ASSUME NEW o \in Object, Sane(o), o.live
  PROVE  LET m == PrepareToSave(o)
         IN  /\ m \in Object /\ m.rv = o.rv /\ m.orig # None
             /\ o.orig # None => m.orig = o.orig
<1> DEFINE m == PrepareToSave(o)
<1>1. CASE o.orig = None
  <2>1. m = [o EXCEPT !.orig = o.spec]
    BY <1>1 DEF PrepareToSave
  <2>2. m \in Object /\ m.rv = o.rv /\ m.orig = o.spec
    BY <2>1 DEF Object
  <2>3. QED
    BY <1>1, <2>2 DEF Sane
<1>2. CASE o.orig # None
  <2>1. m = [o EXCEPT !.warn = (o.spec # o.orig)]
    BY <1>2 DEF PrepareToSave
  <2>2. (o.spec # o.orig) \in BOOLEAN
    OBVIOUS
  <2>3. m \in Object /\ m.rv = o.rv /\ m.orig = o.orig
    BY <2>1, <2>2 DEF Object
  <2>4. QED
    BY <1>2, <2>3
<1>3. QED
  BY <1>1, <1>2

\* A status update that sets the original spec, or leaves it as it was read;
\* it leaves that of an object with a finalizer.
LEMMA StatusStep ==
  ASSUME NEW Steps, CtrlInv(Steps), "idle" \in Steps,
         NEW k \in Key, NEW step \in Steps, pc[k] # "idle",
         NEW m \in Object, m.rv = mem[k].rv, mem[k].live,
         mem[k].fin \/ mem[k].orig # None => m.orig = mem[k].orig,
         StatusUpdate(k, m, step)
  PROVE  /\ CtrlInv(Steps)' /\ KeepsClaims /\ KeepsOriginals
         /\ pc'[k] = "idle" \/
             /\ pc'[k] = step
             /\ mem'[k].live = mem[k].live /\ mem'[k].del = mem[k].del
             /\ mem'[k].fin = mem[k].fin /\ mem'[k].orig = m.orig
<1> DEFINE w == [api[k] EXCEPT !.orig = m.orig, !.warn = m.warn, !.avail = m.avail]
           new == Stored(api[k], w)
<1>1. /\ api \in [Key -> Object] /\ cache \in [Key -> Object]
      /\ mem \in [Key -> Object] /\ pc \in [Key -> Steps]
      /\ Sane(api[k]) /\ Copy(api[k], cache[k]) /\ ("prepare" \in Steps => Frozen(api[k]))
  BY DEF CtrlInv, CtrlTypeOK
<1>2. w \in Object
  <2>1. m.orig \in SpecOrNone /\ m.warn \in BOOLEAN /\ m.avail \in BOOLEAN
    BY DEF Object
  <2>2. QED
    BY <1>1, <2>1, FieldTypes
<1>3. /\ w.rv = api[k].rv /\ w.live = api[k].live /\ w.del = api[k].del
      /\ w.fin = api[k].fin /\ w.spec = api[k].spec /\ w.orig = m.orig
  BY <1>1 DEF Object
<1> HIDE DEF w
<1>4. /\ new \in Object /\ new.live = w.live /\ new.del = w.del
      /\ new.fin = w.fin /\ new.spec = w.spec /\ new.orig = w.orig
      /\ new = api[k] \/ new.rv > api[k].rv
      /\ new.rv >= api[k].rv
  <2>1. api[k].rv + 1 \in Nat
    BY <1>1 DEF Object
  <2>2. (new = api[k] /\ w = api[k]) \/ new = [w EXCEPT !.rv = api[k].rv + 1]
    BY DEF Stored
  <2>3. CASE new = api[k] /\ w = api[k]
    BY <2>3, <1>1 DEF Object
  <2>4. CASE new = [w EXCEPT !.rv = api[k].rv + 1]
    <3>1. new \in Object
      BY <1>2, <2>1, <2>4, FieldTypes
    <3>2. QED
      BY <1>1, <1>2, <2>4, <3>1 DEF Object
  <2>5. QED
    BY <2>2, <2>3, <2>4
<1> HIDE DEF new
<1>5. m.rv = api[k].rv =>
         /\ api[k].live /\ Sane(new) /\ ("prepare" \in Steps => Frozen(new))
         /\ api[k].fin \/ api[k].orig # None => new.orig = api[k].orig
  <2>1. SUFFICES ASSUME m.rv = api[k].rv
                 PROVE  /\ api[k].live /\ Sane(new) /\ ("prepare" \in Steps => Frozen(new))
                        /\ api[k].fin \/ api[k].orig # None => new.orig = api[k].orig
    OBVIOUS
  <2>2. mem[k] = api[k]
    BY <2>1, WrittenIsRead
  <2>3. QED
    BY <1>1, <1>3, <1>4, <2>2 DEF Sane, Frozen, Object
<1>6. m.rv = api[k].rv =>
         (cache[k].fin /\ ~ cache[k].del => new.fin /\ new.orig = api[k].orig)
  BY <1>1, <1>3, <1>4, <1>5 DEF Copy, Sane
<1>7. Write(k, m, new, step)
  BY DEF StatusUpdate, new, w
<1>8. CtrlInv(Steps)'
  BY <1>4, <1>5, <1>6, <1>7, WriteStep
<1>9. CASE m.rv = api[k].rv /\ api' = [api EXCEPT ![k] = new] /\ Goto(k, step, new)
  <2>1. mem[k] = api[k]
    BY <1>9, WrittenIsRead
  <2>2. \A j \in Key : api'[j] = IF j = k THEN new ELSE api[j]
    BY <1>1, <1>9
  <2>3. KeepsClaims /\ KeepsOriginals
    BY <1>1, <1>3, <1>4, <1>5, <1>9, <2>2 DEF KeepsClaims, KeepsOriginals, Sane
  <2>4. pc'[k] = step /\ (step = "idle" \/ mem'[k] = new)
    BY <1>1, <1>9 DEF Goto
  <2>5. QED
    BY <1>3, <1>4, <1>8, <2>1, <2>3, <2>4
<1>10. CASE m.rv # api[k].rv /\ Retry(k) /\ UNCHANGED api
  <2>1. pc'[k] = "idle"
    BY <1>1, <1>10 DEF Retry, Goto
  <2>2. KeepsClaims /\ KeepsOriginals
    BY <1>10 DEF KeepsClaims, KeepsOriginals
  <2>3. QED
    BY <1>8, <2>1, <2>2
<1>11. QED
  BY <1>7, <1>9, <1>10 DEF Write

\* An update that adds the finalizer, to an object whose original spec is saved
\* if the reconciler saves one.
LEMMA FinalizerStep ==
  ASSUME NEW Steps, CtrlInv(Steps), "idle" \in Steps,
         NEW k \in Key, NEW step \in Steps, pc[k] # "idle",
         mem[k].live, ~ mem[k].del, "prepare" \in Steps => mem[k].orig # None,
         Update(k, [mem[k] EXCEPT !.fin = TRUE], step)
  PROVE  /\ CtrlInv(Steps)' /\ KeepsClaims /\ KeepsOriginals
         /\ pc'[k] = "idle" \/
             /\ pc'[k] = step
             /\ mem'[k].live /\ ~ mem'[k].del /\ mem'[k].fin
             /\ mem'[k].orig = mem[k].orig
<1> DEFINE m == [mem[k] EXCEPT !.fin = TRUE]
           w == [api[k] EXCEPT !.spec = m.spec, !.fin = m.fin]
           new == IF api[k].del /\ ~ m.fin THEN Absent(api[k].rv + 1)
                                          ELSE Stored(api[k], w)
<1>1. /\ api \in [Key -> Object] /\ cache \in [Key -> Object]
      /\ mem \in [Key -> Object] /\ pc \in [Key -> Steps]
      /\ Sane(api[k]) /\ Copy(api[k], cache[k])
  BY DEF CtrlInv, CtrlTypeOK
<1>2. m.rv = mem[k].rv /\ m.fin = TRUE /\ m.spec = mem[k].spec /\ m.spec \in SpecOrNone
  BY <1>1 DEF Object
<1> HIDE DEF m
<1>3. w \in Object
  BY <1>1, <1>2, FieldTypes
<1>4. /\ w.rv = api[k].rv /\ w.live = api[k].live /\ w.del = api[k].del
      /\ w.fin = TRUE /\ w.spec = m.spec /\ w.orig = api[k].orig
  BY <1>1, <1>2 DEF Object
<1> HIDE DEF w
<1>5. /\ new \in Object /\ new.live = w.live /\ new.del = w.del
      /\ new.fin = w.fin /\ new.spec = w.spec /\ new.orig = w.orig
      /\ new = api[k] \/ new.rv > api[k].rv
      /\ new.rv >= api[k].rv
  <2>1. api[k].rv + 1 \in Nat
    BY <1>1 DEF Object
  <2>2. (new = api[k] /\ w = api[k]) \/ new = [w EXCEPT !.rv = api[k].rv + 1]
    BY <1>2 DEF Stored
  <2>3. CASE new = api[k] /\ w = api[k]
    BY <2>3, <1>1 DEF Object
  <2>4. CASE new = [w EXCEPT !.rv = api[k].rv + 1]
    <3>1. new \in Object
      BY <1>3, <2>1, <2>4, FieldTypes
    <3>2. QED
      BY <1>1, <1>3, <2>4, <3>1 DEF Object
  <2>5. QED
    BY <2>2, <2>3, <2>4
<1> HIDE DEF new
<1>6. mem[k].rv = api[k].rv =>
         /\ mem[k] = api[k] /\ Sane(new) /\ ("prepare" \in Steps => Frozen(new))
         /\ api[k].live /\ ~ api[k].del
  BY <1>1, <1>2, <1>4, <1>5, WrittenIsRead DEF Sane, Frozen, Object
<1>7. mem[k].rv = api[k].rv =>
         (cache[k].fin /\ ~ cache[k].del => new.fin /\ new.orig = api[k].orig)
  BY <1>1, <1>4, <1>5
<1>8. Write(k, m, new, step)
  BY DEF Update, new, w, m
<1>9. CtrlInv(Steps)'
  BY <1>2, <1>5, <1>6, <1>7, <1>8, WriteStep
<1>10. CASE m.rv = api[k].rv /\ api' = [api EXCEPT ![k] = new] /\ Goto(k, step, new)
  <2>1. \A j \in Key : api'[j] = IF j = k THEN new ELSE api[j]
    BY <1>1, <1>10
  <2>2. KeepsClaims /\ KeepsOriginals
    BY <1>4, <1>5, <2>1 DEF KeepsClaims, KeepsOriginals
  <2>3. pc'[k] = step /\ (step = "idle" \/ mem'[k] = new)
    BY <1>1, <1>10 DEF Goto
  <2>4. QED
    BY <1>2, <1>4, <1>5, <1>6, <1>9, <1>10, <2>2, <2>3
<1>11. CASE m.rv # api[k].rv /\ Retry(k) /\ UNCHANGED api
  <2>1. pc'[k] = "idle"
    BY <1>1, <1>11 DEF Retry, Goto
  <2>2. KeepsClaims /\ KeepsOriginals
    BY <1>11 DEF KeepsClaims, KeepsOriginals
  <2>3. QED
    BY <1>9, <2>1, <2>2
<1>12. QED
  BY <1>8, <1>10, <1>11 DEF Write

\* A reconciliation that has read a deletion from a cache no older than it.
LEMMA ReadDeletion ==
  ASSUME NEW Steps, CtrlInv(Steps), NEW k \in Key, mem[k].del, mem[k].rv <= cache[k].rv,
         mem[k].rv = api[k].rv
  PROVE  cache[k].del
<1>1. mem[k] = api[k]
  BY WrittenIsRead
<1>2. cache[k].rv \in Nat /\ api[k].rv \in Nat
  BY DEF CtrlInv, CtrlTypeOK, Object
<1>3. cache[k].rv = api[k].rv
  BY <1>2 DEF CtrlInv, Copy
<1>4. QED
  BY <1>1, <1>3 DEF CtrlInv, Copy

\* The update that takes the finalizer from an object being deleted, when the
\* cache does not show the object without its deletion any more.
LEMMA NoFinalizerStep ==
  ASSUME NEW Steps, CtrlInv(Steps), "idle" \in Steps,
         NEW k \in Key, pc[k] # "idle",
         mem[k].live, mem[k].del,
         mem[k].rv = api[k].rv /\ cache[k].fin => cache[k].del,
         Update(k, [mem[k] EXCEPT !.fin = FALSE], "idle")
  PROVE  /\ CtrlInv(Steps)' /\ KeepsOriginals
         /\ pc'[k] = "idle"
         /\ \/ UNCHANGED api
            \/ mem[k] = api[k] /\ api' = [api EXCEPT ![k] = Absent(api[k].rv + 1)]
<1> DEFINE m == [mem[k] EXCEPT !.fin = FALSE]
           w == [api[k] EXCEPT !.spec = m.spec, !.fin = m.fin]
           new == IF api[k].del /\ ~ m.fin THEN Absent(api[k].rv + 1)
                                          ELSE Stored(api[k], w)
<1>1. /\ api \in [Key -> Object] /\ cache \in [Key -> Object]
      /\ mem \in [Key -> Object] /\ pc \in [Key -> Steps]
      /\ Sane(api[k]) /\ Copy(api[k], cache[k])
  BY DEF CtrlInv, CtrlTypeOK
<1>2. m.rv = mem[k].rv /\ m.fin = FALSE
  BY <1>1 DEF Object
<1> HIDE DEF m
<1>3. mem[k].rv = api[k].rv =>
         /\ mem[k] = api[k] /\ api[k].del
         /\ new = Absent(api[k].rv + 1)
         /\ cache[k].fin => cache[k].del
  BY <1>2, WrittenIsRead
<1>4. /\ api[k].rv + 1 \in Nat /\ api[k].rv + 1 > api[k].rv
      /\ Absent(api[k].rv + 1).rv = api[k].rv + 1
      /\ ~ Absent(api[k].rv + 1).live
      /\ Absent(api[k].rv + 1) \in Object /\ Sane(Absent(api[k].rv + 1))
      /\ Frozen(Absent(api[k].rv + 1))
  <2>1. api[k].rv + 1 \in Nat /\ api[k].rv + 1 > api[k].rv
    BY <1>1 DEF Object
  <2>2. QED
    BY <2>1, AbsentType DEF Absent
<1>5. Write(k, m, new, "idle")
  BY DEF Update, new, w, m
<1> HIDE DEF new
<1>6. CtrlInv(Steps)'
  BY <1>2, <1>3, <1>4, <1>5, WriteStep
<1>7. CASE m.rv = api[k].rv /\ api' = [api EXCEPT ![k] = new] /\ Goto(k, "idle", new)
  <2>1. \A j \in Key : api'[j] = IF j = k THEN new ELSE api[j]
    BY <1>1, <1>7
  <2>2. KeepsOriginals
    BY <1>2, <1>3, <1>4, <1>7, <2>1 DEF KeepsOriginals
  <2>3. QED
    BY <1>1, <1>2, <1>3, <1>6, <1>7, <2>2 DEF Goto
<1>8. CASE m.rv # api[k].rv /\ Retry(k) /\ UNCHANGED api
  <2>1. pc'[k] = "idle"
    BY <1>1, <1>8 DEF Retry, Goto
  <2>2. KeepsOriginals
    BY <1>8 DEF KeepsOriginals
  <2>3. QED
    BY <1>6, <1>8, <2>1, <2>2
<1>9. QED
  BY <1>5, <1>7, <1>8 DEF Write

-----------------------------------------------------------------------------
(* The lemmas with which the reconcilers are shown to keep the promise of   *)
(* Lifecycle: what each kind of step does to the phases of the resources,   *)
(* and what an outdated copy still tells about a deletion and an owner.     *)

Phases == [k \in Key |-> Phase(api[k])]

\* What the owner does to the phase of a resource.
OwnerMoves == {<<"none", "declared">>, <<"declared", "none">>, <<"claimed", "terminating">>}

\* o holds one of the specs that k may have (those its owner submits and what a
\* reconciler makes of them), and is available only with a finalizer.
Owned(Own, k, o) ==
    /\ o.spec \in Own[k] \union {None}
    /\ o.orig \in Own[k] \union {None}
    /\ o.avail => o.fin

\* A copy that shows a deletion may be of an object that has gone since; but
\* the one that took its place has no finalizer as long as there is the copy.
\* A running creation is not told of a deletion that did not happen.
Deletion(k) ==
    /\ cache[k].del /\ api[k].fin => api[k].del
    /\ mem[k].del /\ api[k].fin => api[k].del
    /\ pc[k] # "idle" /\ ~ mem[k].del /\ cache[k].del => api[k].del

PhaseInv(Own) ==
    \A k \in Key : /\ Owned(Own, k, api[k]) /\ Owned(Own, k, cache[k]) /\ Owned(Own, k, mem[k])
                   /\ Deletion(k)

-----------------------------------------------------------------------------
LEMMA AbsentOwned ==
  ASSUME NEW Own
  PROVE  \A k \in Key, v \in Nat : /\ Owned(Own, k, Absent(v)) /\ ~ Absent(v).del
                                   /\ ~ Absent(v).fin /\ ~ Absent(v).live
  BY DEF Owned, Absent

LEMMA PhaseInit == ASSUME NEW Own, CtrlInit PROVE PhaseInv(Own)
  BY AbsentOwned DEF CtrlInit, PhaseInv, Deletion

LEMMA ObjectTypes ==
  ASSUME NEW Steps, CtrlInv(Steps)
  PROVE  /\ api \in [Key -> Object] /\ cache \in [Key -> Object]
         /\ mem \in [Key -> Object] /\ pc \in [Key -> Steps]
         /\ \A k \in Key : /\ Sane(api[k]) /\ Sane(cache[k]) /\ Sane(mem[k])
                           /\ Copy(api[k], cache[k]) /\ Copy(api[k], mem[k])
  BY DEF CtrlInv, CtrlTypeOK

\* A step that changes nothing in the objects of the API server.
LEMMA SamePhases ==
  ASSUME UNCHANGED api
  PROVE  Phases' = Phases
  BY DEF Phases

LEMMA OnePhase ==
  ASSUME NEW k \in Key, \A j \in Key \ {k} : api'[j] = api[j]
  PROVE  Phases' = [Phases EXCEPT ![k] = Phase(api'[k])]
  BY DEF Phases

-----------------------------------------------------------------------------
\* The users move the phase as owners may, and create nothing that is claimed.
LEMMA UserPhase ==
  ASSUME NEW Steps, CtrlInv(Steps), NEW Own, PhaseInv(Own), NEW k \in Key,
         SpecsOf[k] \subseteq Own[k],
         UserCreate(k) \/ UserEdit(k) \/ UserDelete(k)
  PROVE  /\ PhaseInv(Own)'
         /\ \/ Phases' = Phases
            \/ \E m \in OwnerMoves : Phases[k] = m[1] /\ Phases' = [Phases EXCEPT ![k] = m[2]]
<1>1. /\ api \in [Key -> Object] /\ Sane(api[k]) /\ api[k] \in Object
      /\ api[k].rv + 1 \in Nat
  BY ObjectTypes DEF Object
<1>2. UNCHANGED <<cache, pc, mem>> /\ \A j \in Key \ {k} : api'[j] = api[j]
  BY <1>1 DEF UserCreate, UserEdit, UserDelete, UserWrite
<1>3. ASSUME Owned(Own, k, api'[k]), api'[k].fin => api[k].fin, api[k].del => api'[k].del
      PROVE  PhaseInv(Own)'
  <2>1. ASSUME NEW j \in Key
        PROVE  /\ Owned(Own, j, api'[j]) /\ Owned(Own, j, cache'[j]) /\ Owned(Own, j, mem'[j])
               /\ Deletion(j)'
    <3>1. CASE j = k
      BY <1>2, <1>3, <3>1 DEF PhaseInv, Deletion
    <3>2. CASE j # k
      BY <1>2, <3>2 DEF PhaseInv, Deletion
    <3>3. QED
      BY <3>1, <3>2
  <2>2. QED
    BY <2>1 DEF PhaseInv, Owned
<1>4. CASE UserCreate(k)
  <2>1. PICK s \in SpecsOf[k] :
           api' = [api EXCEPT ![k] = [Absent(api[k].rv + 1) EXCEPT !.live = TRUE, !.spec = s]]
    BY <1>4 DEF UserCreate, UserWrite
  <2>2. ~ api[k].live /\ ~ api[k].fin /\ ~ api[k].del
    BY <1>1, <1>4, NothingThere DEF UserCreate
  <2>3. /\ api'[k].live /\ ~ api'[k].del /\ ~ api'[k].fin /\ ~ api'[k].avail
        /\ api'[k].spec = s /\ api'[k].orig = None
    BY <1>1, <2>1 DEF Absent
  <2>4. PhaseInv(Own)'
    BY <1>3, <2>2, <2>3 DEF Owned
  <2>5. Phase(api[k]) = "none" /\ Phase(api'[k]) = "declared"
    BY <2>2, <2>3 DEF Phase
  <2>6. Phases[k] = "none" /\ Phases' = [Phases EXCEPT ![k] = "declared"]
    BY <1>2, <2>5, OnePhase DEF Phases
  <2>7. QED
    BY <2>4, <2>6 DEF OwnerMoves
<1>5. CASE UserEdit(k)
  <2>1. PICK s \in SpecsOf[k] :
           api' = [api EXCEPT ![k] = [api[k] EXCEPT !.rv = @ + 1, !.spec = s]]
    BY <1>5 DEF UserEdit, UserWrite
  <2>2. /\ api'[k].live = api[k].live /\ api'[k].del = api[k].del
        /\ api'[k].fin = api[k].fin /\ api'[k].avail = api[k].avail
        /\ api'[k].spec = s /\ api'[k].orig = api[k].orig
    BY <1>1, <2>1 DEF Object
  <2>3. PhaseInv(Own)'
    BY <1>3, <2>2 DEF Owned, PhaseInv
  <2>4. Phase(api'[k]) = Phase(api[k])
    BY <2>2 DEF Phase
  <2>5. Phases' = Phases
    BY <1>2, <2>4, OnePhase DEF Phases
  <2>6. QED
    BY <2>3, <2>5
<1>6. CASE UserDelete(k)
  <2>1. api[k].live /\ ~ api[k].del
    BY <1>6 DEF UserDelete
  <2>2. CASE api[k].fin
    <3>1. api' = [api EXCEPT ![k] = [api[k] EXCEPT !.rv = @ + 1, !.del = TRUE]]
      BY <1>6, <2>2 DEF UserDelete, UserWrite
    <3>2. /\ api'[k].live = api[k].live /\ api'[k].del
          /\ api'[k].fin = api[k].fin /\ api'[k].avail = api[k].avail
          /\ api'[k].spec = api[k].spec /\ api'[k].orig = api[k].orig
      BY <1>1, <3>1 DEF Object
    <3>3. PhaseInv(Own)'
      BY <1>3, <3>2 DEF Owned, PhaseInv
    <3>4. Phase(api[k]) = "claimed" /\ Phase(api'[k]) = "terminating"
      BY <2>1, <2>2, <3>2 DEF Phase
    <3>5. Phases[k] = "claimed" /\ Phases' = [Phases EXCEPT ![k] = "terminating"]
      BY <1>2, <3>4, OnePhase DEF Phases
    <3>6. QED
      BY <3>3, <3>5 DEF OwnerMoves
  <2>3. CASE ~ api[k].fin
    <3>1. api'[k] = Absent(api[k].rv + 1)
      BY <1>1, <1>6, <2>3 DEF UserDelete, UserWrite
    <3>2. PhaseInv(Own)'
      BY <1>1, <1>3, <2>1, <3>1, AbsentOwned
    <3>3. Phase(api[k]) = "declared" /\ Phase(api'[k]) = "none"
      BY <1>1, <2>1, <2>3, <3>1, AbsentOwned DEF Phase
    <3>4. Phases[k] = "declared" /\ Phases' = [Phases EXCEPT ![k] = "none"]
      BY <1>2, <3>3, OnePhase DEF Phases
    <3>5. QED
      BY <3>2, <3>4 DEF OwnerMoves
  <2>4. QED
    BY <2>2, <2>3
<1>7. QED
  BY <1>4, <1>5, <1>6

\* The informer, the queue, errors and crashes leave the phases alone.
LEMMA EnvironmentPhase ==
  ASSUME NEW Steps, CtrlInv(Steps), NEW Own, PhaseInv(Own), NEW k \in Key,
         Watch(k) \/ Resync(k) \/ Fail(k) \/ Crash
  PROVE  PhaseInv(Own)' /\ Phases' = Phases
<1>1. UNCHANGED api
  BY DEF Watch, Resync, Fail, Crash
<1>2. ASSUME NEW j \in Key
      PROVE  /\ cache'[j] = cache[j] \/ cache'[j] = api[j]
             /\ \/ pc'[j] = pc[j] /\ mem'[j] = mem[j]
                \/ pc'[j] = "idle" /\ mem'[j] = Absent(0)
  BY ObjectTypes DEF Watch, Resync, Fail, Retry, Goto, Crash
<1>3. ASSUME NEW j \in Key
      PROVE  /\ Owned(Own, j, api'[j]) /\ Owned(Own, j, cache'[j]) /\ Owned(Own, j, mem'[j])
             /\ Deletion(j)'
  <2>1. Owned(Own, j, mem'[j]) /\ Owned(Own, j, cache'[j])
    BY <1>1, <1>2, AbsentOwned DEF PhaseInv
  <2>2. Deletion(j)'
    BY <1>1, <1>2, AbsentOwned DEF PhaseInv, Deletion
  <2>3. QED
    BY <1>1, <2>1, <2>2 DEF PhaseInv
<1>4. QED
  BY <1>1, <1>3, SamePhases DEF PhaseInv, Owned

\* The worker moves on with the copy it has, or starts with the one in the cache.
LEMMA GotoPhase ==
  ASSUME NEW Steps, CtrlInv(Steps), NEW Own, PhaseInv(Own), NEW k \in Key, NEW step, NEW o,
         o = cache[k] \/ (o = mem[k] /\ pc[k] # "idle"),
         Goto(k, step, o), UNCHANGED <<api, cache>>
  PROVE  PhaseInv(Own)' /\ Phases' = Phases
<1>1. /\ \A j \in Key \ {k} : pc'[j] = pc[j] /\ mem'[j] = mem[j]
      /\ pc'[k] = step /\ mem'[k] = IF step = "idle" THEN Absent(0) ELSE o
  BY ObjectTypes DEF Goto
<1>2. Owned(Own, k, mem'[k]) /\ Deletion(k)'
  BY <1>1, AbsentOwned DEF PhaseInv, Deletion
<1>3. \A j \in Key \ {k} : Deletion(j)'
  BY <1>1 DEF PhaseInv, Deletion
<1>4. QED
  BY <1>1, <1>2, <1>3, SamePhases DEF PhaseInv, Owned

-----------------------------------------------------------------------------
\* What a status update leaves of the object and of the copy.
LEMMA StatusFields ==
  ASSUME NEW Steps, CtrlInv(Steps), NEW k \in Key, NEW step, NEW m,
         StatusUpdate(k, m, step)
  PROVE  /\ UNCHANGED cache
         /\ \A j \in Key \ {k} : api'[j] = api[j] /\ pc'[j] = pc[j] /\ mem'[j] = mem[j]
         /\ api'[k].live = api[k].live /\ api'[k].del = api[k].del
         /\ api'[k].fin = api[k].fin /\ api'[k].spec = api[k].spec
         /\ \/ api'[k] = api[k] /\ pc'[k] = "idle" /\ mem'[k] = Absent(0)
            \/ /\ m.rv = api[k].rv
               /\ api'[k].orig = m.orig /\ api'[k].avail = m.avail
               /\ pc'[k] = step /\ mem'[k] = IF step = "idle" THEN Absent(0) ELSE api'[k]
<1> DEFINE w == [api[k] EXCEPT !.orig = m.orig, !.warn = m.warn, !.avail = m.avail]
           new == Stored(api[k], w)
<1>1. /\ api \in [Key -> Object] /\ mem \in [Key -> Object] /\ pc \in [Key -> Steps]
      /\ api[k] \in Object
  BY ObjectTypes
<1>2. /\ w.live = api[k].live /\ w.del = api[k].del /\ w.fin = api[k].fin
      /\ w.spec = api[k].spec /\ w.orig = m.orig /\ w.avail = m.avail
  BY <1>1 DEF Object
<1>3. w \in [{"rv", "live", "del", "fin", "spec", "orig", "warn", "avail"} ->
                {w[f] : f \in {"rv", "live", "del", "fin", "spec", "orig", "warn", "avail"}}]
  BY <1>1 DEF Object
<1> HIDE DEF w
<1>4. /\ new.live = w.live /\ new.del = w.del /\ new.fin = w.fin
      /\ new.spec = w.spec /\ new.orig = w.orig /\ new.avail = w.avail
  BY <1>3 DEF Stored
<1> HIDE DEF new
<1>5. Write(k, m, new, step)
  BY DEF StatusUpdate, new, w
<1>6. CASE /\ m.rv = api[k].rv /\ api' = [api EXCEPT ![k] = new]
           /\ Goto(k, step, new) /\ UNCHANGED cache
  BY <1>1, <1>2, <1>4, <1>6 DEF Goto
<1>7. CASE Retry(k) /\ UNCHANGED <<api, cache>>
  BY <1>1, <1>7 DEF Retry, Goto
<1>8. QED
  BY <1>5, <1>6, <1>7 DEF Write

LEMMA StatusPhase ==
  ASSUME NEW Steps, CtrlInv(Steps), NEW Own, PhaseInv(Own), NEW k \in Key, NEW step, NEW m,
         pc[k] # "idle", m.rv = mem[k].rv, m.orig \in {mem[k].orig, mem[k].spec},
         m.avail => mem[k].fin,
         StatusUpdate(k, m, step)
  PROVE  PhaseInv(Own)' /\ Phases' = Phases
<1>1. /\ UNCHANGED cache
      /\ \A j \in Key \ {k} : api'[j] = api[j] /\ pc'[j] = pc[j] /\ mem'[j] = mem[j]
      /\ api'[k].live = api[k].live /\ api'[k].del = api[k].del
      /\ api'[k].fin = api[k].fin /\ api'[k].spec = api[k].spec
      /\ \/ api'[k] = api[k] /\ pc'[k] = "idle" /\ mem'[k] = Absent(0)
         \/ /\ m.rv = api[k].rv
            /\ api'[k].orig = m.orig /\ api'[k].avail = m.avail
            /\ pc'[k] = step /\ mem'[k] = IF step = "idle" THEN Absent(0) ELSE api'[k]
  BY StatusFields
<1>2. m.rv = api[k].rv => mem[k] = api[k]
  BY WrittenIsRead
<1>3. Owned(Own, k, api'[k]) /\ Owned(Own, k, mem'[k])
  BY <1>1, <1>2, AbsentOwned DEF PhaseInv, Owned
<1>4. Deletion(k)'
  BY <1>1, <1>2, AbsentOwned DEF PhaseInv, Deletion
<1>5. \A j \in Key \ {k} : Deletion(j)'
  BY <1>1 DEF PhaseInv, Deletion
<1>6. PhaseInv(Own)'
  BY <1>1, <1>3, <1>4, <1>5 DEF PhaseInv, Owned
<1>7. Phase(api'[k]) = Phase(api[k])
  BY <1>1 DEF Phase
<1>8. Phases' = Phases
  BY <1>1, <1>7, OnePhase DEF Phases
<1>9. QED
  BY <1>6, <1>8

\* What the update that sets the finalizer leaves.
LEMMA FinalizerFields ==
  ASSUME NEW Steps, CtrlInv(Steps), NEW k \in Key, NEW step,
         Update(k, [mem[k] EXCEPT !.fin = TRUE], step)
  PROVE  /\ UNCHANGED cache
         /\ \A j \in Key \ {k} : api'[j] = api[j] /\ pc'[j] = pc[j] /\ mem'[j] = mem[j]
         /\ \/ api'[k] = api[k] /\ pc'[k] = "idle" /\ mem'[k] = Absent(0)
            \/ /\ mem[k] = api[k] /\ api'[k].fin
               /\ api'[k].live = api[k].live /\ api'[k].del = api[k].del
               /\ api'[k].spec = api[k].spec /\ api'[k].orig = api[k].orig
               /\ api'[k].avail = api[k].avail
               /\ pc'[k] = step /\ mem'[k] = IF step = "idle" THEN Absent(0) ELSE api'[k]
<1> DEFINE m == [mem[k] EXCEPT !.fin = TRUE]
           w == [api[k] EXCEPT !.spec = m.spec, !.fin = m.fin]
           new == IF api[k].del /\ ~ m.fin THEN Absent(api[k].rv + 1)
                                          ELSE Stored(api[k], w)
<1>1. /\ api \in [Key -> Object] /\ mem \in [Key -> Object] /\ pc \in [Key -> Steps]
      /\ api[k] \in Object /\ mem[k] \in Object
  BY ObjectTypes
<1>2. m.rv = mem[k].rv /\ m.fin = TRUE /\ m.spec = mem[k].spec
  BY <1>1 DEF Object
<1> HIDE DEF m
<1>3. /\ w.live = api[k].live /\ w.del = api[k].del /\ w.fin = TRUE
      /\ w.spec = mem[k].spec /\ w.orig = api[k].orig /\ w.avail = api[k].avail
  BY <1>1, <1>2 DEF Object
<1>4. w \in [{"rv", "live", "del", "fin", "spec", "orig", "warn", "avail"} ->
                {w[f] : f \in {"rv", "live", "del", "fin", "spec", "orig", "warn", "avail"}}]
  BY <1>1 DEF Object
<1> HIDE DEF w
<1>5. /\ new.live = w.live /\ new.del = w.del /\ new.fin = w.fin
      /\ new.spec = w.spec /\ new.orig = w.orig /\ new.avail = w.avail
  BY <1>2, <1>4 DEF Stored
<1> HIDE DEF new
<1>6. Write(k, m, new, step)
  BY DEF Update, new, w, m
<1>7. m.rv = api[k].rv => mem[k] = api[k]
  BY <1>2, WrittenIsRead
<1>8. CASE /\ m.rv = api[k].rv /\ api' = [api EXCEPT ![k] = new]
           /\ Goto(k, step, new) /\ UNCHANGED cache
  BY <1>1, <1>3, <1>5, <1>7, <1>8 DEF Goto
<1>9. CASE Retry(k) /\ UNCHANGED <<api, cache>>
  BY <1>1, <1>9 DEF Retry, Goto
<1>10. QED
  BY <1>6, <1>8, <1>9 DEF Write

\* Setting the finalizer claims a resource that is declared.
LEMMA FinalizerPhase ==
  ASSUME NEW Steps, CtrlInv(Steps), NEW Own, PhaseInv(Own), NEW k \in Key, NEW step,
         pc[k] # "idle", mem[k].live, ~ mem[k].del, ~ mem[k].fin,
         Update(k, [mem[k] EXCEPT !.fin = TRUE], step)
  PROVE  /\ PhaseInv(Own)'
         /\ \/ Phases' = Phases
            \/ Phases[k] = "declared" /\ Phases' = [Phases EXCEPT ![k] = "claimed"]
<1>1. /\ UNCHANGED cache
      /\ \A j \in Key \ {k} : api'[j] = api[j] /\ pc'[j] = pc[j] /\ mem'[j] = mem[j]
      /\ \/ api'[k] = api[k] /\ pc'[k] = "idle" /\ mem'[k] = Absent(0)
         \/ /\ mem[k] = api[k] /\ api'[k].fin
            /\ api'[k].live = api[k].live /\ api'[k].del = api[k].del
            /\ api'[k].spec = api[k].spec /\ api'[k].orig = api[k].orig
            /\ api'[k].avail = api[k].avail
            /\ pc'[k] = step /\ mem'[k] = IF step = "idle" THEN Absent(0) ELSE api'[k]
  BY FinalizerFields
<1>2. Owned(Own, k, api'[k]) /\ Owned(Own, k, mem'[k])
  BY <1>1, AbsentOwned DEF PhaseInv, Owned
<1>3. Deletion(k)'
  BY <1>1, AbsentOwned DEF PhaseInv, Deletion
<1>4. \A j \in Key \ {k} : Deletion(j)'
  BY <1>1 DEF PhaseInv, Deletion
<1>5. PhaseInv(Own)'
  BY <1>1, <1>2, <1>3, <1>4 DEF PhaseInv, Owned
<1>6. CASE api'[k] = api[k]
  <2>1. Phases' = Phases
    BY <1>1, <1>6, OnePhase DEF Phases
  <2>2. QED
    BY <1>5, <2>1
<1>7. CASE /\ mem[k] = api[k] /\ api'[k].fin
           /\ api'[k].live = api[k].live /\ api'[k].del = api[k].del
  <2>1. Phase(api[k]) = "declared" /\ Phase(api'[k]) = "claimed"
    BY <1>7 DEF Phase
  <2>2. Phases[k] = "declared" /\ Phases' = [Phases EXCEPT ![k] = "claimed"]
    BY <1>1, <2>1, OnePhase DEF Phases
  <2>3. QED
    BY <1>5, <2>2
<1>8. QED
  BY <1>1, <1>6, <1>7

\* Removing the finalizer ends a termination.
LEMMA NoFinalizerPhase ==
  ASSUME NEW Steps, CtrlInv(Steps), "idle" \in Steps, NEW Own, PhaseInv(Own), NEW k \in Key, pc[k] # "idle",
         mem[k].live, mem[k].del,
         mem[k].rv = api[k].rv /\ cache[k].fin => cache[k].del,
         Update(k, [mem[k] EXCEPT !.fin = FALSE], "idle")
  PROVE  /\ PhaseInv(Own)'
         /\ \/ UNCHANGED api /\ Phases' = Phases
            \/ /\ mem[k] = api[k] /\ ~ api'[k].live
               /\ Phases[k] = "terminating" /\ Phases' = [Phases EXCEPT ![k] = "none"]
<1>1. /\ pc'[k] = "idle"
      /\ \/ UNCHANGED api
         \/ mem[k] = api[k] /\ api' = [api EXCEPT ![k] = Absent(api[k].rv + 1)]
  BY NoFinalizerStep
<1>2. /\ api \in [Key -> Object] /\ mem \in [Key -> Object] /\ pc \in [Key -> Steps]
      /\ api[k].rv + 1 \in Nat
  BY ObjectTypes DEF Object
<1>3. /\ UNCHANGED cache
      /\ \A j \in Key \ {k} : api'[j] = api[j] /\ pc'[j] = pc[j] /\ mem'[j] = mem[j]
      /\ mem'[k] = Absent(0)
  BY <1>1, <1>2 DEF Update, Write, Retry, Goto
<1>4. api'[k] = api[k] \/ api'[k] = Absent(api[k].rv + 1)
  BY <1>1, <1>2
<1>5. /\ Owned(Own, k, api'[k]) /\ Owned(Own, k, mem'[k])
      /\ ~ api'[k].fin \/ api'[k] = api[k]
  BY <1>2, <1>3, <1>4, AbsentOwned DEF PhaseInv
<1>6. Deletion(k)'
  BY <1>1, <1>3, <1>5, AbsentOwned DEF PhaseInv, Deletion
<1>7. \A j \in Key \ {k} : Deletion(j)'
  BY <1>3 DEF PhaseInv, Deletion
<1>8. PhaseInv(Own)'
  BY <1>3, <1>5, <1>6, <1>7 DEF PhaseInv, Owned
<1>9. CASE UNCHANGED api
  BY <1>8, <1>9, SamePhases
<1>10. CASE mem[k] = api[k] /\ api'[k] = Absent(api[k].rv + 1)
  <2>1. Phase(api[k]) = "terminating" /\ Phase(api'[k]) = "none"
    BY <1>2, <1>10, AbsentOwned DEF Phase
  <2>2. Phases[k] = "terminating" /\ Phases' = [Phases EXCEPT ![k] = "none"]
    BY <1>3, <2>1, OnePhase DEF Phases
  <2>3. ~ api'[k].live
    BY <1>2, <1>10, AbsentOwned
  <2>4. QED
    BY <1>8, <1>10, <2>2, <2>3
<1>11. QED
  BY <1>1, <1>2, <1>9, <1>10

-----------------------------------------------------------------------------
(* The two patterns of the reconcilers: what a method changed is saved.     *)

LEMMA PreparedPhase ==
  ASSUME NEW Steps, CtrlInv(Steps), NEW Own, PhaseInv(Own), NEW k \in Key, NEW step, pc[k] # "idle",
         SaveIfPrepared(k, step)
  PROVE  PhaseInv(Own)' /\ Phases' = Phases
<1> DEFINE m == PrepareToSave(mem[k])
<1>1. mem[k] \in Object
  BY ObjectTypes
<1>2. /\ m.rv = mem[k].rv /\ m.avail = mem[k].avail /\ m.orig \in {mem[k].orig, mem[k].spec}
  BY <1>1 DEF PrepareToSave, Object
<1>3. m.avail => mem[k].fin
  BY <1>2 DEF PhaseInv, Owned
<1> HIDE DEF m
<1>4. CASE StatusUpdate(k, m, step)
  BY <1>2, <1>3, <1>4, StatusPhase
<1>5. CASE m = mem[k] /\ Goto(k, step, m) /\ UNCHANGED <<api, cache, queue, faults>>
  BY <1>5, GotoPhase
<1>6. QED
  BY <1>4, <1>5 DEF SaveIfPrepared, m

LEMMA ClaimPhase ==
  ASSUME NEW Steps, CtrlInv(Steps), NEW Own, PhaseInv(Own), NEW k \in Key, NEW step, pc[k] # "idle",
         mem[k].live, ~ mem[k].del,
         UpdateIfFinalizer(k, TRUE, step)
  PROVE  /\ PhaseInv(Own)'
         /\ \/ Phases' = Phases
            \/ Phases[k] = "declared" /\ Phases' = [Phases EXCEPT ![k] = "claimed"]
<1>1. mem[k] \in Object
  BY ObjectTypes
<1>2. CASE ~ mem[k].fin /\ Update(k, [mem[k] EXCEPT !.fin = TRUE], step)
  BY <1>2, FinalizerPhase
<1>3. CASE Goto(k, step, mem[k]) /\ UNCHANGED <<api, cache, queue, faults>>
  BY <1>3, GotoPhase
<1>4. QED
  BY <1>1, <1>2, <1>3 DEF UpdateIfFinalizer, Object

LEMMA ReleasePhase ==
  ASSUME NEW Steps, CtrlInv(Steps), "idle" \in Steps, NEW Own, PhaseInv(Own), NEW k \in Key, pc[k] # "idle",
         mem[k].live, mem[k].del,
         mem[k].rv = api[k].rv /\ cache[k].fin => cache[k].del,
         UpdateIfFinalizer(k, FALSE, "idle")
  PROVE  /\ PhaseInv(Own)'
         /\ \/ UNCHANGED api /\ Phases' = Phases
            \/ /\ mem[k] = api[k] /\ ~ api'[k].live
               /\ Phases[k] = "terminating" /\ Phases' = [Phases EXCEPT ![k] = "none"]
<1>1. mem[k].fin
  BY ObjectTypes DEF Sane
<1>2. Update(k, [mem[k] EXCEPT !.fin = FALSE], "idle")
  BY <1>1 DEF UpdateIfFinalizer
<1>3. QED
  BY <1>2, NoFinalizerPhase

-----------------------------------------------------------------------------
(* No change is lost.  What the cache shows of a resource is either what    *)
(* its owner waits for, or outdated, or about to be dealt with; and a       *)
(* reconciliation that has nothing to write has found everything in place.  *)
(* P holds the steps after the one that saves what has been prepared.       *)

Warned(o) == o.warn = (o.spec # o.orig)

Followed(k, P) ==
    \/ k \in queue
    \/ pc[k] = "idle" /\ (cache[k].rv < api[k].rv \/ Converged(cache[k]))
    \/ /\ pc[k] # "idle"
       /\ \/ cache[k].rv < mem[k].rv
          \/ mem[k] = cache[k] /\ (pc[k] \in P => Warned(mem[k]))

FollowedInv(P) == \A k \in Key : Followed(k, P)

LEMMA FollowedInit == ASSUME NEW P, CtrlInit PROVE FollowedInv(P)
<1>1. Converged(Absent(0))
  BY DEF Converged, Absent
<1>2. \A k \in Key : pc[k] = "idle" /\ cache[k] = Absent(0)
  BY DEF CtrlInit
<1>3. QED
  BY <1>1, <1>2 DEF FollowedInv, Followed

LEMMA FollowedSettled ==
  ASSUME NEW Steps, CtrlInv(Steps), NEW P, FollowedInv(P)
  PROVE  \A k \in Key : Settled(k) => Converged(api[k])
  BY ObjectTypes DEF FollowedInv, Followed, Settled, Object

\* A step that concerns one key.
LEMMA FollowedOne ==
  ASSUME NEW P, FollowedInv(P), NEW k \in Key, UNCHANGED cache,
         queue \ {k} \subseteq queue',
         \A j \in Key \ {k} : api'[j] = api[j] /\ pc'[j] = pc[j] /\ mem'[j] = mem[j],
         Followed(k, P)'
  PROVE  FollowedInv(P)'
<1>1. ASSUME NEW j \in Key \ {k} PROVE Followed(j, P)'
  BY <1>1 DEF FollowedInv, Followed
<1>2. QED
  BY <1>1 DEF FollowedInv

LEMMA FollowedGet ==
  ASSUME NEW Steps, CtrlInv(Steps), NEW P, FollowedInv(P), NEW k \in Key, NEW step,
         Dequeue(k), Goto(k, step, cache[k]), UNCHANGED <<api, cache>>,
         step \notin P, step = "idle" => ~ cache[k].live
  PROVE  FollowedInv(P)'
<1>1. /\ pc'[k] = step /\ (step # "idle" => mem'[k] = cache[k])
      /\ queue \ {k} \subseteq queue'
      /\ \A j \in Key \ {k} : api'[j] = api[j] /\ pc'[j] = pc[j] /\ mem'[j] = mem[j]
  BY ObjectTypes DEF Dequeue, Goto
<1>2. Followed(k, P)'
  BY <1>1 DEF Followed, Converged
<1>3. QED
  BY <1>1, <1>2, FollowedOne

LEMMA FollowedGoto ==
  ASSUME NEW Steps, CtrlInv(Steps), NEW P, FollowedInv(P), NEW k \in Key, NEW step,
         pc[k] # "idle", step # "idle", Goto(k, step, mem[k]), UNCHANGED <<api, cache, queue>>,
         step \in P => pc[k] \in P \/ Warned(mem[k])
  PROVE  FollowedInv(P)'
<1>1. /\ pc'[k] = step /\ mem'[k] = mem[k]
      /\ queue \ {k} \subseteq queue'
      /\ \A j \in Key \ {k} : api'[j] = api[j] /\ pc'[j] = pc[j] /\ mem'[j] = mem[j]
  BY ObjectTypes DEF Goto
<1>2. Followed(k, P)'
  BY <1>1 DEF Followed, FollowedInv, Warned
<1>3. QED
  BY <1>1, <1>2, FollowedOne

\* A write that is refused is tried again; one that is not makes the cache
\* outdated, unless it changes nothing.
LEMMA WriteNoticed ==
  ASSUME NEW Steps, CtrlInv(Steps), NEW k \in Key, NEW step, NEW m, NEW new, Write(k, m, new, step),
         m.rv = api[k].rv => new = api[k] \/ (new.rv > api[k].rv /\ new.rv \in Nat)
  PROVE  /\ UNCHANGED cache /\ queue \subseteq queue'
         /\ \A j \in Key \ {k} : api'[j] = api[j] /\ pc'[j] = pc[j] /\ mem'[j] = mem[j]
         /\ \/ k \in queue'
            \/ pc'[k] = "idle" /\ cache'[k].rv < api'[k].rv
            \/ pc'[k] # "idle" /\ cache'[k].rv < mem'[k].rv
            \/ /\ m.rv = api[k].rv /\ new = api[k] /\ pc'[k] = step /\ api'[k] = api[k]
               /\ step # "idle" => mem'[k] = api[k]
<1>1. /\ api \in [Key -> Object] /\ mem \in [Key -> Object] /\ pc \in [Key -> Steps]
      /\ cache[k].rv <= api[k].rv /\ cache[k].rv \in Nat /\ api[k].rv \in Nat
  BY ObjectTypes DEF Copy, Object
<1>2. CASE /\ m.rv = api[k].rv /\ api' = [api EXCEPT ![k] = new]
           /\ Goto(k, step, new) /\ UNCHANGED <<queue, cache>>
  BY <1>1, <1>2 DEF Goto
<1>3. CASE Retry(k) /\ UNCHANGED <<api, cache>>
  BY <1>1, <1>3 DEF Retry, Goto
<1>4. QED
  BY <1>2, <1>3 DEF Write

\* What an owner writes is a new version of one object.
LEMMA UserVersion ==
  ASSUME NEW Steps, CtrlInv(Steps), NEW k \in Key, UserCreate(k) \/ UserEdit(k) \/ UserDelete(k)
  PROVE  /\ UNCHANGED <<cache, queue, pc, mem>> /\ api'[k].rv = api[k].rv + 1
         /\ \A j \in Key \ {k} : api'[j] = api[j]
<1>1. api \in [Key -> Object] /\ api[k].rv \in Nat
  BY ObjectTypes DEF Object
<1>2. UNCHANGED <<cache, queue, pc, mem>> /\ \A j \in Key \ {k} : api'[j] = api[j]
  BY <1>1 DEF UserCreate, UserEdit, UserDelete, UserWrite
<1>3. CASE UserCreate(k)
  BY <1>1, <1>2, <1>3 DEF UserCreate, UserWrite, Absent
<1>4. CASE UserEdit(k)
  BY <1>1, <1>2, <1>4 DEF UserEdit, UserWrite, Object
<1>5. CASE UserDelete(k)
  BY <1>1, <1>2, <1>5 DEF UserDelete, UserWrite, Absent, Object
<1>6. QED
  BY <1>3, <1>4, <1>5

\* A write that is refused is tried again; one that is not makes the cache
\* outdated, unless it changes nothing.
LEMMA FollowedWrite ==
  ASSUME NEW Steps, CtrlInv(Steps), NEW P, FollowedInv(P), NEW k \in Key, NEW step,
         NEW m, NEW new, Write(k, m, new, step),
         m.rv = api[k].rv =>
            \/ new.rv > api[k].rv /\ new.rv \in Nat
            \/ /\ new = api[k] /\ step = "idle"
               /\ k \in queue \/ cache[k].rv < api[k].rv \/ Converged(cache[k])
  PROVE  FollowedInv(P)'
<1>1. /\ UNCHANGED cache /\ queue \subseteq queue'
      /\ \A j \in Key \ {k} : api'[j] = api[j] /\ pc'[j] = pc[j] /\ mem'[j] = mem[j]
      /\ \/ k \in queue'
         \/ pc'[k] = "idle" /\ cache'[k].rv < api'[k].rv
         \/ pc'[k] # "idle" /\ cache'[k].rv < mem'[k].rv
         \/ m.rv = api[k].rv /\ new = api[k] /\ pc'[k] = step /\ api'[k] = api[k]
  BY WriteNoticed
<1>2. ASSUME m.rv = api[k].rv, new = api[k]
      PROVE  step = "idle" /\ (k \in queue \/ cache[k].rv < api[k].rv \/ Converged(cache[k]))
  <2>1. ~ (api[k].rv > api[k].rv)
    BY ObjectTypes DEF Object
  <2>2. QED
    BY <1>2, <2>1
<1>3. Followed(k, P)'
  BY <1>1, <1>2 DEF Followed
<1>4. QED
  BY <1>1, <1>3, FollowedOne

\* What is stored has a new version, or is what was there.
LEMMA StoredVersion ==
  ASSUME NEW o \in Object, NEW w \in Object
  PROVE  \/ Stored(o, w) = o /\ w = o
         \/ Stored(o, w).rv > o.rv /\ Stored(o, w).rv \in Nat /\ w # o
<1>1. o.rv \in Nat /\ o.rv + 1 \in Nat /\ o.rv + 1 > o.rv
  BY DEF Object
<1>2. [w EXCEPT !.rv = o.rv + 1].rv = o.rv + 1
  BY DEF Object
<1>3. QED
  BY <1>1, <1>2 DEF Stored

LEMMA FollowedPrepared ==
  ASSUME NEW Steps, CtrlInv(Steps), NEW P, FollowedInv(P), NEW k \in Key, NEW step,
         pc[k] # "idle", step # "idle", mem[k].live, SaveIfPrepared(k, step)
  PROVE  FollowedInv(P)'
<1> DEFINE m == PrepareToSave(mem[k])
           w == [api[k] EXCEPT !.orig = m.orig, !.warn = m.warn, !.avail = m.avail]
<1>1. api[k] \in Object /\ mem[k] \in Object /\ Sane(mem[k])
  BY ObjectTypes
<1>2. /\ m \in Object /\ m.rv = mem[k].rv /\ m.orig # None
      /\ mem[k].orig # None => m.orig = mem[k].orig
  BY <1>1, Prepared
<1>3. m = mem[k] => Warned(mem[k])
  BY <1>1, <1>2 DEF PrepareToSave, Warned, Object
<1>4. m = [mem[k] EXCEPT !.orig = m.orig, !.warn = m.warn, !.avail = m.avail]
  BY <1>1 DEF PrepareToSave, Object
<1> HIDE DEF m
<1>5. CASE m # mem[k] /\ StatusUpdate(k, m, step)
  <2>1. w \in Object
    BY <1>1, <1>2 DEF Object
  <2>2. m.rv = api[k].rv => w = m /\ w # api[k]
    BY <1>2, <1>4, <1>5, WrittenIsRead
  <2>3. Write(k, m, Stored(api[k], w), step)
    BY <1>5 DEF StatusUpdate
  <2> HIDE DEF w
  <2>4. QED
    BY <1>1, <2>1, <2>2, <2>3, StoredVersion, FollowedWrite
<1>6. CASE m = mem[k] /\ Goto(k, step, m) /\ UNCHANGED <<api, cache, queue, faults>>
  BY <1>3, <1>6, FollowedGoto
<1>7. QED
  BY <1>5, <1>6 DEF SaveIfPrepared, m

LEMMA FollowedClaim ==
  ASSUME NEW Steps, CtrlInv(Steps), NEW P, FollowedInv(P), NEW k \in Key, NEW step,
         pc[k] # "idle", step # "idle", pc[k] \in P, UpdateIfFinalizer(k, TRUE, step)
  PROVE  FollowedInv(P)'
<1> DEFINE m == [mem[k] EXCEPT !.fin = TRUE]
           w == [api[k] EXCEPT !.spec = m.spec, !.fin = m.fin]
<1>1. api[k] \in Object /\ mem[k] \in Object
  BY ObjectTypes
<1>2. m \in Object /\ m.rv = mem[k].rv /\ m.fin = TRUE
  BY <1>1 DEF Object
<1>3. CASE mem[k].fin # TRUE /\ Update(k, m, step)
  <2>1. w \in Object /\ w.fin = TRUE
    BY <1>1, <1>2 DEF Object
  <2>2. m.rv = api[k].rv => w # api[k]
    BY <1>2, <1>3, <2>1, WrittenIsRead
  <2>3. Write(k, m, Stored(api[k], w), step)
    BY <1>2, <1>3 DEF Update
  <2> HIDE DEF w, m
  <2>4. QED
    BY <1>1, <2>1, <2>2, <2>3, StoredVersion, FollowedWrite
<1>4. CASE Goto(k, step, mem[k]) /\ UNCHANGED <<api, cache, queue, faults>>
  BY <1>4, FollowedGoto
<1>5. QED
  BY <1>3, <1>4 DEF UpdateIfFinalizer

\* The last write changes nothing only if everything is in place.
LEMMA FollowedAvailable ==
  ASSUME NEW Steps, CtrlInv(Steps), NEW P, FollowedInv(P), NEW k \in Key,
         pc[k] # "idle", pc[k] \in P, mem[k].live, ~ mem[k].del, mem[k].fin,
         StatusUpdate(k, [mem[k] EXCEPT !.avail = TRUE], "idle")
  PROVE  FollowedInv(P)'
<1> DEFINE m == [mem[k] EXCEPT !.avail = TRUE]
           w == [api[k] EXCEPT !.orig = m.orig, !.warn = m.warn, !.avail = m.avail]
<1>1. api[k] \in Object /\ mem[k] \in Object
  BY ObjectTypes
<1>2. m \in Object /\ m.rv = mem[k].rv /\ m.avail = TRUE
  BY <1>1 DEF Object
<1>3. w \in Object /\ w.avail = TRUE
  BY <1>1, <1>2 DEF Object
<1>4. Write(k, m, Stored(api[k], w), "idle")
  BY DEF StatusUpdate
<1>5. m.rv = api[k].rv => mem[k] = api[k]
  BY <1>2, WrittenIsRead
<1> HIDE DEF m, w
<1>6. ASSUME m.rv = api[k].rv, w = api[k]
      PROVE  k \in queue \/ cache[k].rv < api[k].rv \/ Converged(cache[k])
  BY <1>3, <1>5, <1>6 DEF FollowedInv, Followed, Warned, Converged
<1>7. QED
  BY <1>1, <1>3, <1>4, <1>6, StoredVersion, FollowedWrite

\* An object that goes away is a change like any other.
LEMMA FollowedRelease ==
  ASSUME NEW Steps, CtrlInv(Steps), NEW P, FollowedInv(P), NEW k \in Key,
         pc[k] # "idle", mem[k].live, mem[k].del, UpdateIfFinalizer(k, FALSE, "idle")
  PROVE  FollowedInv(P)'
<1> DEFINE m == [mem[k] EXCEPT !.fin = FALSE]
           w == [api[k] EXCEPT !.spec = m.spec, !.fin = m.fin]
<1>1. api[k] \in Object /\ mem[k] \in Object /\ mem[k].fin
  BY ObjectTypes DEF Sane
<1>2. m.rv = mem[k].rv /\ m.fin = FALSE
  BY <1>1 DEF Object
<1>3. Update(k, m, "idle")
  BY <1>1 DEF UpdateIfFinalizer
<1> DEFINE new == IF api[k].del /\ ~ m.fin THEN Absent(api[k].rv + 1)
                                          ELSE Stored(api[k], w)
<1>4. Write(k, m, new, "idle")
  BY <1>3 DEF Update
<1>5. m.rv = api[k].rv => new.rv > api[k].rv /\ new.rv \in Nat
  <2>1. api[k].rv \in Nat /\ Absent(api[k].rv + 1).rv = api[k].rv + 1
    BY <1>1 DEF Object, Absent
  <2>2. m.rv = api[k].rv => mem[k] = api[k]
    BY <1>2, WrittenIsRead
  <2>3. m.rv = api[k].rv => new = Absent(api[k].rv + 1)
    BY <1>2, <2>2
  <2> HIDE DEF new, m
  <2>4. QED
    BY <2>1, <2>3
<1> HIDE DEF new, m
<1>6. QED
  BY <1>4, <1>5, FollowedWrite

\* The informer reports every change, errors are returned, and a restart
\* takes up every object there is; what the users write makes the cache
\* outdated.
LEMMA FollowedEnvironment ==
  ASSUME NEW Steps, CtrlInv(Steps), NEW P, FollowedInv(P), NEW k \in Key,
         \/ UserCreate(k) \/ UserEdit(k) \/ UserDelete(k)
         \/ Watch(k) \/ Resync(k) \/ Fail(k) \/ Crash
  PROVE  FollowedInv(P)'
<1>1. /\ api \in [Key -> Object] /\ mem \in [Key -> Object] /\ pc \in [Key -> Steps]
      /\ cache \in [Key -> Object]
      /\ cache[k].rv <= api[k].rv /\ cache[k].rv \in Nat /\ api[k].rv \in Nat
  BY ObjectTypes DEF Copy, Object
<1>2. CASE UserCreate(k) \/ UserEdit(k) \/ UserDelete(k)
  <2>1. /\ UNCHANGED <<cache, queue, pc, mem>> /\ api'[k].rv = api[k].rv + 1
        /\ \A j \in Key \ {k} : api'[j] = api[j]
    BY <1>2, UserVersion
  <2>2. Followed(k, P)'
    BY <1>1, <2>1 DEF FollowedInv, Followed
  <2>3. QED
    BY <2>1, <2>2, FollowedOne
<1>3. CASE Watch(k)
  <2>1. /\ k \in queue' /\ queue \subseteq queue' /\ UNCHANGED <<api, pc, mem>>
        /\ \A j \in Key \ {k} : cache'[j] = cache[j]
    BY <1>1, <1>3 DEF Watch
  <2>2. QED
    BY <2>1 DEF FollowedInv, Followed
<1>4. CASE Resync(k)
  BY <1>4 DEF Resync, FollowedInv, Followed
<1>5. CASE Fail(k)
  <2>1. /\ k \in queue' /\ queue \subseteq queue' /\ UNCHANGED <<api, cache>>
        /\ \A j \in Key \ {k} : pc'[j] = pc[j] /\ mem'[j] = mem[j]
    BY <1>1, <1>5 DEF Fail, Retry, Goto
  <2>2. QED
    BY <2>1 DEF FollowedInv, Followed
<1>6. CASE Crash
  <2>1. \A j \in Key : pc'[j] = "idle" /\ cache'[j] = api[j] /\ (api[j].live => j \in queue')
    BY <1>6 DEF Crash
  <2>2. QED
    BY <2>1 DEF FollowedInv, Followed, Converged
<1>7. QED
  BY <1>2, <1>3, <1>4, <1>5, <1>6

LEMMA FollowedUntouched ==
  ASSUME NEW P, FollowedInv(P), UNCHANGED ctrlVars
  PROVE  FollowedInv(P)'
  BY DEF FollowedInv, Followed, ctrlVars

=============================================================================
